------------------------- MODULE ClusterRestProofs -------------------------
(***************************************************************************)
(* Proofs about ClusterRest.tla: what a broadcast DELETE and a merged list *)
(* of the mirror promise, for any cluster, any clients, filters and paths, *)
(* any changes of the brokers meanwhile and any peers that fail or act too *)
(* late; that its pages partition a merged list; and that the counts of    *)
(* its topic tree add up.                                                  *)
(***************************************************************************)
EXTENDS ClusterRest, FiniteSetTheorems, SequenceTheorems, WellFoundedInduction, TLAPS

(* The brokers' tables; nobody is subscribed where he is not connected.    *)
TablesTyped ==
    /\ online \in [Nodes -> SUBSET Clients]
    /\ subs \in [Nodes -> SUBSET (Clients \X Filters)]
    /\ \A n \in Nodes : \A x \in subs[n] : x[1] \in online[n]
    /\ retained \in [Nodes -> SUBSET Filters]
    /\ stored \subseteq Clients

(* Between two requests nothing is asked and nothing remembered; an answer *)
(* is given when no peer is waited for any more.                           *)
RequestTyped ==
    /\ got = [n \in Nodes |-> got[n]]
    /\ req # None => req \in ListRequests \cup DeleteRequests
    /\ req = None =>
        /\ answer = None /\ late = {} /\ acted = {}
        /\ \A n \in Nodes : got[n] = Waiting
    /\ answer # None =>
        \A n \in Nodes : got[n].status \notin {"waiting", "reading"}

Deleting == req # None /\ req.op \in Deletes

(* The target of the DELETE is not on node n, or it came there since the   *)
(* request began.                                                          *)
Absent(n) == TargetOn(n) \in Now => TargetOn(n) \in born

(* Node n is done with the target: rid of it, or it has disconnected the   *)
(* client whose session is to be cleared.                                  *)
Done(n) == Absent(n) \/ (req.op = "clearSession" /\ n \in acted)

(* A peer that answered a DELETE has dealt with the target, and one that   *)
(* did not see the client has not missed it.                               *)
PeersDone ==
    Deleting => \A n \in Nodes :
        /\ got[n].status \in {"waiting", "reading", "204", "404", "error"}
        /\ got[n].status \in {"204", "404"} => Done(n)
        /\ got[n].status = "reading" =>
            /\ req.op = "clearSession"
            /\ req.arg \notin got[n].seen => Absent(n)

(* Who removed something has said so, or was not heard; only a DELETE can  *)
(* come too late.                                                          *)
ActsReported ==
    /\ late # {} => Deleting
    /\ \A n \in acted : got[n].status \in {"204", "error"}
    /\ \A n \in late : got[n].status = "error"
    /\ acted \cup late \subseteq Nodes

(* A status code is what broadcastDelete makes of the answers.             *)
CodeOfAnswers ==
    answer # None /\ answer.kind = "code" => Deleting /\ answer = BroadcastDelete

RestInv ==
    /\ TablesTyped /\ RequestTyped /\ PeersDone /\ ActsReported /\ CodeOfAnswers

----------------------------------------------------------------------------
(* Facts.                                                                  *)

LEMMA FactsSay ==
    ASSUME NEW o, NEW s, NEW r, NEW st, NEW n \in Nodes
    PROVE  /\ \A c : <<"client", n, <<c>>>> \in Facts(o, s, r, st) <=> c \in o[n]
           /\ \A x : <<"sub", n, x>> \in Facts(o, s, r, st) <=> x \in s[n]
           /\ \A f : <<"retained", n, <<f>>>> \in Facts(o, s, r, st) <=> f \in r[n]
<1> DEFINE F(m) == {<<"client", m, <<c>>>> : c \in o[m]}
                   \cup {<<"sub", m, x>> : x \in s[m]}
                   \cup {<<"retained", m, <<f>>>> : f \in r[m]}
           S == {<<"stored", Shared, <<c>>>> : c \in st}
<1>1. Facts(o, s, r, st) = (UNION {F(m) : m \in Nodes}) \cup S
  BY DEF Facts
<1>2. /\ \A c : <<"client", n, <<c>>>> \notin S
      /\ \A x : <<"sub", n, x>> \notin S
      /\ \A f : <<"retained", n, <<f>>>> \notin S
  OBVIOUS
<1>3. ASSUME NEW m \in Nodes
      PROVE  /\ \A c : <<"client", n, <<c>>>> \in F(m) <=> m = n /\ c \in o[m]
             /\ \A x : <<"sub", n, x>> \in F(m) <=> m = n /\ x \in s[m]
             /\ \A f : <<"retained", n, <<f>>>> \in F(m) <=> m = n /\ f \in r[m]
  <2>1. \A c : <<"client", n, <<c>>>> \in F(m) <=> m = n /\ c \in o[m]
    OBVIOUS
  <2>2. \A x : <<"sub", n, x>> \in F(m) <=> m = n /\ x \in s[m]
    OBVIOUS
  <2>3. \A f : <<"retained", n, <<f>>>> \in F(m) <=> m = n /\ f \in r[m]
    OBVIOUS
  <2> QED
    BY <2>1, <2>2, <2>3
<1>4. \A y : y \in Facts(o, s, r, st) <=> (\E m \in Nodes : y \in F(m)) \/ y \in S
  <2> DEFINE U == {F(m) : m \in Nodes}
  <2>1. \A z : z \in U <=> \E m \in Nodes : z = F(m)
    BY Zenon
  <2>2. Facts(o, s, r, st) = (UNION U) \cup S
    BY <1>1, Zenon
  <2> HIDE DEF U, S
  <2>3. \A y : y \in Facts(o, s, r, st) <=> (\E z \in U : y \in z) \/ y \in S
    BY <2>2
  <2> HIDE DEF F
  <2> QED
    BY <2>1, <2>3, Zenon
<1> HIDE DEF F, S
<1>5. ASSUME NEW c PROVE <<"client", n, <<c>>>> \in Facts(o, s, r, st) <=> c \in o[n]
  BY <1>2, <1>3, <1>4
<1>6. ASSUME NEW x PROVE <<"sub", n, x>> \in Facts(o, s, r, st) <=> x \in s[n]
  BY <1>2, <1>3, <1>4
<1>7. ASSUME NEW f PROVE <<"retained", n, <<f>>>> \in Facts(o, s, r, st) <=> f \in r[n]
  BY <1>2, <1>3, <1>4
<1> QED
  BY <1>5, <1>6, <1>7

(* The requests of the mirror that delete.                                 *)
LEMMA DeleteTyped ==
    ASSUME NEW d \in ListRequests \cup DeleteRequests, d.op \in Deletes
    PROVE  \/ d.op = "unsubscribe" /\ d.arg \in Clients \X Filters
           \/ d.op = "clearRetained" /\ d.arg \in Filters
           \/ d.op = "clearSession" /\ d.arg \in Clients
<1>1. d \in DeleteRequests
  BY DEF ListRequests, Deletes
<1> QED
  BY <1>1 DEF DeleteRequests, UnsubscribeClient, ClearRetained, ClearSession

(* Where the target of a DELETE is.                                        *)
LEMMA TargetPresent ==
    ASSUME Deleting, RequestTyped, NEW n \in Nodes
    PROVE  /\ req.op = "unsubscribe" => (TargetOn(n) \in Now <=> req.arg \in subs[n])
           /\ req.op = "clearRetained" => (TargetOn(n) \in Now <=> req.arg \in retained[n])
           /\ req.op = "clearSession" => (TargetOn(n) \in Now <=> req.arg \in online[n])
           /\ req.op \in Deletes
<1>1. /\ req.op = "unsubscribe" => TargetOn(n) = <<"sub", n, req.arg>>
      /\ req.op = "clearRetained" => TargetOn(n) = <<"retained", n, <<req.arg>>>>
      /\ req.op = "clearSession" => TargetOn(n) = <<"client", n, <<req.arg>>>>
  BY DEF TargetOn
<1>2. /\ <<"sub", n, req.arg>> \in Now <=> req.arg \in subs[n]
      /\ <<"retained", n, <<req.arg>>>> \in Now <=> req.arg \in retained[n]
      /\ <<"client", n, <<req.arg>>>> \in Now <=> req.arg \in online[n]
  BY FactsSay DEF Now
<1>3. req.op \in Deletes
  BY DEF Deleting
<1> QED
  BY <1>1, <1>2, <1>3

(* A change of the brokers does not put the target back unnoticed.         *)
LEMMA AbsentStays ==
    ASSUME req # None, req' = req, NEW o, NEW s, NEW r, NEW st,
           Change(o, s, r, st), NEW n, Absent(n)
    PROVE  Absent(n)'
<1>1. TargetOn(n)' = TargetOn(n)
  BY DEF TargetOn
<1>2. Now' = Facts(o, s, r, st)
  BY DEF Change, Now
<1>3. born' = born \cup (Facts(o, s, r, st) \ Now)
  BY DEF Change
<1> QED
  BY <1>1, <1>2, <1>3 DEF Absent

LEMMA ClientLeaves ==
    ASSUME TablesTyped, NEW n \in Nodes, NEW c,
           online' = [online EXCEPT ![n] = @ \ {c}],
           subs' = [subs EXCEPT ![n] = {x \in @ : x[1] # c}],
           UNCHANGED <<retained, stored>>
    PROVE  TablesTyped' /\ c \notin online'[n]
<1>1. /\ online'[n] = online[n] \ {c} /\ \A m \in Nodes \ {n} : online'[m] = online[m]
      /\ online' \in [Nodes -> SUBSET Clients]
  BY DEF TablesTyped
<1>2. /\ subs'[n] = {x \in subs[n] : x[1] # c}
      /\ \A m \in Nodes \ {n} : subs'[m] = subs[m]
      /\ subs' \in [Nodes -> SUBSET (Clients \X Filters)]
  BY DEF TablesTyped
<1> QED
  BY <1>1, <1>2 DEF TablesTyped

LEMMA Executed ==
    ASSUME TablesTyped, NEW n \in Nodes, NEW op, NEW arg, Executes(n, op, arg)
    PROVE  /\ TablesTyped'
           /\ op = "unsubscribe" => arg \notin subs'[n]
           /\ op = "clearRetained" => arg \notin retained'[n]
           /\ \/ \E o, s, r, st : Change(o, s, r, st)
              \/ op = "clearSession" /\ UNCHANGED <<broker, born, gone>>
<1>1. CASE op = "unsubscribe" /\ Unsubscribe(n, arg)
  <2>1. Change(online, [subs EXCEPT ![n] = @ \ {arg}], retained, stored)
    BY <1>1 DEF Unsubscribe
  <2>2. /\ UNCHANGED <<online, retained, stored>>
        /\ subs' = [subs EXCEPT ![n] = subs[n] \ {arg}]
    BY <2>1 DEF Change
  <2>3. /\ subs'[n] = subs[n] \ {arg} /\ \A m \in Nodes \ {n} : subs'[m] = subs[m]
        /\ subs' \in [Nodes -> SUBSET (Clients \X Filters)]
    BY <2>2 DEF TablesTyped
  <2>4. TablesTyped'
    BY <2>2, <2>3 DEF TablesTyped
  <2> QED
    BY <1>1, <2>1, <2>3, <2>4
<1>2. CASE op = "clearRetained" /\ DeleteRetained(n, arg)
  <2>1. Change(online, subs, [retained EXCEPT ![n] = @ \ {arg}], stored)
    BY <1>2 DEF DeleteRetained
  <2>2. /\ UNCHANGED <<online, subs, stored>>
        /\ retained' = [retained EXCEPT ![n] = retained[n] \ {arg}]
    BY <2>1 DEF Change
  <2>3. /\ retained'[n] = retained[n] \ {arg}
        /\ retained' \in [Nodes -> SUBSET Filters]
    BY <2>2 DEF TablesTyped
  <2>4. TablesTyped'
    BY <2>2, <2>3 DEF TablesTyped
  <2> QED
    BY <1>2, <2>1, <2>3, <2>4
<1>3. CASE op = "clearSession" /\ DisconnectClient
  BY <1>3 DEF DisconnectClient, TablesTyped, broker
<1> QED
  BY <1>1, <1>2, <1>3 DEF Executes

(* Somebody else's DELETE changes the brokers.                             *)
LEMMA OtherExecuted ==
    ASSUME TablesTyped, NEW n \in Nodes, OtherDelete(n)
    PROVE  /\ TablesTyped' /\ answer = None
           /\ UNCHANGED <<req, got, answer, late, acted>>
           /\ \E o, s, r, st : Change(o, s, r, st)
<1>1. PICK d \in UnsubscribeClient \cup ClearRetained :
        /\ answer = None /\ Executes(n, d.op, d.arg)
        /\ UNCHANGED <<req, got, answer, late, acted>>
  BY DEF OtherDelete
<1>2. d.op # "clearSession"
  BY DEF UnsubscribeClient, ClearRetained
<1> QED
  BY <1>1, <1>2, Executed

----------------------------------------------------------------------------
(* The brokers keep their tables.                                          *)

LEMMA BrokerTables ==
    ASSUME TablesTyped, BrokerStep
    PROVE  /\ TablesTyped'
           /\ answer = None
           /\ UNCHANGED <<req, got, answer, late, acted>>
           /\ \E o, s, r, st : Change(o, s, r, st)
<1>0. ASSUME NEW o, NEW s, NEW r, NEW st, BrokerChange(o, s, r, st)
      PROVE  /\ answer = None /\ UNCHANGED <<req, got, answer, late, acted>>
             /\ Change(o, s, r, st)
             /\ online' = o /\ subs' = s /\ retained' = r /\ stored' = st
  BY <1>0 DEF BrokerChange, Change
<1>1. ASSUME NEW n \in Nodes, NEW c \in Clients, Connect(n, c)
      PROVE  \E o, s, r, st : BrokerChange(o, s, r, st) /\ TablesTyped'
  <2> DEFINE X == {x \in UNION {subs[m] : m \in Nodes} : x[1] = c}
             o == [online EXCEPT ![n] = online[n] \cup {c}]
             s == [subs EXCEPT ![n] = subs[n] \cup X]
  <2>1. PICK st \in {stored, stored \cup {c}} : BrokerChange(o, s, retained, st)
    BY <1>1 DEF Connect
  <2>2. online' = o /\ subs' = s /\ retained' = retained /\ stored' = st
    BY <1>0, <2>1
  <2>3. X \subseteq Clients \X Filters /\ \A x \in X : x[1] = c
    BY DEF TablesTyped
  <2> HIDE DEF X
  <2>4. /\ online' \in [Nodes -> SUBSET Clients] /\ online'[n] = online[n] \cup {c}
        /\ \A m \in Nodes \ {n} : online'[m] = online[m]
    BY <2>2 DEF TablesTyped
  <2>5. /\ subs' \in [Nodes -> SUBSET (Clients \X Filters)]
        /\ subs'[n] = subs[n] \cup X /\ \A m \in Nodes \ {n} : subs'[m] = subs[m]
    <3>1. subs[n] \cup X \in SUBSET (Clients \X Filters)
      BY <2>3 DEF TablesTyped
    <3> QED
      BY <2>2, <3>1 DEF TablesTyped
  <2>6. \A m \in Nodes : \A x \in subs'[m] : x[1] \in online'[m]
    BY <2>3, <2>4, <2>5 DEF TablesTyped
  <2>7. stored' \subseteq Clients /\ retained' \in [Nodes -> SUBSET Filters]
    BY <2>2 DEF TablesTyped
  <2>8. TablesTyped'
    BY <2>4, <2>5, <2>6, <2>7 DEF TablesTyped
  <2> HIDE DEF o, s
  <2> QED
    BY <2>1, <2>8
<1>2. ASSUME NEW n \in Nodes, NEW c \in Clients, Disconnect(n, c)
      PROVE  \E o, s, r, st : BrokerChange(o, s, r, st) /\ TablesTyped'
  <2>1. BrokerChange([online EXCEPT ![n] = @ \ {c}],
                     [subs EXCEPT ![n] = {x \in @ : x[1] # c}], retained, stored)
    BY <1>2 DEF Disconnect
  <2>2. TablesTyped'
    BY <1>0, <2>1, ClientLeaves
  <2> QED
    BY <2>1, <2>2
<1>3. ASSUME NEW n \in Nodes, NEW c \in Clients, NEW f \in Filters, Subscribe(n, c, f)
      PROVE  \E o, s, r, st : BrokerChange(o, s, r, st) /\ TablesTyped'
  <2> DEFINE s == [subs EXCEPT ![n] = subs[n] \cup {<<c, f>>}]
  <2>1. BrokerChange(online, s, retained, stored) /\ c \in online[n]
    BY <1>3 DEF Subscribe
  <2>2. online' = online /\ subs' = s /\ retained' = retained /\ stored' = stored
    BY <1>0, <2>1
  <2>3. /\ subs' \in [Nodes -> SUBSET (Clients \X Filters)]
        /\ subs'[n] = subs[n] \cup {<<c, f>>}
        /\ \A m \in Nodes \ {n} : subs'[m] = subs[m]
    BY <2>2 DEF TablesTyped
  <2>4. \A m \in Nodes : \A x \in subs'[m] : x[1] \in online'[m]
    BY <2>1, <2>2, <2>3 DEF TablesTyped
  <2>5. TablesTyped'
    BY <2>2, <2>3, <2>4 DEF TablesTyped
  <2> HIDE DEF s
  <2> QED
    BY <2>1, <2>5
<1>4. ASSUME NEW n \in Nodes, NEW f \in Filters, Retain(n, f)
      PROVE  \E o, s, r, st : BrokerChange(o, s, r, st) /\ TablesTyped'
  <2> DEFINE r == [retained EXCEPT ![n] = retained[n] \cup {f}]
  <2>1. BrokerChange(online, subs, r, stored)
    BY <1>4 DEF Retain
  <2>2. online' = online /\ subs' = subs /\ retained' = r /\ stored' = stored
    BY <1>0, <2>1
  <2>3. TablesTyped'
    BY <2>2 DEF TablesTyped
  <2> HIDE DEF r
  <2> QED
    BY <2>1, <2>3
<1>5. ASSUME NEW c \in Clients, ExpireSession(c)
      PROVE  \E o, s, r, st : BrokerChange(o, s, r, st) /\ TablesTyped'
  <2>1. BrokerChange(online, subs, retained, stored \ {c})
    BY <1>5 DEF ExpireSession
  <2>2. TablesTyped'
    BY <1>0, <2>1 DEF TablesTyped
  <2> QED
    BY <2>1, <2>2
<1>6. PICK o, s, r, st : BrokerChange(o, s, r, st) /\ TablesTyped'
  BY <1>1, <1>2, <1>3, <1>4, <1>5 DEF BrokerStep
<1> QED
  BY <1>0, <1>6

----------------------------------------------------------------------------
(* The request and its answers.                                            *)

RequestInv == RequestTyped /\ PeersDone /\ ActsReported /\ CodeOfAnswers

(* The brokers change, the request goes on.                                *)
LEMMA WorldChanges ==
    ASSUME RequestInv, answer = None, UNCHANGED <<req, got, answer, late, acted>>,
           NEW o, NEW s, NEW r, NEW st, Change(o, s, r, st)
    PROVE  RequestInv'
<1>1. RequestTyped' /\ ActsReported' /\ CodeOfAnswers'
  BY DEF RequestInv, RequestTyped, ActsReported, CodeOfAnswers, Deleting, BroadcastDelete
<1>2. PeersDone'
  <2>1. ASSUME Deleting, NEW n, Absent(n) PROVE Absent(n)'
    BY <2>1, AbsentStays DEF Deleting
  <2>2. ASSUME Deleting, NEW n, Done(n) PROVE Done(n)'
    BY <2>1, <2>2 DEF Done
  <2> QED
    BY <2>1, <2>2 DEF PeersDone, RequestInv, Deleting
<1> QED
  BY <1>1, <1>2 DEF RequestInv

(* Peer n gives its next answer; nothing else of the request changes.      *)
LEMMA PeerAnswers ==
    ASSUME RequestInv, answer = None, req # None, NEW n \in Nodes, NEW reply,
           got' = [got EXCEPT ![n] = reply], UNCHANGED <<req, answer>>,
           Deleting => \A m \in Nodes \ {n} : Absent(m) => Absent(m)',
           Deleting =>
             /\ reply.status \in {"reading", "204", "404", "error"}
             /\ reply.status \in {"204", "404"} => Done(n)'
             /\ reply.status = "reading" =>
                  /\ req.op = "clearSession"
                  /\ req.arg \notin reply.seen => Absent(n)',
           acted \subseteq acted', acted' \subseteq acted \cup {n},
           late' \subseteq late \cup {n},
           Deleting \/ late' = late,
           n \in acted' => reply.status \in {"204", "error"},
           n \in late' => reply.status = "error"
    PROVE  RequestInv'
<1>1. /\ got'[n] = reply /\ \A m \in Nodes \ {n} : got'[m] = got[m]
      /\ got' = [m \in Nodes |-> got'[m]]
  BY DEF RequestInv, RequestTyped
<1>2. RequestTyped'
  BY <1>1 DEF RequestInv, RequestTyped
<1>3. PeersDone'
  <2>1. ASSUME Deleting, NEW m \in Nodes \ {n}, Done(m) PROVE Done(m)'
    BY <2>1 DEF Done
  <2> QED
    BY <1>1, <2>1 DEF RequestInv, PeersDone, Deleting
<1>4. ActsReported'
  BY <1>1 DEF RequestInv, ActsReported, Deleting
<1>5. CodeOfAnswers'
  BY DEF CodeOfAnswers
<1> QED
  BY <1>2, <1>3, <1>4, <1>5 DEF RequestInv

(* What a peer has not been heard of, it has not removed.                  *)
LEMMA NotYetActed ==
    ASSUME RequestInv, NEW n \in Nodes, got[n].status \in {"waiting", "reading"}
    PROVE  n \notin acted /\ n \notin late
BY DEF RequestInv, ActsReported

(* When the brokers do not change, what was absent is.                     *)
LEMMA AbsentKept ==
    ASSUME UNCHANGED <<broker, born>>, req' = req, NEW n, Absent(n)
    PROVE  Absent(n)'
<1>1. Now' = Now /\ TargetOn(n)' = TargetOn(n) /\ born' = born
  BY DEF broker, Now, TargetOn
<1> QED
  BY <1>1 DEF Absent

(* Once node n has executed the DELETE it is done with the target.         *)
LEMMA ExecutedIsDone ==
    ASSUME TablesTyped, RequestInv, Deleting, req' = req, got' = [m \in Nodes |-> got'[m]],
           answer = None, answer' = None, NEW n \in Nodes, Executes(n, req.op, req.arg)
    PROVE  /\ TablesTyped'
           /\ req.op # "clearSession" => Absent(n)'
           /\ \A m : Absent(m) => Absent(m)'
<1>1. req.op \in Deletes /\ req # None
  BY DEF Deleting
<1>2. /\ TablesTyped'
      /\ req.op = "unsubscribe" => req.arg \notin subs'[n]
      /\ req.op = "clearRetained" => req.arg \notin retained'[n]
      /\ \/ \E o, s, r, st : Change(o, s, r, st)
         \/ UNCHANGED <<broker, born, gone>>
  BY Executed
<1>3. ASSUME NEW m, Absent(m) PROVE Absent(m)'
  BY <1>1, <1>2, <1>3, AbsentStays, AbsentKept
<1>4. /\ TargetOn(n)' = TargetOn(n)
      /\ Now' = Facts(online', subs', retained', stored')
  BY DEF TargetOn, Now
<1>5. /\ <<"sub", n, req.arg>> \in Now' <=> req.arg \in subs'[n]
      /\ <<"retained", n, <<req.arg>>>> \in Now' <=> req.arg \in retained'[n]
  BY <1>4, FactsSay
<1>6. ASSUME req.op # "clearSession" PROVE Absent(n)'
  <2>1. CASE req.op = "unsubscribe"
    BY <2>1, <1>2, <1>4, <1>5 DEF TargetOn, Absent
  <2>2. CASE req.op = "clearRetained"
    BY <2>2, <1>2, <1>4, <1>5 DEF TargetOn, Absent
  <2> QED
    BY <2>1, <2>2, <1>1, <1>6 DEF Deletes
<1> QED
  BY <1>2, <1>3, <1>6

LEMMA TablesKept ==
    ASSUME TablesTyped, UNCHANGED broker
    PROVE  TablesTyped'
BY DEF TablesTyped, broker

----------------------------------------------------------------------------
(* The steps of a peer.                                                    *)

LEMMA ListStep ==
    ASSUME TablesTyped, RequestInv, NEW n \in Nodes,
           PeerList(n) \/ PeerTree(n) \/ PeerSessions(n)
    PROVE  TablesTyped' /\ RequestInv'
<1>1. PICK reply :
        /\ req # None /\ req.op \notin Deletes
        /\ got[n].status \in {"waiting", "reading"}
        /\ Replies(n, reply) /\ UNCHANGED <<broker, acted, born, gone>>
  <2>1. CASE PeerList(n)
    <3>1. /\ req # None /\ req.op \notin Deletes
          /\ got[n].status \in {"waiting", "reading"}
      BY <2>1 DEF PeerList, Asked, Lists, Deletes, Waiting
    <3>2. \E reply : Replies(n, reply)
      BY <2>1, Zenon DEF PeerList
    <3>3. UNCHANGED <<broker, acted, born, gone>>
      BY <2>1, Zenon DEF PeerList
    <3> QED
      BY <3>1, <3>2, <3>3, Zenon
  <2>2. CASE PeerTree(n)
    BY <2>2 DEF PeerTree, Asked, Deletes, Waiting
  <2>3. CASE PeerSessions(n)
    BY <2>3 DEF PeerSessions, Reading, Deletes
  <2> QED
    BY <2>1, <2>2, <2>3
<1>2. answer = None
  BY <1>1 DEF RequestInv, RequestTyped
<1>3. n \notin acted /\ n \notin late
  BY <1>1, NotYetActed
<1>4. ~Deleting
  BY <1>1 DEF Deleting
<1>5. /\ got' = [got EXCEPT ![n] = reply]
      /\ req' = req /\ answer' = answer /\ late' = late /\ acted' = acted
  BY <1>1 DEF Replies
<1>6. RequestInv'
  BY <1>1, <1>2, <1>3, <1>4, <1>5, PeerAnswers
<1> QED
  BY <1>1, <1>6, TablesKept

LEMMA DeleteStep ==
    ASSUME TablesTyped, RequestInv, NEW n \in Nodes, PeerDelete(n)
    PROVE  TablesTyped' /\ RequestInv'
<1>1. /\ answer = None /\ req # None /\ got[n].status = "waiting"
      /\ req.op \in {"unsubscribe", "clearRetained"}
  BY DEF PeerDelete, Asked, Waiting
<1>2. Deleting /\ n \notin acted /\ n \notin late
  BY <1>1, NotYetActed DEF Deleting, Deletes
<1>3. ASSUME Finds(n, req.op, req.arg), Executes(n, req.op, req.arg),
             acted' = acted \cup {n}, Replies(n, [status |-> "204"])
      PROVE  TablesTyped' /\ RequestInv'
  <2> DEFINE reply == [status |-> "204"]
  <2>1. /\ got' = [got EXCEPT ![n] = reply] /\ reply.status = "204"
        /\ req' = req /\ answer' = answer /\ late' = late
    BY <1>3 DEF Replies
  <2> HIDE DEF reply
  <2>2. got' = [m \in Nodes |-> got'[m]]
    BY <2>1 DEF RequestInv, RequestTyped
  <2>3. TablesTyped' /\ Absent(n)' /\ \A m : Absent(m) => Absent(m)'
    BY <1>1, <1>2, <1>3, <2>1, <2>2, ExecutedIsDone
  <2>4. Done(n)'
    BY <2>3 DEF Done
  <2>5. RequestInv'
    BY <1>1, <1>2, <1>3, <2>1, <2>3, <2>4, PeerAnswers
  <2> QED
    BY <2>3, <2>5
<1>4. ASSUME ~Finds(n, req.op, req.arg), Replies(n, [status |-> "404"]),
             UNCHANGED <<broker, acted, born, gone>>
      PROVE  TablesTyped' /\ RequestInv'
  <2> DEFINE reply == [status |-> "404"]
  <2>1. /\ got' = [got EXCEPT ![n] = reply] /\ reply.status = "404"
        /\ req' = req /\ answer' = answer /\ late' = late /\ acted' = acted
    BY <1>4 DEF Replies
  <2> HIDE DEF reply
  <2>2. /\ req.op = "unsubscribe" => req.arg \notin subs[n]
        /\ req.op = "clearRetained" => req.arg \notin retained[n]
    BY <1>1, <1>4 DEF Finds, TablesTyped
  <2>3. TargetOn(n) \notin Now
    <3>1. RequestTyped
      BY DEF RequestInv
    <3> QED
      BY <1>1, <1>2, <2>2, <3>1, TargetPresent
  <2>4. Absent(n)
    BY <2>3 DEF Absent
  <2>5. \A m : Absent(m) => Absent(m)'
    BY <1>4, <2>1, AbsentKept
  <2>6. Done(n)'
    BY <2>4, <2>5 DEF Done
  <2>7. RequestInv'
    BY <1>1, <1>2, <1>4, <2>1, <2>5, <2>6, PeerAnswers
  <2> QED
    BY <1>4, <2>7, TablesKept
<1> QED
  BY <1>3, <1>4 DEF PeerDelete

LEMMA ReadStep ==
    ASSUME TablesTyped, RequestInv, NEW n \in Nodes, PeerReadsClients(n)
    PROVE  TablesTyped' /\ RequestInv'
<1> DEFINE reply == [status |-> "reading", seen |-> online[n]]
<1>1. /\ answer = None /\ req # None /\ got[n].status = "waiting"
      /\ req.op \in {"sessions", "clearSession"}
      /\ UNCHANGED <<broker, acted, born, gone>>
      /\ got' = [got EXCEPT ![n] = reply]
      /\ req' = req /\ answer' = answer /\ late' = late
  BY DEF PeerReadsClients, Asked, Waiting, Replies
<1>2. reply.status = "reading" /\ reply.seen = online[n]
  OBVIOUS
<1> HIDE DEF reply
<1>3. n \notin acted /\ n \notin late
  BY <1>1, NotYetActed
<1>4. \A m : Absent(m) => Absent(m)'
  BY <1>1, AbsentKept
<1>5. Deleting => req.op = "clearSession"
  BY <1>1 DEF Deleting, Deletes
<1>6. Deleting /\ req.arg \notin online[n] => Absent(n)
  <2>1. RequestTyped
    BY DEF RequestInv
  <2>2. Deleting /\ req.arg \notin online[n] => TargetOn(n) \notin Now
    BY <2>1, <1>5, TargetPresent
  <2> QED
    BY <2>2 DEF Absent
<1>7. RequestInv'
  BY <1>1, <1>2, <1>3, <1>4, <1>5, <1>6, PeerAnswers
<1> QED
  BY <1>1, <1>7, TablesKept

LEMMA ClearStep ==
    ASSUME TablesTyped, RequestInv, NEW n \in Nodes, PeerClearSession(n)
    PROVE  TablesTyped' /\ RequestInv'
<1>1. /\ req # None /\ req.op = "clearSession" /\ got[n].status = "reading"
  BY DEF PeerClearSession, Reading
<1>2. Deleting /\ n \notin acted /\ n \notin late
  BY <1>1, NotYetActed DEF Deleting, Deletes
<1>3. answer = None
  BY <1>1 DEF RequestInv, RequestTyped
<1>4. ASSUME DisconnectClient, acted' = acted \cup {n}, Replies(n, [status |-> "204"])
      PROVE  TablesTyped' /\ RequestInv'
  <2> DEFINE reply == [status |-> "204"]
  <2>1. /\ got' = [got EXCEPT ![n] = reply] /\ reply.status = "204"
        /\ req' = req /\ answer' = answer /\ late' = late
    BY <1>4 DEF Replies
  <2> HIDE DEF reply
  <2>2. UNCHANGED <<broker, born, gone>>
    BY <1>4 DEF DisconnectClient
  <2>3. \A m : Absent(m) => Absent(m)'
    BY <2>1, <2>2, AbsentKept
  <2>4. Done(n)'
    BY <1>1, <1>4, <2>1 DEF Done
  <2>5. RequestInv'
    BY <1>1, <1>2, <1>3, <1>4, <2>1, <2>3, <2>4, PeerAnswers
  <2> QED
    BY <2>2, <2>5, TablesKept
<1>5. ASSUME req.arg \notin got[n].seen, NEW status \in {"404", "204"},
             Replies(n, [status |-> status]), UNCHANGED <<broker, acted, born, gone>>
      PROVE  TablesTyped' /\ RequestInv'
  <2> DEFINE reply == [status |-> status]
  <2>1. /\ got' = [got EXCEPT ![n] = reply] /\ reply.status = status
        /\ req' = req /\ answer' = answer /\ late' = late /\ acted' = acted
    BY <1>5 DEF Replies
  <2> HIDE DEF reply
  <2>2. Absent(n)
    BY <1>1, <1>2, <1>5 DEF RequestInv, PeersDone
  <2>3. \A m : Absent(m) => Absent(m)'
    BY <1>5, <2>1, AbsentKept
  <2>4. Done(n)'
    BY <2>2, <2>3 DEF Done
  <2>5. RequestInv'
    BY <1>1, <1>2, <1>3, <1>5, <2>1, <2>3, <2>4, PeerAnswers
  <2> QED
    BY <1>5, <2>5, TablesKept
<1> QED
  BY <1>4, <1>5 DEF PeerClearSession

LEMMA FailStep ==
    ASSUME TablesTyped, RequestInv, NEW n \in Nodes, FetchFails(n)
    PROVE  TablesTyped' /\ RequestInv'
<1>1. /\ answer = None /\ req # None /\ got' = [got EXCEPT ![n] = Error]
      /\ late' \subseteq late \cup {n} /\ (Deleting \/ late' = late)
      /\ UNCHANGED broker /\ req' = req /\ answer' = answer
      /\ acted' = acted /\ born' = born
  BY DEF FetchFails, Deleting
<1>2. Error.status = "error"
  BY DEF Error
<1>3. \A m : Absent(m) => Absent(m)'
  BY <1>1, AbsentKept
<1>4. RequestInv'
  BY <1>1, <1>2, <1>3, PeerAnswers
<1> QED
  BY <1>1, <1>4, TablesKept

(* A call that timed out comes to its node after all: the node is one the  *)
(* mirror has booked as failed.                                            *)
LEMMA LateStep ==
    ASSUME TablesTyped, RequestInv, NEW n \in Nodes, LateDelete(n)
    PROVE  TablesTyped' /\ RequestInv'
<1>1. /\ n \in late /\ answer = None /\ late' = late \ {n}
      /\ acted \subseteq acted' /\ acted' \subseteq acted \cup {n}
      /\ Executes(n, req.op, req.arg)
      /\ req' = req /\ got' = got /\ answer' = answer
  BY DEF LateDelete
<1>2. req # None /\ got[n].status = "error"
  BY <1>1 DEF RequestInv, RequestTyped, ActsReported
<1>3. Deleting
  BY <1>1 DEF RequestInv, ActsReported
<1>4. RequestInv' /\ TablesTyped'
  <2>1. got' = [m \in Nodes |-> got'[m]]
    BY <1>1 DEF RequestInv, RequestTyped
  <2>2. TablesTyped' /\ \A m : Absent(m) => Absent(m)'
    BY <1>1, <1>3, <2>1, ExecutedIsDone
  <2>3. PeersDone'
    <3>1. ASSUME NEW m, Done(m) PROVE Done(m)'
      BY <1>1, <2>2, <3>1 DEF Done
    <3> QED
      BY <1>1, <2>2, <3>1 DEF RequestInv, PeersDone, Deleting
  <2>4. RequestTyped' /\ CodeOfAnswers'
    BY <1>1, <1>2 DEF RequestInv, RequestTyped, CodeOfAnswers
  <2>5. ActsReported'
    BY <1>1, <1>2, <1>3 DEF RequestInv, ActsReported, Deleting
  <2> QED
    BY <2>2, <2>3, <2>4, <2>5 DEF RequestInv
<1> QED
  BY <1>4

(* Somebody else's DELETE is a change of the brokers to this request.      *)
LEMMA OtherStep ==
    ASSUME TablesTyped, RequestInv, NEW n \in Nodes, OtherDelete(n)
    PROVE  TablesTyped' /\ RequestInv'
BY OtherExecuted, WorldChanges

(* The steps of the mirror.                                                *)
LEMMA MirrorStep ==
    ASSUME TablesTyped, RequestInv,
           \/ \E r \in ListRequests \cup DeleteRequests : Start(r)
           \/ Respond
           \/ Return
    PROVE  TablesTyped' /\ RequestInv'
<1>1. ASSUME NEW r \in ListRequests \cup DeleteRequests, Start(r)
      PROVE  TablesTyped' /\ RequestInv'
  <2>1. /\ req = None /\ req' = r /\ UNCHANGED broker /\ got' = got /\ answer' = answer
        /\ late' = late /\ acted' = acted
    BY <1>1 DEF Start
  <2>2. /\ answer' = None /\ late' = {} /\ acted' = {}
        /\ \A n \in Nodes : got'[n] = Waiting
        /\ got' = [n \in Nodes |-> got'[n]]
    BY <2>1 DEF RequestInv, RequestTyped
  <2>3. \A n \in Nodes : got'[n].status = "waiting"
    BY <2>2 DEF Waiting
  <2>4. RequestTyped'
    BY <2>1, <2>2 DEF RequestTyped
  <2>5. PeersDone' /\ ActsReported' /\ CodeOfAnswers'
    BY <2>2, <2>3 DEF PeersDone, ActsReported, CodeOfAnswers
  <2> QED
    BY <2>1, <2>4, <2>5, TablesKept DEF RequestInv
<1>2. ASSUME Respond PROVE TablesTyped' /\ RequestInv'
  <2>1. /\ req # None /\ answer = None
        /\ \A n \in Nodes : got[n].status \notin {"waiting", "reading"}
        /\ UNCHANGED <<broker, req, got, late, acted, born, gone, changes>>
    BY <1>2 DEF Respond
  <2>2. PICK order \in SetToSeqs(Nodes) :
          answer' = CASE req.op \in Lists   -> MirrorList(order)
                      [] req.op = "topics"  -> MirrorTree(order)
                      [] req.op \in Deletes -> BroadcastDelete
    BY <1>2 DEF Respond
  <2>3. req.op \in Lists \cup {"topics"} \cup Deletes
    <3>1. req \in ListRequests \cup DeleteRequests
      BY <2>1 DEF RequestInv, RequestTyped
    <3> QED
      BY <3>1 DEF ListRequests, DeleteRequests, UnsubscribeClient, ClearRetained,
                  ClearSession, Lists, Deletes
  <2>4. CodeOfAnswers'
    <3>1. CASE req.op \in Lists
      <4>1. answer' = MirrorList(order)
        BY <2>2, <3>1 DEF Lists, Deletes
      <4>2. MirrorList(order).kind = "list"
        BY DEF MirrorList
      <4> QED
        BY <4>1, <4>2 DEF CodeOfAnswers
    <3>2. CASE req.op = "topics"
      <4>1. answer' = MirrorTree(order)
        BY <2>2, <3>2 DEF Lists, Deletes
      <4>2. MirrorTree(order).kind = "tree"
        BY DEF MirrorTree
      <4> QED
        BY <4>1, <4>2 DEF CodeOfAnswers
    <3>3. CASE req.op \in Deletes
      <4>1. answer' = BroadcastDelete
        BY <2>2, <3>3 DEF Lists, Deletes
      <4>2. BroadcastDelete' = BroadcastDelete
        BY <2>1 DEF BroadcastDelete
      <4> QED
        BY <2>1, <3>3, <4>1, <4>2 DEF CodeOfAnswers, Deleting
    <3> QED
      BY <2>3, <3>1, <3>2, <3>3
  <2>5. RequestTyped' /\ ActsReported'
    BY <2>1 DEF RequestInv, RequestTyped, ActsReported, Deleting
  <2>6. PeersDone'
    <3>1. \A n : Absent(n) => Absent(n)'
      BY <2>1, AbsentKept
    <3>2. ASSUME NEW n, Done(n) PROVE Done(n)'
      BY <2>1, <3>1, <3>2 DEF Done
    <3> QED
      BY <2>1, <3>1, <3>2 DEF RequestInv, PeersDone, Deleting
  <2> QED
    BY <2>1, <2>4, <2>5, <2>6, TablesKept DEF RequestInv
<1>3. ASSUME Return PROVE TablesTyped' /\ RequestInv'
  <2>1. /\ req' = None /\ answer' = None /\ got' = [n \in Nodes |-> Waiting]
        /\ late' = {} /\ acted' = {} /\ UNCHANGED broker
    BY <1>3 DEF Return
  <2>2. RequestTyped'
    BY <2>1 DEF RequestTyped
  <2>3. PeersDone' /\ ActsReported' /\ CodeOfAnswers'
    BY <2>1 DEF PeersDone, ActsReported, CodeOfAnswers, Deleting
  <2> QED
    BY <2>1, <2>2, <2>3, TablesKept DEF RequestInv
<1> QED
  BY <1>1, <1>2, <1>3

----------------------------------------------------------------------------
(* The tables, the request, what its peers have said and what they have    *)
(* done, in every state of every cluster.                                  *)
THEOREM RestKept == Spec => []RestInv
<1>1. Init => RestInv
  <2> SUFFICES ASSUME Init PROVE RestInv
    OBVIOUS
  <2>1. TablesTyped
    BY DEF Init, TablesTyped
  <2>2. RequestTyped
    BY DEF Init, RequestTyped
  <2>3. PeersDone /\ ActsReported /\ CodeOfAnswers
    BY DEF Init, PeersDone, ActsReported, CodeOfAnswers, Deleting
  <2> QED
    BY <2>1, <2>2, <2>3 DEF RestInv
<1>2. RestInv /\ [Next]_vars => RestInv'
  <2> SUFFICES ASSUME TablesTyped, RequestInv, [Next]_vars
               PROVE  TablesTyped' /\ RequestInv'
    BY DEF RestInv, RequestInv
  <2>1. CASE BrokerStep
    BY <2>1, BrokerTables, WorldChanges
  <2>2. CASE \/ \E r \in ListRequests \cup DeleteRequests : Start(r)
             \/ Respond
             \/ Return
    BY <2>2, MirrorStep
  <2>3. ASSUME NEW n \in Nodes, PeerStep(n) PROVE TablesTyped' /\ RequestInv'
    BY <2>3, ListStep, DeleteStep, ReadStep, ClearStep, LateStep, OtherStep DEF PeerStep
  <2>4. ASSUME NEW n \in Nodes, FetchFails(n) PROVE TablesTyped' /\ RequestInv'
    BY <2>4, FailStep
  <2>5. CASE UNCHANGED vars
    <3>1. /\ UNCHANGED broker /\ req' = req /\ got' = got /\ answer' = answer
          /\ late' = late /\ acted' = acted /\ born' = born
      BY <2>5 DEF vars
    <3>2. RequestTyped' /\ ActsReported' /\ CodeOfAnswers'
      BY <3>1 DEF RequestInv, RequestTyped, ActsReported, CodeOfAnswers, Deleting,
                  BroadcastDelete
    <3>3. \A n : Absent(n) => Absent(n)'
      BY <3>1, AbsentKept
    <3>4. PeersDone'
      <4>1. ASSUME NEW n, Done(n) PROVE Done(n)'
        BY <3>1, <3>3, <4>1 DEF Done
      <4> QED
        BY <3>1, <3>3, <4>1 DEF RequestInv, PeersDone, Deleting
    <3> QED
      BY <3>1, <3>2, <3>4, TablesKept DEF RequestInv
  <2> QED
    BY <2>1, <2>2, <2>3, <2>4, <2>5 DEF Next
<1> QED
  BY <1>1, <1>2, PTL DEF Spec

(* broadcastDelete answers 404 only when no node has removed anything for  *)
(* the request, the nodes whose answer was lost or late included: for any  *)
(* number of nodes and any way their calls fail.                           *)
THEOREM NotFoundTouchesNothing == Spec => []NotFoundMeansUntouched
<1>1. RestInv => NotFoundMeansUntouched
  <2> SUFFICES ASSUME RestInv, IsCode, answer.code = 404
               PROVE  acted = {}
    BY DEF NotFoundMeansUntouched
  <2>1. answer = BroadcastDelete
    BY DEF RestInv, CodeOfAnswers, IsCode
  <2>2. ~\E n \in Nodes : got[n].status \in {"204", "error"}
    BY <2>1 DEF BroadcastDelete
  <2> QED
    BY <2>2 DEF RestInv, ActsReported
<1> QED
  BY <1>1, RestKept, PTL

(* A DELETE whose peers all answered has reached its target everywhere,    *)
(* save where that arrived during the request: the subscription or the     *)
(* retained message is nowhere, and every node that had the client has     *)
(* disconnected it, whatever the client did between its two looks.         *)
THEOREM BroadcastReachesAll == Spec => []DeletedEverywhere
<1>1. RestInv => DeletedEverywhere
  <2> SUFFICES ASSUME RestInv, IsCode, \A n \in Nodes : got[n].status # "error",
                      NEW n \in Nodes
               PROVE  \/ TargetOn(n) \notin Always
                      \/ req.op = "clearSession" /\ n \in acted
    BY DEF DeletedEverywhere
  <2>1. Deleting /\ got[n].status \in {"204", "404"}
    BY DEF RestInv, CodeOfAnswers, IsCode, RequestTyped, PeersDone
  <2>2. Done(n)
    BY <2>1 DEF RestInv, PeersDone
  <2> QED
    BY <2>2 DEF Done, Absent, Always
<1> QED
  BY <1>1, RestKept, PTL

----------------------------------------------------------------------------
(* The lists.                                                              *)

Listing == req # None /\ req.op \in Lists

(* The fact that a row in the answer of node n stands for.                 *)
RowFact(n, row) == FactOf([key |-> row.key, node |-> n, online |-> row.online])

(* What listSessions of node n read from its client table.                 *)
SeenRight(n) ==
    /\ req.op = "sessions"
    /\ got[n].seen \subseteq Clients
    /\ \A c \in got[n].seen : <<"client", n, <<c>>>> \in Ever
    /\ \A c \in Clients : <<"client", n, <<c>>>> \in Always => c \in got[n].seen

(* The keys of the lists.                                                  *)
KeysOf(op) ==
    CASE op = "subscriptions" -> Clients \X Filters
      [] op = "retained"      -> {<<f>> : f \in Filters}
      [] OTHER                -> {<<c>> : c \in Clients}

(* The rows that node n has answered with, a page of them: each was true   *)
(* there, and if all of them are in the answer nothing is missing that was *)
(* true all the time.                                                      *)
ItemsRight(n) ==
    /\ got[n].items \in Seq(Items(n)) /\ Len(got[n].items) <= MaxPageSize
    /\ \A row \in Items(n) : row.key \in KeysOf(req.op) /\ RowFact(n, row) \in Ever
    /\ got[n].whole =>
        /\ \A fact \in Always : Asks(n, fact) =>
            \E row \in Items(n) : row.key = fact[3]
        /\ req.op = "sessions" /\ req.arg # "false" =>
            \A c \in Clients : <<"client", n, <<c>>>> \in Always =>
                \E row \in Items(n) : row.key = <<c>> /\ row.online

SaidRight(n) ==
    /\ got[n].status = "reading" => SeenRight(n)
    /\ got[n].status = "ok" => ItemsRight(n)

PeersRight == Listing => \A n \in Nodes : SaidRight(n)

(* A merged list has no more rows than there are keys, and the ends of its *)
(* pages are ints.                                                         *)
ListSized ==
    IsList => /\ answer.items \in Seq(Listed)
              /\ Len(answer.items) + MaxPageSize <= IntHalf

(* What a merged list says.                                                *)
MergedRight == ListedWhereSeen /\ NothingMissed /\ OnlineWins /\ ListSized

ListInv == PeersRight /\ MergedRight

(* A set of naturals that is not empty has a least element.                *)
LEMMA LeastNat ==
    ASSUME NEW T \in SUBSET Nat, T # {}
    PROVE  \E x \in T : \A y \in T : x <= y
<1> DEFINE R == OpToRel(<, Nat)
<1>1. IsWellFoundedOn(R, Nat)
  BY NatLessThanWellFounded
<1>2. ASSUME NEW x \in Nat, NEW y \in Nat, y < x
      PROVE  <<y, x>> \in R
  BY <1>2 DEF OpToRel
<1> HIDE DEF R
<1>3. PICK x \in T : \A y \in T : ~ (<<y, x>> \in R)
  BY <1>1, WFMin
<1>4. ASSUME NEW y \in T PROVE x <= y
  <2>1. x \in Nat /\ y \in Nat /\ ~ (y < x)
    BY <1>2, <1>3
  <2> QED
    BY <2>1
<1> QED
  BY <1>4


----------------------------------------------------------------------------
(* Sorting, paging and the order of the members.                           *)

LEMMA ImageFinite ==
    ASSUME NEW S, IsFiniteSet(S), NEW f, f = [x \in S |-> f[x]]
    PROVE  IsFiniteSet({f[x] : x \in S})
<1> DEFINE T == {f[x] : x \in S}
<1>1. f \in Surjection(S, T)
  BY DEF Surjection
<1> HIDE DEF T
<1> QED
  BY <1>1, FS_Surjection DEF T

(* Keys of one part, and keys of two parts.                                *)
Ones  == {<<x>> : x \in Nat}
Pairs == Nat \X Nat

(* Rows that can be sorted: keys of one kind, no two rows with one key.    *)
Sortable(rows) ==
    /\ IsFiniteSet(rows)
    /\ \/ \A row \in rows : row.key \in Ones
       \/ \A row \in rows : row.key \in Pairs
    /\ \A a, b \in rows : a.key = b.key => a = b

LEMMA KeysOrdered ==
    ASSUME NEW rows, Sortable(rows)
    PROVE  /\ \A a \in rows : ~KeyLess(a, a)
           /\ \A a, b \in rows : a # b => KeyLess(a, b) \/ KeyLess(b, a)
           /\ \A a, b, c \in rows : KeyLess(a, b) /\ KeyLess(b, c) => KeyLess(a, c)
<1>1. CASE \A row \in rows : row.key \in Ones
  <2>1. \A row \in rows : Len(row.key) = 1 /\ row.key[1] \in Nat /\ row.key = <<row.key[1]>>
    BY <1>1 DEF Ones
  <2>2. \A a, b \in rows : KeyLess(a, b) <=> a.key[1] < b.key[1]
    BY <2>1 DEF KeyLess
  <2>3. \A a, b \in rows : a # b => a.key[1] # b.key[1]
    BY <2>1 DEF Sortable
  <2> QED
    BY <2>1, <2>2, <2>3
<1>2. CASE \A row \in rows : row.key \in Pairs
  <2>1. \A row \in rows :
          /\ Len(row.key) = 2 /\ row.key[1] \in Nat /\ row.key[2] \in Nat
          /\ row.key = <<row.key[1], row.key[2]>>
    BY <1>2 DEF Pairs
  <2>2. \A a, b \in rows : KeyLess(a, b) <=>
            \/ a.key[1] < b.key[1]
            \/ a.key[1] = b.key[1] /\ a.key[2] < b.key[2]
    BY <2>1 DEF KeyLess
  <2>3. \A a, b \in rows : a # b => a.key[1] # b.key[1] \/ a.key[2] # b.key[2]
    <3> SUFFICES ASSUME NEW a \in rows, NEW b \in rows,
                        a.key[1] = b.key[1], a.key[2] = b.key[2]
                 PROVE  a = b
      OBVIOUS
    <3>1. a.key = <<a.key[1], a.key[2]>> /\ b.key = <<b.key[1], b.key[2]>>
      BY <2>1
    <3>2. a.key = b.key
      BY <3>1
    <3> QED
      BY <3>2 DEF Sortable
  <2> QED
    BY <2>1, <2>2, <2>3
<1> QED
  BY <1>1, <1>2 DEF Sortable

(* A sorted sequence holds the rows that were to be sorted, all of them.   *)
LEMMA SortedRows ==
    ASSUME NEW rows, Sortable(rows)
    PROVE  /\ Cardinality(rows) \in Nat
           /\ Sorted(rows) \in Seq(rows) /\ Len(Sorted(rows)) = Cardinality(rows)
           /\ \A row \in rows : \E i \in 1..Len(Sorted(rows)) : Sorted(rows)[i] = row
<1> DEFINE n == Cardinality(rows)
           B(row) == {r \in rows : KeyLess(r, row)}
           f == [row \in rows |-> Cardinality(B(row)) + 1]
<1>0. IsFiniteSet(rows) /\ n \in Nat
  BY FS_CardinalityType DEF Sortable
<1>1. ASSUME NEW row \in rows
      PROVE  IsFiniteSet(B(row)) /\ Cardinality(B(row)) \in Nat /\ Cardinality(B(row)) <= n - 1
  <2>1. B(row) \subseteq rows \ {row}
    BY KeysOrdered
  <2>2. IsFiniteSet(rows \ {row}) /\ Cardinality(rows \ {row}) = n - 1
    BY <1>0, FS_RemoveElement
  <2> HIDE DEF B
  <2>3. IsFiniteSet(B(row)) /\ Cardinality(B(row)) <= n - 1
    BY <2>1, <2>2, FS_Subset
  <2> QED
    BY <2>3, FS_CardinalityType
<1>2. ASSUME NEW a \in rows, NEW b \in rows, KeyLess(a, b)
      PROVE  Cardinality(B(a)) < Cardinality(B(b))
  <2>1. B(a) \cup {a} \subseteq B(b) /\ a \notin B(a)
    BY <1>2, KeysOrdered
  <2> HIDE DEF B
  <2>2. /\ IsFiniteSet(B(a) \cup {a}) /\ Cardinality(B(a) \cup {a}) = Cardinality(B(a)) + 1
    BY <1>1, <2>1, FS_AddElement
  <2>3. Cardinality(B(a) \cup {a}) <= Cardinality(B(b))
    BY <1>1, <2>1, FS_Subset
  <2> QED
    BY <1>1, <2>2, <2>3
<1> HIDE DEF B
<1>3. f \in Injection(rows, 1..n)
  <2>1. \A row \in rows : f[row] \in 1..n
    BY <1>0, <1>1
  <2>2. ASSUME NEW a \in rows, NEW b \in rows, f[a] = f[b] PROVE a = b
    <3>1. Cardinality(B(a)) = Cardinality(B(b))
      BY <1>1, <2>2
    <3> SUFFICES ASSUME a # b PROVE FALSE
      OBVIOUS
    <3>2. KeyLess(a, b) \/ KeyLess(b, a)
      BY KeysOrdered
    <3>3. Cardinality(B(a)) < Cardinality(B(b)) \/ Cardinality(B(b)) < Cardinality(B(a))
      BY <1>2, <3>2
    <3> QED
      BY <1>1, <3>1, <3>3
  <2>3. f \in [rows -> 1..n]
    BY <2>1
  <2> HIDE DEF f
  <2> QED
    BY <2>2, <2>3 DEF Injection, IsInjective
<1>4. f \in Surjection(rows, 1..n)
  <2>1. IsFiniteSet(1..n) /\ Cardinality(1..n) = n
    <3>1. Cardinality(1..n) = IF 1 > n THEN 0 ELSE n - 1 + 1
      BY <1>0, FS_Interval
    <3> HIDE DEF n
    <3> QED
      BY <1>0, <3>1, FS_Interval
  <2> HIDE DEF f, n
  <2>2. Cardinality(rows) = Cardinality(1..n)
    BY <2>1 DEF n
  <2> QED
    BY <1>3, <2>1, <2>2, FS_Injection
<1> DEFINE s == Sorted(rows)
<1>5. s = [i \in 1..n |-> CHOOSE row \in rows : Cardinality(B(row)) = i - 1]
  BY DEF Sorted, B
<1>6. ASSUME NEW i \in 1..n
      PROVE  s[i] \in rows /\ Cardinality(B(s[i])) = i - 1
  <2>1. PICK row \in rows : f[row] = i
    <3> HIDE DEF f
    <3> QED
      BY <1>4 DEF Surjection
  <2>2. Cardinality(B(row)) = i - 1
    BY <1>1, <2>1
  <2>3. s[i] = CHOOSE r \in rows : Cardinality(B(r)) = i - 1
    <3> HIDE DEF s
    <3> QED
      BY <1>5
  <2> HIDE DEF s
  <2> QED
    BY <2>2, <2>3, Zenon
<1>7. s \in Seq(rows) /\ Len(s) = n
  <2>1. s \in [1..n -> rows]
    <3> HIDE DEF s
    <3> QED
      BY <1>5, <1>6
  <2> HIDE DEF s
  <2> QED
    BY <1>0, <2>1
<1>8. ASSUME NEW row \in rows PROVE \E i \in 1..n : s[i] = row
  <2>1. f[row] \in 1..n /\ f[row] = Cardinality(B(row)) + 1
    BY <1>0, <1>1
  <2> HIDE DEF s
  <2>2. s[f[row]] \in rows /\ Cardinality(B(s[f[row]])) = f[row] - 1
    BY <1>6, <2>1
  <2>3. f[s[f[row]]] = f[row]
    BY <1>1, <2>1, <2>2
  <2>4. s[f[row]] = row
    <3> HIDE DEF f
    <3> QED
      BY <1>3, <2>2, <2>3 DEF Injection, IsInjective
  <2> QED
    BY <2>1, <2>4
<1> QED
  BY <1>0, <1>7, <1>8

(* A sequence is one of its elements.                                      *)
LEMMA OwnElements ==
    ASSUME NEW S, NEW s \in Seq(S)
    PROVE  s \in Seq(Range(s))
<1> DEFINE T == Range(s)
<1>1. Len(s) \in Nat /\ s \in [1..Len(s) -> S] /\ DOMAIN s = 1..Len(s)
  OBVIOUS
<1>2. \A i \in 1..Len(s) : s[i] \in T
  BY <1>1 DEF Range
<1> HIDE DEF T
<1>3. s \in [1..Len(s) -> T]
  BY <1>1, <1>2
<1> QED
  BY <1>1, <1>3 DEF T

LEMMA SmallMod ==
    ASSUME NEW a \in Nat, NEW b \in Nat, a < b
    PROVE  a % b = a
OBVIOUS

(* Small numbers do not wrap.                                              *)
LEMMA NoWrap ==
    ASSUME NEW i \in 0..(IntHalf - 1)
    PROVE  Wrap(i) = i
<1>1. IntHalf \in Nat
  BY ClusterRestAssumption
<1>2. (i + IntHalf) % (2 * IntHalf) = i + IntHalf
  <2>1. i + IntHalf \in Nat /\ 2 * IntHalf \in Nat /\ i + IntHalf < 2 * IntHalf
    BY <1>1
  <2> DEFINE a == i + IntHalf
             b == 2 * IntHalf
  <2> HIDE DEF a, b
  <2> QED
    BY <2>1, SmallMod DEF a, b
<1> DEFINE m == (i + IntHalf) % (2 * IntHalf)
<1>3. Wrap(i) = m - IntHalf
  BY DEF Wrap
<1> HIDE DEF m
<1> QED
  BY <1>1, <1>2, <1>3 DEF m

(* Page 1 of the maximum size is the beginning of the list, or all of it.  *)
LEMMA FirstPage ==
    ASSUME NEW S, NEW items \in Seq(S)
    PROVE  LET page == ApplyPagination(items, ParsePage(1, MaxPageSize))
           IN  /\ page \in Seq(S) /\ Len(page) <= MaxPageSize
               /\ \A i \in DOMAIN page : i \in 1..Len(items) /\ page[i] = items[i]
               /\ Len(items) <= MaxPageSize => \A i \in 1..Len(items) : i \in DOMAIN page
<1> DEFINE p == ParsePage(1, MaxPageSize)
           page == ApplyPagination(items, p)
           n == Len(items)
           last == IF MaxPageSize > n THEN n ELSE MaxPageSize
<1>0. n \in Nat /\ IntHalf \in Nat /\ MaxPageSize \in 1..(IntHalf - 1)
  BY ClusterRestAssumption
<1>1. p.page = 1 /\ p.size = MaxPageSize
  <2>1. ~ (1 < 1) /\ ~ (MaxPageSize < 1) /\ ~ (MaxPageSize > MaxPageSize)
    BY <1>0
  <2> QED
    BY <2>1 DEF ParsePage
<1> HIDE DEF p
<1>2. (p.page - 1) * p.size = 0
  BY <1>0, <1>1
<1>3. Wrap((p.page - 1) * p.size) = 0
  BY <1>0, <1>2, NoWrap
<1>4. Wrap(0 + p.size) = MaxPageSize
  BY <1>0, <1>1, NoWrap
<1>5. page = IF 0 >= n THEN <<>>
             ELSE IF 0 < 0 \/ last < 0 THEN None
             ELSE SubSeq(items, 0 + 1, last)
  BY <1>3, <1>4 DEF ApplyPagination
<1>6. CASE n = 0
  <2>1. page = <<>>
    BY <1>5, <1>6
  <2> HIDE DEF page
  <2>2. DOMAIN page = {} /\ page \in Seq(S) /\ Len(page) = 0
    BY <2>1
  <2> QED
    BY <1>0, <1>6, <2>2 DEF page, p
<1>7. CASE n # 0
  <2>1. last \in 1..n /\ (n <= MaxPageSize => last = n) /\ last <= MaxPageSize
    BY <1>0, <1>7
  <2> HIDE DEF last
  <2>2. page = SubSeq(items, 1, last)
    BY <1>0, <1>5, <1>7, <2>1
  <2> HIDE DEF page
  <2>3. /\ DOMAIN page = 1..last /\ \A i \in 1..last : page[i] = items[i]
        /\ page \in Seq(S) /\ Len(page) = last
    BY <1>0, <2>1, <2>2
  <2> QED
    BY <1>0, <2>1, <2>3 DEF page, p
<1> QED
  BY <1>6, <1>7

(* The members stand in some order, each of them once.                     *)
LEMMA MembersOrder ==
    ASSUME NEW order \in SetToSeqs(Nodes)
    PROVE  /\ Len(order) \in Nat
           /\ \A i \in 1..Len(order) : order[i] \in Nodes
           /\ \A i, j \in 1..Len(order) : i # j => order[i] # order[j]
           /\ \A n \in Nodes : \E i \in 1..Len(order) : order[i] = n
<1> DEFINE k == Cardinality(Nodes)
<1>1. IsFiniteSet(Nodes) /\ k \in Nat
  BY ClusterRestAssumption, FS_CardinalityType
<1>2. order \in [1..k -> Nodes] /\ \A i, j \in 1..k : i # j => order[i] # order[j]
  BY DEF SetToSeqs
<1>3. Len(order) = k
  <2> HIDE DEF k
  <2> QED
    BY <1>1, <1>2
<1>4. order \in Surjection(1..k, Nodes)
  <2>1. order \in Injection(1..k, Nodes)
    BY <1>2 DEF Injection, IsInjective
  <2>2. Cardinality(1..k) = k
    <3>1. Cardinality(1..k) = IF 1 > k THEN 0 ELSE k - 1 + 1
      BY <1>1, FS_Interval
    <3> HIDE DEF k
    <3> QED
      BY <1>1, <3>1
  <2> QED
    BY <1>1, <2>1, <2>2, FS_Injection
<1> HIDE DEF k
<1> QED
  BY <1>1, <1>2, <1>3, <1>4 DEF Surjection

(* The first of some members is one of them.                               *)
LEMMA FirstIsOne ==
    ASSUME NEW order \in SetToSeqs(Nodes), NEW nodes \in SUBSET Nodes, nodes # {}
    PROVE  order[First(order, nodes)] \in nodes
<1> DEFINE I == {i \in 1..Len(order) : order[i] \in nodes}
<1>1. PICK n \in nodes : TRUE
  OBVIOUS
<1>2. PICK i \in 1..Len(order) : order[i] = n
  BY <1>1, MembersOrder
<1>3. I # {}
  BY <1>1, <1>2
<1>4. First(order, nodes) = CHOOSE x \in I : \A y \in I : x =< y
  BY <1>3 DEF First, SelectInSeq, Min
<1>5. I \in SUBSET Nat
  BY MembersOrder
<1> HIDE DEF I
<1>6. \E x \in I : \A y \in I : x =< y
  BY <1>3, <1>5, LeastNat
<1>7. First(order, nodes) \in I
  BY <1>4, <1>6, Zenon
<1> QED
  BY <1>7 DEF I

----------------------------------------------------------------------------
(* What the facts are, and how they go on.                                 *)

LEMMA FactKinds ==
    ASSUME NEW o, NEW s, NEW r, NEW st
    PROVE  /\ \A y \in Facts(o, s, r, st) :
                \/ \E n \in Nodes : \E c \in o[n] : y = <<"client", n, <<c>>>>
                \/ \E n \in Nodes : \E x \in s[n] : y = <<"sub", n, x>>
                \/ \E n \in Nodes : \E f \in r[n] : y = <<"retained", n, <<f>>>>
                \/ \E c \in st : y = <<"stored", Shared, <<c>>>>
           /\ \A c \in st : <<"stored", Shared, <<c>>>> \in Facts(o, s, r, st)
<1> DEFINE F(m) == {<<"client", m, <<c>>>> : c \in o[m]}
                   \cup {<<"sub", m, x>> : x \in s[m]}
                   \cup {<<"retained", m, <<f>>>> : f \in r[m]}
           S == {<<"stored", Shared, <<c>>>> : c \in st}
           U == {F(m) : m \in Nodes}
<1>1. Facts(o, s, r, st) = (UNION U) \cup S
  BY Zenon DEF Facts
<1>2. \A z : z \in U <=> \E m \in Nodes : z = F(m)
  BY Zenon
<1>3. ASSUME NEW m \in Nodes, NEW y \in F(m)
      PROVE  \/ \E c \in o[m] : y = <<"client", m, <<c>>>>
             \/ \E x \in s[m] : y = <<"sub", m, x>>
             \/ \E f \in r[m] : y = <<"retained", m, <<f>>>>
  OBVIOUS
<1>4. \A y \in S : \E c \in st : y = <<"stored", Shared, <<c>>>>
  OBVIOUS
<1>5. \A c \in st : <<"stored", Shared, <<c>>>> \in S
  OBVIOUS
<1> HIDE DEF U, S, F
<1>6. \A y : y \in Facts(o, s, r, st) <=> (\E z \in U : y \in z) \/ y \in S
  BY <1>1
<1>7. ASSUME NEW y \in Facts(o, s, r, st)
      PROVE  (\E m \in Nodes : y \in F(m)) \/ y \in S
  BY <1>2, <1>6, Zenon
<1> QED
  BY <1>3, <1>4, <1>5, <1>6, <1>7

(* What held at some moment stays so, what held all the time can only get  *)
(* less.                                                                   *)
LEMMA EverGrows ==
    ASSUME req # None, NEW o, NEW s, NEW r, NEW st, Change(o, s, r, st)
    PROVE  Ever \subseteq Ever' /\ Always' \subseteq Always
<1>1. Now' = Facts(o, s, r, st)
  BY DEF Change, Now
<1>2. /\ born' = born \cup (Facts(o, s, r, st) \ Now)
      /\ gone' = gone \cup (Now \ Facts(o, s, r, st))
  BY DEF Change
<1> QED
  BY <1>1, <1>2 DEF Ever, Always

LEMMA EverKept ==
    ASSUME UNCHANGED <<broker, born, gone>>
    PROVE  Ever' = Ever /\ Always' = Always
BY DEF broker, Ever, Always, Now

(* So what is right of a peer's answer remains right.                      *)
LEMMA PeerKept ==
    ASSUME Ever \subseteq Ever', Always' \subseteq Always, req' = req,
           NEW n, got'[n] = got[n]
    PROVE  /\ SeenRight(n) => SeenRight(n)'
           /\ ItemsRight(n) => ItemsRight(n)'
<1>1. Items(n)' = Items(n)
  BY DEF Items
<1>2. \A row : RowFact(n, row)' = RowFact(n, row)
  BY DEF RowFact, FactOf
<1>3. \A fact : Asks(n, fact)' => Asks(n, fact)
  <2> HIDE DEF Ever
  <2> QED
    BY DEF Asks
<1> HIDE DEF Ever
<1>4. SeenRight(n) => SeenRight(n)'
  BY DEF SeenRight
<1>5. ItemsRight(n) => ItemsRight(n)'
  BY <1>1, <1>2, <1>3 DEF ItemsRight
<1> QED
  BY <1>4, <1>5

----------------------------------------------------------------------------
(* The rows of one node.                                                   *)

KeySet(K) == IsFiniteSet(K) /\ (K \subseteq Ones \/ K \subseteq Pairs)

LEMMA ImageSortable ==
    ASSUME NEW K, KeySet(K), NEW f, f = [k \in K |-> f[k]], \A k \in K : f[k].key = k
    PROVE  \A rows \in SUBSET {f[k] : k \in K} : Sortable(rows)
<1> DEFINE all == {f[k] : k \in K}
<1>1. IsFiniteSet(all)
  BY ImageFinite DEF KeySet
<1> SUFFICES ASSUME NEW rows \in SUBSET all PROVE Sortable(rows)
  OBVIOUS
<1>2. \A row \in rows : \E k \in K : row = f[k] /\ row.key = k
  OBVIOUS
<1> HIDE DEF all
<1>3. IsFiniteSet(rows)
  BY <1>1, FS_Subset
<1>4. \A a, b \in rows : a.key = b.key => a = b
  BY <1>2
<1>5. \/ \A row \in rows : row.key \in Ones
      \/ \A row \in rows : row.key \in Pairs
  BY <1>2 DEF KeySet
<1> QED
  BY <1>3, <1>4, <1>5 DEF Sortable

LEMMA RowsSortable ==
    ASSUME NEW K, KeySet(K), NEW b
    PROVE  Sortable(Rows(K, b))
<1> DEFINE f == [k \in K |-> [key |-> k, online |-> b]]
<1>1. \A k \in K : f[k].key = k
  OBVIOUS
<1>2. Rows(K, b) = {f[k] : k \in K}
  BY DEF Rows
<1>3. f = [k \in K |-> f[k]]
  OBVIOUS
<1> HIDE DEF f
<1> QED
  BY <1>1, <1>2, <1>3, ImageSortable

LEMMA SinglesKeys ==
    ASSUME NEW S, IsFiniteSet(S), S \subseteq Nat
    PROVE  KeySet({<<c>> : c \in S})
<1> DEFINE f == [c \in S |-> <<c>>]
<1>1. {<<c>> : c \in S} = {f[c] : c \in S}
  OBVIOUS
<1>2. f = [c \in S |-> f[c]]
  OBVIOUS
<1>3. {<<c>> : c \in S} \subseteq Ones
  BY DEF Ones
<1>4. IsFiniteSet({<<c>> : c \in S})
  <2> HIDE DEF f
  <2> QED
    BY <1>1, <1>2, ImageFinite
<1> QED
  BY <1>3, <1>4 DEF KeySet

LEMMA KeysFinite ==
    ASSUME NEW op PROVE KeySet(KeysOf(op))
<1>1. /\ IsFiniteSet(Clients) /\ IsFiniteSet(Filters)
      /\ Clients \subseteq Nat /\ Filters \subseteq Nat
  BY ClusterRestAssumption
<1>2. KeySet({<<c>> : c \in Clients}) /\ KeySet({<<f>> : f \in Filters})
  BY <1>1, SinglesKeys
<1>3. KeySet(Clients \X Filters)
  <2>1. IsFiniteSet(Clients \X Filters)
    BY <1>1, FS_Product
  <2>2. Clients \X Filters \subseteq Pairs
    BY <1>1 DEF Pairs
  <2> QED
    BY <2>1, <2>2 DEF KeySet
<1>4. CASE op = "subscriptions"
  BY <1>3, <1>4 DEF KeysOf
<1>5. CASE op = "retained"
  BY <1>2, <1>5 DEF KeysOf
<1>6. CASE op \notin {"subscriptions", "retained"}
  BY <1>2, <1>6 DEF KeysOf
<1> QED
  BY <1>4, <1>5, <1>6

LEMMA FewerKeys ==
    ASSUME NEW K, KeySet(K), NEW L, L \subseteq K
    PROVE  KeySet(L)
BY FS_Subset DEF KeySet

(* There are not so many rows that an int could not count them.            *)
LEMMA RowsFit ==
    ASSUME NEW op, NEW rows, Sortable(rows), \A row \in rows : row.key \in KeysOf(op)
    PROVE  Cardinality(rows) + MaxPageSize <= IntHalf
<1> DEFINE f == [row \in rows |-> row.key]
           one(S) == {<<x>> : x \in S}
           fits(n) == n \in Nat /\ n + MaxPageSize <= IntHalf
<1>0. /\ IsFiniteSet(Clients) /\ IsFiniteSet(Filters)
      /\ IntHalf \in Nat /\ MaxPageSize \in Nat
      /\ \A keys \in {Clients, Filters, Clients \X Filters} :
            Cardinality(keys) + MaxPageSize <= IntHalf
  BY ClusterRestAssumption
<1>1. ASSUME NEW S, IsFiniteSet(S), Cardinality(S) + MaxPageSize <= IntHalf
      PROVE  fits(Cardinality(one(S)))
  <2> DEFINE g == [x \in S |-> <<x>>]
  <2>1. g \in Surjection(S, one(S))
    BY DEF Surjection
  <2> HIDE DEF g, one
  <2>2. IsFiniteSet(one(S)) /\ Cardinality(one(S)) <= Cardinality(S)
    BY <1>1, <2>1, FS_Surjection
  <2>3. Cardinality(one(S)) \in Nat /\ Cardinality(S) \in Nat
    BY <1>1, <2>2, FS_CardinalityType
  <2> QED
    BY <1>0, <1>1, <2>2, <2>3
<1>2. fits(Cardinality(KeysOf(op)))
  <2>1. CASE op = "subscriptions"
    <3>1. IsFiniteSet(Clients \X Filters)
      BY <1>0, FS_Product
    <3>2. Cardinality(Clients \X Filters) \in Nat
      BY <3>1, FS_CardinalityType
    <3> QED
      BY <1>0, <2>1, <3>2 DEF KeysOf
  <2>2. CASE op = "retained"
    BY <1>0, <1>1, <2>2 DEF KeysOf
  <2>3. CASE op \notin {"subscriptions", "retained"}
    BY <1>0, <1>1, <2>3 DEF KeysOf
  <2> QED
    BY <2>1, <2>2, <2>3
<1>3. f \in Injection(rows, KeysOf(op))
  BY DEF Sortable, Injection, IsInjective
<1> HIDE DEF f
<1>4. IsFiniteSet(KeysOf(op))
  BY KeysFinite DEF KeySet
<1>5. IsFiniteSet(rows) /\ Cardinality(rows) <= Cardinality(KeysOf(op))
  BY <1>3, <1>4, FS_Injection
<1>6. Cardinality(rows) \in Nat
  BY <1>5, FS_CardinalityType
<1> QED
  BY <1>0, <1>2, <1>5, <1>6

(* A node answers with some of its rows, and with all of them if it says so.*)
LEMMA PageOfRows ==
    ASSUME NEW rows, Sortable(rows), NEW readable,
           NEW a, a = ListAnswer(rows, readable)
    PROVE  /\ a.status = "ok"
           /\ a.items \in Seq(Range(a.items)) /\ Len(a.items) <= MaxPageSize
           /\ Range(a.items) \subseteq rows
           /\ a.whole => readable /\ rows \subseteq Range(a.items)
<1> DEFINE s == Sorted(rows)
           page == ApplyPagination(s, ParsePage(1, MaxPageSize))
<1>1. /\ a.status = "ok" /\ a.items = page
      /\ a.whole <=> readable /\ Cardinality(rows) <= MaxPageSize
  BY DEF ListAnswer
<1>2. /\ s \in Seq(rows) /\ Len(s) = Cardinality(rows)
      /\ \A row \in rows : \E i \in 1..Len(s) : s[i] = row
  BY SortedRows
<1> HIDE DEF s
<1>3. /\ page \in Seq(rows) /\ Len(page) <= MaxPageSize
      /\ \A i \in DOMAIN page : i \in 1..Len(s) /\ page[i] = s[i]
      /\ Len(s) <= MaxPageSize => \A i \in 1..Len(s) : i \in DOMAIN page
  BY <1>2, FirstPage
<1> HIDE DEF page
<1>4. \A i \in 1..Len(s) : s[i] \in rows
  BY <1>2
<1>5. page \in Seq(Range(page))
  BY <1>3, OwnElements
<1>6. Range(page) \subseteq rows /\ (Len(s) <= MaxPageSize => rows \subseteq Range(page))
  BY <1>2, <1>3, <1>4 DEF Range
<1> QED
  BY <1>1, <1>2, <1>5, <1>3, <1>6

(* Node n answers a list: its rows were true, and all that were are there. *)
LEMMA AnswerRight ==
    ASSUME NEW n, NEW rows, Sortable(rows), NEW readable,
           got'[n] = ListAnswer(rows, readable), req' = req,
           Ever' = Ever, Always' = Always,
           \A row \in rows : row.key \in KeysOf(req.op) /\ RowFact(n, row) \in Ever,
           readable => \A fact \in Always : Asks(n, fact) =>
                            \E row \in rows : row.key = fact[3],
           readable /\ req.op = "sessions" /\ req.arg # "false" =>
               \A c \in Clients : <<"client", n, <<c>>>> \in Always =>
                    \E row \in rows : row.key = <<c>> /\ row.online
    PROVE  got'[n].status = "ok" /\ ItemsRight(n)'
<1>1. /\ got'[n].status = "ok" /\ Items(n)' \subseteq rows
      /\ got'[n].items \in Seq(Items(n)') /\ Len(got'[n].items) <= MaxPageSize
      /\ got'[n].whole => readable /\ rows \subseteq Items(n)'
  <2>1. Items(n)' = Range(got'[n].items)
    BY DEF Items, Range
  <2> QED
    BY <2>1, PageOfRows
<1>2. \A row : RowFact(n, row)' = RowFact(n, row)
  BY DEF RowFact, FactOf
<1>3. \A fact : Asks(n, fact)' => Asks(n, fact)
  <2> HIDE DEF Ever
  <2> QED
    BY DEF Asks
<1> HIDE DEF Ever
<1> QED
  BY <1>1, <1>2, <1>3 DEF ItemsRight

(* listClients, listSubscriptions and listRetained of node n.              *)
LEMMA LocalRight ==
    ASSUME TablesTyped, RequestTyped, Listing, NEW n \in Nodes, PeerList(n)
    PROVE  got'[n].status = "ok" /\ ItemsRight(n)'
<1>1. /\ req.op \in {"clients", "subscriptions", "retained"}
      /\ UNCHANGED <<broker, born, gone>> /\ req' = req
  BY DEF PeerList, Asked, Lists, Replies
<1>2. Ever' = Ever /\ Always' = Always
  BY <1>1, EverKept
<1>3. \A y : y \in Now => y \in Ever
  BY DEF Ever
<1>4. \A y : y \in Always => y \in Now
  BY DEF Always
<1>5. \A K \in SUBSET KeysOf(req.op) : Sortable(Rows(K, TRUE))
  BY KeysFinite, FewerKeys, RowsSortable
<1>6. \A rows : got' = [got EXCEPT ![n] = ListAnswer(rows, TRUE)] =>
                got'[n] = ListAnswer(rows, TRUE)
  BY DEF RequestTyped
<1>7. ASSUME NEW K \in SUBSET KeysOf(req.op), got'[n] = ListAnswer(Rows(K, TRUE), TRUE),
             \A row : row.key \in K => RowFact(n, row) \in Now,
             \A fact \in Now : Asks(n, fact) => fact[3] \in K
      PROVE  got'[n].status = "ok" /\ ItemsRight(n)'
  <2> DEFINE rows == Rows(K, TRUE)
  <2>1. \A row \in rows : row.key \in K
    BY DEF Rows
  <2>2. ASSUME NEW k \in K PROVE \E row \in rows : row.key = k
    <3>1. [key |-> k, online |-> TRUE] \in rows
      BY DEF Rows
    <3> QED
      BY <3>1
  <2>3. Sortable(rows) /\ got'[n] = ListAnswer(rows, TRUE)
    BY <1>5, <1>7
  <2> HIDE DEF rows, Ever
  <2>4. \A row \in rows : row.key \in KeysOf(req.op) /\ RowFact(n, row) \in Ever
    BY <1>3, <1>7, <2>1
  <2>5. \A fact \in Always : Asks(n, fact) => \E row \in rows : row.key = fact[3]
    BY <1>4, <1>7, <2>2
  <2>6. req.op # "sessions"
    BY <1>1
  <2> QED
    BY <1>1, <1>2, <2>3, <2>4, <2>5, <2>6, AnswerRight
<1>8. CASE req.op = "clients"
  <2> DEFINE K == {<<c>> : c \in online[n] \cap req.arg}
  <2>1. got'[n] = ListAnswer(Rows(K, TRUE), TRUE)
    BY <1>6, <1>8 DEF PeerList, LocalClients, Replies
  <2>2. \A k \in K : k \in KeysOf(req.op) /\ <<"client", n, k>> \in Now
    BY <1>8, FactsSay DEF Now, KeysOf, TablesTyped
  <2>3. ASSUME NEW fact \in Now, Asks(n, fact) PROVE fact[3] \in K
    <3>1. fact[1] = "client" /\ fact[2] = n /\ fact[3][1] \in req.arg
      BY <1>8, <2>3 DEF Asks
    <3>2. PICK m \in Nodes : \E c \in online[m] : fact = <<"client", m, <<c>>>>
      BY <3>1, FactKinds DEF Now
    <3> QED
      BY <3>1, <3>2
  <2>4. \A row : RowFact(n, row) = <<"client", n, row.key>>
    BY <1>8 DEF RowFact, FactOf
  <2> HIDE DEF K
  <2> QED
    BY <1>7, <2>1, <2>2, <2>3, <2>4
<1>9. CASE req.op = "subscriptions"
  <2> DEFINE K == {x \in subs[n] : x[1] \in req.arg}
  <2>1. got'[n] = ListAnswer(Rows(K, TRUE), TRUE)
    BY <1>6, <1>9 DEF PeerList, LocalSubscriptions, Replies
  <2>2. \A k \in K : k \in KeysOf(req.op) /\ <<"sub", n, k>> \in Now
    BY <1>9, FactsSay DEF Now, KeysOf, TablesTyped
  <2>3. ASSUME NEW fact \in Now, Asks(n, fact) PROVE fact[3] \in K
    <3>1. fact[1] = "sub" /\ fact[2] = n /\ fact[3][1] \in req.arg
      BY <1>9, <2>3 DEF Asks
    <3>2. PICK m \in Nodes : \E x \in subs[m] : fact = <<"sub", m, x>>
      BY <3>1, FactKinds DEF Now
    <3> QED
      BY <3>1, <3>2
  <2>4. \A row : RowFact(n, row) = <<"sub", n, row.key>>
    BY <1>9 DEF RowFact, FactOf
  <2> HIDE DEF K
  <2> QED
    BY <1>7, <2>1, <2>2, <2>3, <2>4
<1>10. CASE req.op = "retained"
  <2> DEFINE K == {<<f>> : f \in retained[n] \cap req.arg}
  <2>1. got'[n] = ListAnswer(Rows(K, TRUE), TRUE)
    BY <1>6, <1>10 DEF PeerList, LocalRetained, Replies
  <2>2. \A k \in K : k \in KeysOf(req.op) /\ <<"retained", n, k>> \in Now
    BY <1>10, FactsSay DEF Now, KeysOf, TablesTyped
  <2>3. ASSUME NEW fact \in Now, Asks(n, fact) PROVE fact[3] \in K
    <3>1. fact[1] = "retained" /\ fact[2] = n /\ fact[3][1] \in req.arg
      BY <1>10, <2>3 DEF Asks
    <3>2. PICK m \in Nodes : \E f \in retained[m] : fact = <<"retained", m, <<f>>>>
      BY <3>1, FactKinds DEF Now
    <3> QED
      BY <3>1, <3>2
  <2>4. \A row : RowFact(n, row) = <<"retained", n, row.key>>
    BY <1>10 DEF RowFact, FactOf
  <2> HIDE DEF K
  <2> QED
    BY <1>7, <2>1, <2>2, <2>3, <2>4
<1> QED
  BY <1>1, <1>8, <1>9, <1>10

(* listSessions of node n, in two steps: the client table ...              *)
LEMMA SeenIsRight ==
    ASSUME TablesTyped, RequestTyped, Listing, NEW n \in Nodes, PeerReadsClients(n)
    PROVE  got'[n].status = "reading" /\ SeenRight(n)'
<1>1. /\ req.op = "sessions" /\ UNCHANGED <<broker, born, gone>> /\ req' = req
      /\ got' = [got EXCEPT ![n] = [status |-> "reading", seen |-> online[n]]]
  BY DEF PeerReadsClients, Asked, Replies, Listing, Lists
<1>2. Ever' = Ever /\ Always' = Always
  BY <1>1, EverKept
<1>3. got'[n] = [status |-> "reading", seen |-> online[n]]
  BY <1>1 DEF RequestTyped
<1>4. got'[n].status = "reading" /\ got'[n].seen = online[n]
  BY <1>3
<1>5. online[n] \subseteq Clients
  BY DEF TablesTyped
<1>6. \A c : <<"client", n, <<c>>>> \in Now <=> c \in online[n]
  BY FactsSay DEF Now
<1>7. /\ \A y : y \in Now => y \in Ever
      /\ \A y : y \in Always => y \in Now
  BY DEF Ever, Always
<1> HIDE DEF Ever
<1> QED
  BY <1>1, <1>2, <1>4, <1>5, <1>6, <1>7 DEF SeenRight

(* ... and then the session store.                                         *)
LEMMA SessionsRight ==
    ASSUME TablesTyped, RequestTyped, Listing, NEW n \in Nodes, SeenRight(n),
           PeerSessions(n)
    PROVE  got'[n].status = "ok" /\ ItemsRight(n)'
<1> DEFINE seen == got[n].seen
<1>1. PICK readable \in BOOLEAN :
        Replies(n, ListAnswer(LocalSessions(seen, req.arg, readable), readable))
  BY DEF PeerSessions
<1> DEFINE A == IF req.arg = "false" THEN {} ELSE seen
           B == IF req.arg # "true" /\ readable THEN stored \ seen ELSE {}
           K == {<<c>> : c \in A}
           L == {<<c>> : c \in B}
           rows == Rows(K, TRUE) \cup Rows(L, FALSE)
<1>2. /\ req.op = "sessions" /\ UNCHANGED <<broker, born, gone>> /\ req' = req
  BY <1>1 DEF PeerSessions, Reading, Replies
<1>3. Ever' = Ever /\ Always' = Always
  BY <1>2, EverKept
<1>4. got'[n] = ListAnswer(rows, readable)
  BY <1>1 DEF Replies, LocalSessions, RequestTyped
<1>5. /\ seen \subseteq Clients /\ stored \subseteq Clients
      /\ \A c \in seen : <<"client", n, <<c>>>> \in Ever
      /\ \A c \in Clients : <<"client", n, <<c>>>> \in Always => c \in seen
  <2> HIDE DEF Ever
  <2> QED
    BY DEF SeenRight, TablesTyped
<1> HIDE DEF seen
<1>6. A \subseteq seen /\ B \subseteq stored \ seen
  OBVIOUS
<1>7. \A c \in stored : <<"stored", Shared, <<c>>>> \in Ever
  <2>1. \A c \in stored : <<"stored", Shared, <<c>>>> \in Now
    BY FactKinds DEF Now
  <2> QED
    BY <2>1 DEF Ever
<1>8. ASSUME NEW fact \in Always, fact[1] = "stored"
      PROVE  \E c \in stored : fact = <<"stored", Shared, <<c>>>>
  <2>1. fact \in Now
    BY DEF Always
  <2> QED
    BY <1>8, <2>1, FactKinds DEF Now
<1>9. Sortable(rows)
  <2>1. K \subseteq KeysOf(req.op) /\ L \subseteq KeysOf(req.op) /\ K \cap L = {}
    BY <1>2, <1>5, <1>6 DEF KeysOf
  <2>2. KeySet(K) /\ KeySet(L)
    BY <2>1, KeysFinite, FewerKeys
  <2>3. K \subseteq Ones /\ L \subseteq Ones
    BY <1>5, <1>6, ClusterRestAssumption DEF Ones
  <2> HIDE DEF K, L
  <2>4. Sortable(Rows(K, TRUE)) /\ Sortable(Rows(L, FALSE))
    BY <2>2, RowsSortable
  <2>5. \A row \in Rows(K, TRUE) : row.key \in K
    BY DEF Rows
  <2>6. \A row \in Rows(L, FALSE) : row.key \in L
    BY DEF Rows
  <2>7. IsFiniteSet(rows)
    BY <2>4, FS_Union DEF Sortable
  <2>8. \A a, b \in rows : a.key = b.key => a = b
    BY <2>1, <2>4, <2>5, <2>6 DEF Sortable
  <2> QED
    BY <2>3, <2>5, <2>6, <2>7, <2>8 DEF Sortable
<1>10. \A row \in rows : \/ row.online = TRUE /\ \E c \in A : row.key = <<c>>
                         \/ row.online = FALSE /\ \E c \in B : row.key = <<c>>
  <2> HIDE DEF A, B
  <2> QED
    BY DEF Rows
<1>11. /\ \A c \in A : \E row \in rows : row.key = <<c>> /\ row.online
       /\ \A c \in B : \E row \in rows : row.key = <<c>>
  <2> HIDE DEF A, B
  <2>1. /\ \A c \in A : [key |-> <<c>>, online |-> TRUE] \in rows
        /\ \A c \in B : [key |-> <<c>>, online |-> FALSE] \in rows
    BY DEF Rows
  <2> HIDE DEF rows
  <2> QED
    BY <2>1
<1>12. \A row : /\ row.online = TRUE => RowFact(n, row) = <<"client", n, row.key>>
                /\ row.online = FALSE => RowFact(n, row) = <<"stored", Shared, row.key>>
  BY <1>2 DEF RowFact, FactOf
<1> HIDE DEF rows, K, L
<1>13. ASSUME NEW row \in rows
       PROVE  row.key \in KeysOf(req.op) /\ RowFact(n, row) \in Ever
  <2> HIDE DEF Ever, A, B
  <2>1. PICK c \in Clients : row.key = <<c>>
    BY <1>5, <1>6, <1>10
  <2>2. row.key \in KeysOf(req.op)
    BY <1>2, <2>1 DEF KeysOf
  <2>3. RowFact(n, row) \in Ever
    BY <1>5, <1>6, <1>7, <1>10, <1>12
  <2> QED
    BY <2>2, <2>3
<1>14. ASSUME readable, NEW fact \in Always, Asks(n, fact)
       PROVE  \E row \in rows : row.key = fact[3]
  <2>1. /\ fact[1] = "stored"
        /\ \/ req.arg = ""
           \/ req.arg = "false" /\ <<"client", n, fact[3]>> \notin Ever
    <3> HIDE DEF Ever
    <3> QED
      BY <1>2, <1>14 DEF Asks
  <2>2. PICK c \in stored : fact = <<"stored", Shared, <<c>>>>
    BY <1>8, <2>1
  <2>3. fact[3] = <<c>>
    BY <2>2
  <2> HIDE DEF Ever
  <2>4. c \in A \/ c \in B
    BY <1>5, <1>14, <2>1, <2>3
  <2> HIDE DEF A, B
  <2> QED
    BY <1>11, <2>3, <2>4
<1>15. ASSUME req.arg # "false", NEW c \in Clients, <<"client", n, <<c>>>> \in Always
       PROVE  \E row \in rows : row.key = <<c>> /\ row.online
  <2>1. c \in A
    BY <1>5, <1>15
  <2> HIDE DEF A
  <2> QED
    BY <1>11, <2>1
<1> HIDE DEF Ever, A, B
<1> QED
  BY <1>2, <1>3, <1>4, <1>9, <1>13, <1>14, <1>15, AnswerRight

----------------------------------------------------------------------------
(* The merge.                                                              *)

(* The nodes of which the first gives the row for key k.                   *)
Kept(k) ==
    IF req.op = "sessions" /\ ReportsOnline(k) # {} THEN ReportsOnline(k) ELSE Reports(k)

(* The rows of the merged list.                                            *)
Merged(order) ==
    {row \in {RowOf(order, k, Kept(k)) : k \in Keys} :
        req.op \in {"clients", "retained"} => row.key[1] \in req.arg}

LEMMA ListIsMerged ==
    ASSUME Listing, NEW order
    PROVE  MirrorList(order).kind = "list" /\ MirrorList(order).items = Sorted(Merged(order))
<1> DEFINE rows == CASE req.op = "clients"       -> ListClients(order)
                     [] req.op = "subscriptions" -> ListSubscriptions(order)
                     [] req.op = "retained"      -> ListRetained(order)
                     [] req.op = "sessions"      -> ListSessions(order)
<1>1. MirrorList(order).kind = "list" /\ MirrorList(order).items = Sorted(rows)
  BY DEF MirrorList
<1>2. CASE req.op = "sessions"
  <2>1. \A k : Kept(k) = IF ReportsOnline(k) # {} THEN ReportsOnline(k) ELSE Reports(k)
    BY <1>2 DEF Kept
  <2>2. rows = MergeSessions(order)
    BY <1>2 DEF ListSessions
  <2>3. MergeSessions(order) = {RowOf(order, k, Kept(k)) : k \in Keys}
    BY <2>1 DEF MergeSessions
  <2>4. Merged(order) = {RowOf(order, k, Kept(k)) : k \in Keys}
    BY <1>2 DEF Merged
  <2> QED
    BY <1>1, <2>2, <2>3, <2>4
<1>3. CASE req.op \in {"clients", "subscriptions", "retained"}
  <2>1. \A k : Kept(k) = Reports(k)
    BY <1>3 DEF Kept
  <2>2. MergeFirst(order) = {RowOf(order, k, Kept(k)) : k \in Keys}
    BY <2>1 DEF MergeFirst
  <2>3. rows = IF req.op = "subscriptions" THEN MergeFirst(order)
               ELSE {row \in MergeFirst(order) : row.key[1] \in req.arg}
    BY <1>3 DEF ListClients, ListSubscriptions, ListRetained
  <2> HIDE DEF rows
  <2>4. Merged(order) = {row \in MergeFirst(order) :
            req.op \in {"clients", "retained"} => row.key[1] \in req.arg}
    BY <2>2 DEF Merged
  <2>5. rows = Merged(order)
    BY <1>3, <2>3, <2>4
  <2> QED
    BY <1>1, <2>5
<1> QED
  BY <1>2, <1>3 DEF Listing, Lists

(* What the first of the nodes says of key k.                              *)
LEMMA RowRight ==
    ASSUME RequestTyped, Listing, PeersRight, NEW order \in SetToSeqs(Nodes), NEW k \in Keys,
           NEW row, row = RowOf(order, k, Kept(k))
    PROVE  /\ row.key = k /\ k \in KeysOf(req.op) /\ FactOf(row) \in Ever
           /\ req.op = "sessions" /\ ReportsOnline(k) # {} => row.online
<1> DEFINE n == order[First(order, Kept(k))]
<1>1. PICK m \in Answered : \E item \in Items(m) : item.key = k
  BY DEF Keys
<1>2. Reports(k) # {} /\ Reports(k) \subseteq Answered /\ ReportsOnline(k) \subseteq Reports(k)
  BY <1>1 DEF Reports, ReportsOnline
<1>3. Kept(k) # {} /\ Kept(k) \subseteq Reports(k)
  BY <1>2 DEF Kept
<1>4. Answered \subseteq Nodes
  BY DEF Answered
<1>5. n \in Kept(k)
  BY <1>2, <1>3, <1>4, FirstIsOne
<1>6. /\ row.key = k /\ row.node = n
      /\ row.online = \E item \in Items(n) : item.key = k /\ item.online
  BY DEF RowOf
<1> HIDE DEF n
<1>7. n \in Nodes /\ got[n].status = "ok" /\ \E item \in Items(n) : item.key = k
  BY <1>2, <1>3, <1>5 DEF Reports, Answered
<1>8. ItemsRight(n)
  BY <1>7 DEF PeersRight, SaidRight
<1>9. \A item \in Items(n) : item.key \in KeysOf(req.op) /\ RowFact(n, item) \in Ever
  <2> HIDE DEF Ever
  <2> QED
    BY <1>8 DEF ItemsRight
<1>10. FactOf(row) \in Ever
  <2>1. CASE req.op # "sessions"
    <3>1. PICK item \in Items(n) : item.key = k
      BY <1>7
    <3>2. FactOf(row) = RowFact(n, item)
      BY <1>6, <2>1, <3>1 DEF RowFact, FactOf, Listing, Lists
    <3> HIDE DEF Ever
    <3> QED
      BY <1>9, <3>2
  <2>2. CASE req.op = "sessions" /\ row.online
    <3>1. PICK item \in Items(n) : item.key = k /\ item.online
      BY <1>6, <2>2
    <3>2. FactOf(row) = RowFact(n, item)
      BY <1>6, <2>2, <3>1 DEF RowFact, FactOf
    <3> HIDE DEF Ever
    <3> QED
      BY <1>9, <3>2
  <2>3. CASE req.op = "sessions" /\ ~row.online
    <3>1. PICK item \in Items(n) : item.key = k
      BY <1>7
    <3>2. ~item.online
      BY <1>6, <2>3, <3>1
    <3>3. FactOf(row) = RowFact(n, item)
      BY <1>6, <2>3, <3>1, <3>2 DEF RowFact, FactOf
    <3> HIDE DEF Ever
    <3> QED
      BY <1>9, <3>3
  <2> QED
    BY <2>1, <2>2, <2>3
<1>11. ASSUME req.op = "sessions", ReportsOnline(k) # {} PROVE row.online
  <2>1. n \in ReportsOnline(k)
    BY <1>5, <1>11 DEF Kept
  <2> QED
    BY <1>6, <2>1 DEF ReportsOnline
<1>12. k \in KeysOf(req.op)
  BY <1>7, <1>9
<1> HIDE DEF Ever
<1> QED
  BY <1>6, <1>10, <1>11, <1>12

(* The merged list holds the merged rows.                                  *)
LEMMA ListHolds ==
    ASSUME RequestTyped, Listing, PeersRight, NEW order \in SetToSeqs(Nodes),
           NEW a, a = MirrorList(order)
    PROVE  /\ a.kind = "list" /\ {a.items[i] : i \in DOMAIN a.items} = Merged(order)
           /\ a.items \in Seq(Merged(order))
           /\ Len(a.items) + MaxPageSize <= IntHalf
<1> DEFINE f == [k \in Keys |-> RowOf(order, k, Kept(k))]
           rows == Merged(order)
           s == Sorted(rows)
<1>1. a.kind = "list" /\ a.items = s
  BY ListIsMerged
<1>2. \A k \in Keys : f[k].key = k /\ k \in KeysOf(req.op)
  <2>1. \A k \in Keys : f[k] = RowOf(order, k, Kept(k))
    OBVIOUS
  <2> HIDE DEF f
  <2> QED
    BY <2>1, RowRight
<1>3. KeySet(Keys)
  BY <1>2, KeysFinite, FewerKeys
<1>4. f = [k \in Keys |-> f[k]] /\ rows \in SUBSET {f[k] : k \in Keys}
  BY DEF Merged
<1> HIDE DEF f, rows
<1>5. Sortable(rows)
  BY <1>2, <1>3, <1>4, ImageSortable
<1>6. /\ s \in Seq(rows) /\ \A row \in rows : \E i \in 1..Len(s) : s[i] = row
      /\ Len(s) = Cardinality(rows) /\ Cardinality(rows) \in Nat
  BY <1>5, SortedRows
<1> HIDE DEF s
<1>7. DOMAIN s = 1..Len(s) /\ \A i \in 1..Len(s) : s[i] \in rows
  BY <1>6
<1>8. Len(s) + MaxPageSize <= IntHalf
  <2>1. \A row \in rows : row.key \in KeysOf(req.op)
    BY <1>2, <1>4
  <2>2. Cardinality(rows) + MaxPageSize <= IntHalf
    BY <1>5, <2>1, RowsFit
  <2> QED
    BY <1>6, <2>2
<1> QED
  BY <1>1, <1>6, <1>7, <1>8 DEF rows

(* Respond with a list.                                                    *)
LEMMA ListRight ==
    ASSUME RequestTyped, Listing, PeersRight, NEW order \in SetToSeqs(Nodes),
           answer' = MirrorList(order), UNCHANGED <<broker, req, got, born, gone>>
    PROVE  MergedRight'
<1>1. Ever' = Ever /\ Always' = Always
  BY EverKept
<1>2. Listed' = Merged(order) /\ answer'.kind = "list"
  BY ListHolds DEF Listed
<1>13. ListSized'
  BY <1>2, ListHolds DEF ListSized
<1>3. /\ Answered' = Answered
      /\ \A row : FactOf(row)' = FactOf(row)
  BY DEF Answered, FactOf
<1>4. \A n, fact : Asks(n, fact)' => Asks(n, fact)
  <2> HIDE DEF Ever
  <2> QED
    BY <1>1 DEF Asks
<1>5. ASSUME NEW row \in Merged(order) PROVE FactOf(row) \in Ever
  <2>1. PICK k \in Keys : row = RowOf(order, k, Kept(k))
    BY DEF Merged
  <2> QED
    BY <2>1, RowRight
<1>6. ASSUME NEW n \in Answered, NEW item \in Items(n),
             req.op \in {"clients", "retained"} => item.key[1] \in req.arg
      PROVE  \E row \in Merged(order) :
                /\ row.key = item.key
                /\ req.op = "sessions" /\ item.online => row.online
  <2> DEFINE k == item.key
             row == RowOf(order, k, Kept(k))
  <2>1. k \in Keys
    BY DEF Keys
  <2>2. item.online => ReportsOnline(k) # {}
    BY DEF ReportsOnline
  <2>3. row.key = k /\ (req.op = "sessions" /\ ReportsOnline(k) # {} => row.online)
    <3> HIDE DEF row, k
    <3>1. row = RowOf(order, k, Kept(k))
      BY DEF row
    <3> QED
      BY <2>1, <3>1, RowRight
  <2>4. row \in Merged(order)
    <3>1. row.key[1] = item.key[1]
      BY <2>3
    <3> QED
      BY <1>6, <2>1, <3>1 DEF Merged
  <2> HIDE DEF row
  <2> QED
    BY <2>2, <2>3, <2>4
<1>7. ASSUME NEW n \in Answered, got[n].whole
      PROVE  /\ \A fact \in Always : Asks(n, fact) =>
                    \E item \in Items(n) : item.key = fact[3]
             /\ req.op = "sessions" /\ req.arg # "false" =>
                  \A c \in Clients : <<"client", n, <<c>>>> \in Always =>
                      \E item \in Items(n) : item.key = <<c>> /\ item.online
  <2>1. ItemsRight(n)
    BY DEF PeersRight, SaidRight, Answered
  <2> QED
    BY <1>7, <2>1 DEF ItemsRight
<1>8. \A n, fact : Asks(n, fact) => (req.op \in {"clients", "retained"} => fact[3][1] \in req.arg)
  BY DEF Asks
<1>9. \A n : got'[n] = got[n] /\ req' = req
  OBVIOUS
<1> HIDE DEF Ever
<1>10. ListedWhereSeen'
  BY <1>1, <1>2, <1>3, <1>5 DEF ListedWhereSeen
<1>11. NothingMissed'
  <2> SUFFICES ASSUME NEW n \in Answered, got[n].whole, NEW fact \in Always, Asks(n, fact)
               PROVE  \E row \in Merged(order) : row.key = fact[3]
    BY <1>1, <1>2, <1>3, <1>4, <1>9 DEF NothingMissed
  <2>1. PICK item \in Items(n) : item.key = fact[3]
    BY <1>7
  <2> QED
    BY <1>6, <1>8, <2>1
<1>12. OnlineWins'
  <2> SUFFICES ASSUME NEW n \in Answered, got[n].whole, NEW c \in Clients,
                      req.op = "sessions", req.arg # "false", <<"client", n, <<c>>>> \in Always
               PROVE  \E row \in Merged(order) : row.key = <<c>> /\ row.online
    BY <1>1, <1>2, <1>3, <1>9 DEF OnlineWins
  <2>1. PICK item \in Items(n) : item.key = <<c>> /\ item.online
    BY <1>7
  <2> QED
    BY <1>6, <2>1
<1> QED
  BY <1>10, <1>11, <1>12, <1>13 DEF MergedRight

----------------------------------------------------------------------------
(* The lists in every state.                                               *)

(* Before the answer there is no list to judge.                            *)
LEMMA NoListYet ==
    ASSUME answer' = None
    PROVE  MergedRight'
BY DEF MergedRight, ListedWhereSeen, NothingMissed, OnlineWins, ListSized, IsList

(* A peer that is not heard of keeps what it has said.                     *)
LEMMA SaidKept ==
    ASSUME PeersRight, Listing, Ever \subseteq Ever', Always' \subseteq Always, req' = req,
           NEW n \in Nodes, got'[n] = got[n]
    PROVE  SaidRight(n)'
<1>1. /\ SeenRight(n) => SeenRight(n)'
      /\ ItemsRight(n) => ItemsRight(n)'
  BY PeerKept
<1> QED
  BY <1>1 DEF PeersRight, SaidRight

LEMMA AllKept ==
    ASSUME PeersRight, Ever \subseteq Ever', Always' \subseteq Always, req' = req, got' = got
    PROVE  PeersRight'
<1>1. Listing => \A n \in Nodes : SaidRight(n)'
  BY SaidKept
<1> QED
  BY <1>1 DEF PeersRight, SaidRight, Listing

LEMMA OthersKept ==
    ASSUME PeersRight, Ever' = Ever, Always' = Always, req' = req, NEW n \in Nodes,
           \A m \in Nodes \ {n} : got'[m] = got[m], Listing => SaidRight(n)'
    PROVE  PeersRight'
<1>1. Listing => \A m \in Nodes \ {n} : SaidRight(m)'
  BY SaidKept
<1> QED
  BY <1>1 DEF PeersRight, SaidRight, Listing

(* The brokers change: of a request there is, the peers' answers stay      *)
(* right, and without one there are none.                                  *)
LEMMA WorldKeepsLists ==
    ASSUME ListInv, answer = None, UNCHANGED <<req, got, answer>>,
           NEW o, NEW s, NEW r, NEW st, Change(o, s, r, st)
    PROVE  ListInv'
<1>1. CASE req = None
  <2>1. PeersRight'
    BY <1>1 DEF PeersRight, SaidRight, Listing
  <2> QED
    BY <2>1, NoListYet DEF ListInv
<1>2. CASE req # None
  <2>1. Ever \subseteq Ever' /\ Always' \subseteq Always
    BY <1>2, EverGrows
  <2>2. PeersRight'
    BY <2>1, AllKept DEF ListInv
  <2> QED
    BY <2>2, NoListYet DEF ListInv
<1> QED
  BY <1>1, <1>2

(* A peer is heard of, or given up; its node does not change.              *)
LEMMA PeerKeepsLists ==
    ASSUME RestInv, ListInv, NEW n \in Nodes,
           PeerList(n) \/ PeerReadsClients(n) \/ PeerSessions(n) \/ FetchFails(n)
    PROVE  ListInv'
<1>0. TablesTyped /\ RequestTyped /\ PeersRight
  BY DEF RestInv, ListInv
<1>1. /\ req # None /\ got[n].status \in {"waiting", "reading"}
      /\ \A m \in Nodes \ {n} : got'[m] = got[m]
      /\ UNCHANGED <<broker, born, gone>> /\ req' = req /\ answer' = answer
  <2>1. CASE PeerList(n)
    BY <1>0, <2>1 DEF PeerList, Asked, Waiting, Replies, RequestTyped
  <2>2. CASE PeerReadsClients(n)
    BY <1>0, <2>2 DEF PeerReadsClients, Asked, Waiting, Replies, RequestTyped
  <2>3. CASE PeerSessions(n)
    BY <1>0, <2>3 DEF PeerSessions, Reading, Replies, RequestTyped
  <2>4. CASE FetchFails(n)
    BY <1>0, <2>4 DEF FetchFails, RequestTyped
  <2> QED
    BY <2>1, <2>2, <2>3, <2>4
<1>2. answer' = None
  BY <1>0, <1>1 DEF RequestTyped
<1>3. Ever' = Ever /\ Always' = Always
  BY <1>1, EverKept
<1>4. ASSUME Listing PROVE SaidRight(n)'
  <2>1. CASE PeerList(n)
    BY <1>0, <1>4, <2>1, LocalRight DEF SaidRight
  <2>2. CASE PeerReadsClients(n)
    BY <1>0, <1>4, <2>2, SeenIsRight DEF SaidRight
  <2>3. CASE PeerSessions(n)
    <3>1. SeenRight(n)
      BY <1>0, <1>4, <2>3 DEF PeerSessions, Reading, PeersRight, SaidRight
    <3> QED
      BY <1>0, <1>4, <2>3, <3>1, SessionsRight DEF SaidRight
  <2>4. CASE FetchFails(n)
    <3>1. got' = [got EXCEPT ![n] = Error]
      BY <2>4 DEF FetchFails
    <3>2. got'[n] = Error
      BY <1>0, <3>1 DEF RequestTyped
    <3> QED
      BY <3>2 DEF Error, SaidRight
  <2> QED
    BY <2>1, <2>2, <2>3, <2>4
<1>5. PeersRight'
  BY <1>0, <1>1, <1>3, <1>4, OthersKept
<1> QED
  BY <1>2, <1>5, NoListYet DEF ListInv

(* The steps of the other requests.                                        *)
LEMMA NotAList ==
    ASSUME RestInv, NEW n \in Nodes,
           PeerTree(n) \/ PeerDelete(n) \/ PeerClearSession(n) \/ LateDelete(n)
    PROVE  ListInv'
<1>0. RequestTyped /\ ActsReported
  BY DEF RestInv
<1>1. ~Listing /\ req' = req /\ answer' = None
  <2>1. CASE PeerTree(n)
    BY <2>1 DEF PeerTree, Asked, Replies, Listing, Lists
  <2>2. CASE PeerDelete(n)
    BY <2>2 DEF PeerDelete, Asked, Replies, Listing, Lists
  <2>3. CASE PeerClearSession(n)
    <3>1. req.op = "clearSession" /\ got[n].status = "reading" /\ req' = req /\ answer' = answer
      BY <2>3 DEF PeerClearSession, Reading, Replies
    <3> QED
      BY <1>0, <3>1 DEF RequestTyped, Listing, Lists
  <2>4. CASE LateDelete(n)
    BY <1>0, <2>4 DEF LateDelete, ActsReported, Deleting, Deletes, Listing, Lists
  <2> QED
    BY <2>1, <2>2, <2>3, <2>4
<1>2. PeersRight'
  BY <1>1 DEF PeersRight, SaidRight, Listing
<1> QED
  BY <1>1, <1>2, NoListYet DEF ListInv

LEMMA MirrorKeepsLists ==
    ASSUME RestInv, ListInv,
           \/ \E r \in ListRequests \cup DeleteRequests : Start(r)
           \/ Respond
           \/ Return
    PROVE  ListInv'
<1>0. RequestTyped /\ PeersRight
  BY DEF RestInv, ListInv
<1>1. ASSUME NEW r, Start(r) PROVE ListInv'
  <2>1. answer' = None /\ \A n \in Nodes : got'[n] = Waiting
    BY <1>0, <1>1 DEF Start, RequestTyped
  <2>2. PeersRight'
    BY <2>1 DEF PeersRight, SaidRight, Waiting
  <2> QED
    BY <2>1, <2>2, NoListYet DEF ListInv
<1>2. ASSUME Respond PROVE ListInv'
  <2>1. req # None /\ UNCHANGED <<broker, req, got, born, gone>>
    BY <1>2 DEF Respond
  <2>2. PICK order \in SetToSeqs(Nodes) :
          answer' = CASE req.op \in Lists   -> MirrorList(order)
                      [] req.op = "topics"  -> MirrorTree(order)
                      [] req.op \in Deletes -> BroadcastDelete
    BY <1>2 DEF Respond
  <2>3. PeersRight'
    <3>1. Ever' = Ever /\ Always' = Always
      BY <2>1, EverKept
    <3> QED
      BY <1>0, <2>1, <3>1, AllKept
  <2>4. CASE req.op \in Lists
    <3>1. answer' = MirrorList(order)
      BY <2>2, <2>4 DEF Lists, Deletes
    <3>2. MergedRight'
      BY <1>0, <2>1, <2>4, <3>1, ListRight DEF Listing
    <3> QED
      BY <2>3, <3>2 DEF ListInv
  <2>5. CASE req.op \notin Lists
    <3>1. req.op \in {"topics"} \cup Deletes
      <4>1. req \in ListRequests \cup DeleteRequests
        BY <1>0, <2>1 DEF RequestTyped
      <4> QED
        BY <2>5, <4>1 DEF ListRequests, DeleteRequests, UnsubscribeClient, ClearRetained,
                    ClearSession, Lists, Deletes
    <3>2. answer' = MirrorTree(order) \/ answer' = BroadcastDelete
      BY <2>2, <3>1 DEF Lists, Deletes
    <3>3. MirrorTree(order).kind = "tree" /\ BroadcastDelete.kind = "code"
      BY DEF MirrorTree, BroadcastDelete
    <3>4. ~IsList'
      BY <3>2, <3>3 DEF IsList
    <3> QED
      BY <2>3, <3>4 DEF ListInv, MergedRight, ListedWhereSeen, NothingMissed,
                          OnlineWins, ListSized
  <2> QED
    BY <2>4, <2>5
<1>3. ASSUME Return PROVE ListInv'
  <2>1. answer' = None /\ PeersRight'
    BY <1>3 DEF Return, PeersRight, SaidRight, Listing
  <2> QED
    BY <2>1, NoListYet DEF ListInv
<1> QED
  BY <1>1, <1>2, <1>3

(* What each peer has answered to a list request is right, and so is what  *)
(* the mirror makes of it.                                                 *)
THEOREM ListsKept == Spec => []ListInv
<1>1. Init => ListInv
  <2> SUFFICES ASSUME Init PROVE ListInv
    OBVIOUS
  <2>1. req = None /\ answer = None
    BY DEF Init
  <2> QED
    BY <2>1 DEF ListInv, PeersRight, Listing, MergedRight, ListedWhereSeen, NothingMissed,
                OnlineWins, ListSized, IsList
<1>2. RestInv /\ ListInv /\ [Next]_vars => ListInv'
  <2> SUFFICES ASSUME RestInv, ListInv, [Next]_vars PROVE ListInv'
    OBVIOUS
  <2>0. TablesTyped
    BY DEF RestInv
  <2>1. CASE BrokerStep
    BY <2>0, <2>1, BrokerTables, WorldKeepsLists
  <2>2. CASE \/ \E r \in ListRequests \cup DeleteRequests : Start(r)
             \/ Respond
             \/ Return
    BY <2>2, MirrorKeepsLists
  <2>3. ASSUME NEW n \in Nodes, OtherDelete(n) PROVE ListInv'
    BY <2>0, <2>3, OtherExecuted, WorldKeepsLists
  <2>4. ASSUME NEW n \in Nodes, PeerStep(n) PROVE ListInv'
    BY <2>3, <2>4, PeerKeepsLists, NotAList DEF PeerStep
  <2>5. ASSUME NEW n \in Nodes, FetchFails(n) PROVE ListInv'
    BY <2>5, PeerKeepsLists
  <2>6. CASE UNCHANGED vars
    <3>1. /\ UNCHANGED <<broker, born, gone>> /\ req' = req /\ got' = got
          /\ answer' = answer
      BY <2>6 DEF vars
    <3>2. Ever' = Ever /\ Always' = Always
      BY <3>1, EverKept
    <3>3. PeersRight'
      BY <3>1, <3>2, AllKept DEF ListInv
    <3>4. /\ Listed' = Listed /\ IsList' = IsList /\ Answered' = Answered
          /\ \A row : FactOf(row)' = FactOf(row)
      BY <3>1 DEF Listed, IsList, Answered, FactOf
    <3>5. \A n, fact : Asks(n, fact)' = Asks(n, fact)
      BY <3>1, <3>2 DEF Asks
    <3>6. ListedWhereSeen'
      BY <3>2, <3>4 DEF ListedWhereSeen, ListInv, MergedRight
    <3>7. NothingMissed'
      BY <3>1, <3>2, <3>4, <3>5 DEF NothingMissed, ListInv, MergedRight
    <3>8. OnlineWins'
      BY <3>1, <3>2, <3>4 DEF OnlineWins, ListInv, MergedRight
    <3>9. ListSized'
      BY <3>1, <3>4 DEF ListSized, ListInv, MergedRight
    <3> QED
      BY <3>3, <3>6, <3>7, <3>8, <3>9 DEF ListInv, MergedRight
  <2> QED
    BY <2>1, <2>2, <2>4, <2>5, <2>6 DEF Next
<1> QED
  BY <1>1, <1>2, RestKept, PTL DEF Spec

(* Each row of a merged list was true of the node it names at some moment  *)
(* of the request: for any number of nodes, clients and filters, whoever   *)
(* fails and whatever moves between the answers.                           *)
THEOREM RowsWereThere == Spec => []ListedWhereSeen
<1>1. ListInv => ListedWhereSeen
  BY DEF ListInv, MergedRight
<1> QED
  BY <1>1, ListsKept, PTL

(* What matched the request on an answering peer all the time is in the    *)
(* merged list: sorting, the peer's page, the merge and the second filter  *)
(* lose none of it.                                                        *)
THEOREM NothingIsMissed == Spec => []NothingMissed
<1>1. ListInv => NothingMissed
  BY DEF ListInv, MergedRight
<1> QED
  BY <1>1, ListsKept, PTL

(* listSessions shows a client online that an answering peer had all the   *)
(* time, in whatever order the members are merged.                         *)
THEOREM OnlineRecordWins == Spec => []OnlineWins
<1>1. ListInv => OnlineWins
  BY DEF ListInv, MergedRight
<1> QED
  BY <1>1, ListsKept, PTL

----------------------------------------------------------------------------
(* Pages: re-cutting a merged list loses no row and repeats none.         *)

(* Induction up to n, for a property given by the set of those who have it.*)
LEMMA UpTo ==
    ASSUME NEW n \in Nat, NEW S, 0 \in S,
           \A k \in 1..n : k - 1 \in S => k \in S
    PROVE  0..n \subseteq S
<1> DEFINE T == {k \in 0..n : k \notin S}
<1> SUFFICES ASSUME T # {} PROVE FALSE
  OBVIOUS
<1>1. PICK x \in T : \A y \in T : x <= y
  <2>1. T \in SUBSET Nat
    OBVIOUS
  <2> HIDE DEF T
  <2> QED
    BY <2>1, LeastNat
<1>2. x \in 1..n /\ x - 1 \in 0..n /\ ~ (x <= x - 1)
  BY <1>1
<1> QED
  BY <1>1, <1>2

(* Two neighbouring pieces of a sequence, put together.                    *)
LEMMA Pieces ==
    ASSUME NEW S, NEW s \in Seq(S), NEW b \in 0..Len(s), NEW a \in 0..b
    PROVE  SubSeq(s, 1, b) = SubSeq(s, 1, a) \o SubSeq(s, a + 1, b)
<1> DEFINE x == SubSeq(s, 1, a)
           y == SubSeq(s, a + 1, b)
           z == SubSeq(s, 1, b)
<1>0. Len(s) \in Nat /\ a \in Nat /\ b \in Nat /\ \A i \in 1..Len(s) : s[i] \in S
  OBVIOUS
<1>1. x \in Seq(S) /\ Len(x) = a /\ \A i \in 1..a : x[i] = s[i]
  BY <1>0
<1>2. y \in Seq(S) /\ Len(y) = b - a /\ \A i \in 1..(b - a) : y[i] = s[a + i]
  BY <1>0
<1>3. z \in Seq(S) /\ Len(z) = b /\ \A i \in 1..b : z[i] = s[i]
  BY <1>0
<1> HIDE DEF x, y, z
<1>4. /\ x \o y \in Seq(S) /\ Len(x \o y) = b
      /\ \A i \in 1..b : (x \o y)[i] = IF i <= a THEN x[i] ELSE y[i - a]
  <2>1. /\ x \o y \in Seq(S) /\ Len(x \o y) = Len(x) + Len(y)
        /\ \A i \in 1..(Len(x) + Len(y)) :
              (x \o y)[i] = IF i <= Len(x) THEN x[i] ELSE y[i - Len(x)]
    BY <1>1, <1>2, ConcatProperties
  <2>2. Len(x) = a /\ Len(x) + Len(y) = b
    BY <1>0, <1>1, <1>2
  <2> QED
    BY <2>1, <2>2
<1>5. ASSUME NEW i \in 1..b PROVE (x \o y)[i] = z[i]
  <2>1. CASE i <= a
    <3>1. i \in 1..a
      BY <1>0, <2>1
    <3> QED
      BY <1>1, <1>3, <1>4, <2>1, <3>1
  <2>2. CASE ~(i <= a)
    <3>1. i - a \in 1..(b - a) /\ a + (i - a) = i
      BY <1>0, <2>2
    <3>2. y[i - a] = s[i]
      BY <1>2, <3>1
    <3> QED
      BY <1>3, <1>4, <2>2, <3>2
  <2> QED
    BY <2>1, <2>2
<1> DEFINE w == x \o y
<1> HIDE DEF w
<1>6. w \in Seq(S) /\ Len(w) = Len(z) /\ \A i \in 1..Len(z) : w[i] = z[i]
  BY <1>3, <1>4, <1>5 DEF w
<1>7. w = z
  BY <1>3, <1>6
<1> QED
  BY <1>7 DEF w, x, y, z

(* The pieces that FlattenSeq puts together, up to each of them.           *)
Flat(f, g) == g = [i \in 1..Len(f) |-> IF i = 1 THEN f[i] ELSE g[i - 1] \o f[i]]

(* f has the pieces of s, of which piece i ends at cut[i].                 *)
CutInto(s, f, cut) ==
    /\ cut[0] = 0 /\ cut[Len(f)] = Len(s)
    /\ \A i \in 0..Len(f) : cut[i] \in 0..Len(s)
    /\ \A i \in 1..Len(f) :
        cut[i - 1] <= cut[i] /\ f[i] = SubSeq(s, cut[i - 1] + 1, cut[i])

(* A sequence cut into pieces: FlattenSeq puts it together again.          *)
LEMMA PiecesFlatten ==
    ASSUME NEW S, NEW s \in Seq(S), NEW T, NEW f \in Seq(T), NEW cut,
           CutInto(s, f, cut)
    PROVE  FlattenSeq(f) = s
<1> DEFINE k == Len(f)
           up == [i \in 1..k |-> SubSeq(s, 1, cut[i])]
<1>0. /\ k \in Nat /\ cut[0] = 0 /\ cut[k] = Len(s)
      /\ \A i \in 0..k : cut[i] \in 0..Len(s)
      /\ \A i \in 1..k : cut[i - 1] <= cut[i]
      /\ \A i \in 1..k : f[i] = SubSeq(s, cut[i - 1] + 1, cut[i])
  BY DEF CutInto
<1>1. SubSeq(s, 1, Len(s)) = s
  OBVIOUS
<1>2. CASE k = 0
  <2>1. Len(f) = 0 /\ Len(s) = 0
    BY <1>0, <1>2
  <2>2. f = <<>> /\ s = <<>>
    BY <2>1
  <2> QED
    BY <2>2 DEF FlattenSeq
<1>3. CASE k # 0
  <2>1. \A i \in 1..k : up[i] = SubSeq(s, 1, cut[i])
    OBVIOUS
  <2>2. up = [i \in 1..k |-> up[i]]
    OBVIOUS
  <2> HIDE DEF up, k
  <2>3. ASSUME NEW i \in 2..k PROVE up[i] = up[i - 1] \o f[i]
    <3>1. i \in 1..k /\ i - 1 \in 1..k /\ i \in 0..k /\ i - 1 \in 0..k
      BY <1>0
    <3>2. cut[i] \in 0..Len(s) /\ cut[i - 1] \in 0..cut[i]
      BY <1>0, <3>1
    <3>3. SubSeq(s, 1, cut[i]) = SubSeq(s, 1, cut[i - 1]) \o SubSeq(s, cut[i - 1] + 1, cut[i])
      BY <3>2, Pieces
    <3>4. f[i] = SubSeq(s, cut[i - 1] + 1, cut[i])
      BY <1>0, <3>1
    <3> QED
      BY <2>1, <3>1, <3>3, <3>4
  <2>4. up[1] = f[1]
    <3>1. 1 \in 1..k /\ 1 - 1 = 0 /\ 0 + 1 = 1
      BY <1>0, <1>3
    <3>2. f[1] = SubSeq(s, cut[1 - 1] + 1, cut[1])
      BY <1>0, <3>1
    <3> QED
      BY <1>0, <2>1, <3>1, <3>2
  <2>5. up[k] = s
    <3>1. k \in 1..k
      BY <1>0, <1>3
    <3>2. up[k] = SubSeq(s, 1, cut[k])
      BY <2>1, <3>1
    <3> QED
      BY <1>0, <1>1, <3>2
  <2>6. up = [i \in 1..k |-> IF i = 1 THEN f[i] ELSE up[i - 1] \o f[i]]
    <3>1. \A i \in 1..k : i # 1 => i \in 2..k
      BY <1>0
    <3>2. \A i \in 1..k : up[i] = IF i = 1 THEN f[i] ELSE up[i - 1] \o f[i]
      BY <2>3, <2>4, <3>1
    <3> QED
      BY <2>2, <3>2
  <2>7. Flat(f, up)
    BY <2>6 DEF Flat, k
  <2> DEFINE g == CHOOSE g : Flat(f, g)
  <2>8. Flat(f, g)
    BY <2>7
  <2>9. FlattenSeq(f) = g[k]
    BY <1>3 DEF FlattenSeq, Flat, k
  <2> HIDE DEF g
  <2>10. g = [i \in 1..k |-> IF i = 1 THEN f[i] ELSE g[i - 1] \o f[i]]
    BY <2>8 DEF Flat, k
  <2> DEFINE E == {0} \cup {i \in 1..k : g[i] = up[i]}
  <2>11. ASSUME NEW i \in 1..k, i - 1 \in E PROVE i \in E
    <3>1. CASE i = 1
      BY <2>4, <2>10, <3>1
    <3>2. CASE i # 1
      <4>1. i \in 2..k /\ g[i - 1] = up[i - 1]
        BY <1>0, <2>11, <3>2
      <4>2. g[i] = g[i - 1] \o f[i]
        BY <2>10, <3>2
      <4> QED
        BY <2>3, <4>1, <4>2
    <3> QED
      BY <3>1, <3>2
  <2>12. k \in E
    <3>1. 0 \in E
      OBVIOUS
    <3> HIDE DEF E
    <3>2. 0..k \subseteq E
      BY <1>0, <2>11, <3>1, UpTo
    <3> QED
      BY <1>0, <3>2
  <2> QED
    BY <1>0, <1>3, <2>5, <2>9, <2>12
<1> QED
  BY <1>2, <1>3

(* How many pages there are.                                               *)
LEMMA PagesEnough ==
    ASSUME NEW n \in Nat, NEW size \in Nat \ {0}
    PROVE  LET pages == (n + size - 1) \div size
           IN  /\ pages \in Nat /\ n <= pages * size
               /\ pages * size < n + size
<1> DEFINE m == n + size - 1
           q == m \div size
<1>1. m \in Nat
  OBVIOUS
<1> HIDE DEF m
<1>2. q \in Nat /\ q * size <= m /\ m < q * size + size
  BY <1>1
<1>3. q * size \in Nat
  BY <1>2
<1> DEFINE z == q * size
<1>4. z \in Nat /\ z <= m /\ m < z + size
  BY <1>2, <1>3
<1> HIDE DEF z
<1>5. n <= z /\ z < n + size
  BY <1>4 DEF m
<1> QED
  BY <1>2, <1>5 DEF z, m

(* Page numbers in the order of what page * size makes of them.           *)
LEMMA Monotone ==
    ASSUME NEW a \in Nat, NEW b \in Nat, NEW c \in Nat, a <= b
    PROVE  a * c <= b * c
OBVIOUS

(* A page ends size rows after the one before it.                         *)
LEMMA NextPage ==
    ASSUME NEW i \in Nat \ {0}, NEW c \in Nat
    PROVE  (i - 1) * c \in Nat /\ i * c = (i - 1) * c + c
<1> DEFINE j == i - 1
<1>1. j \in Nat /\ i = j + 1
  OBVIOUS
<1> HIDE DEF j
<1>2. j * c \in Nat /\ (j + 1) * c = j * c + c
  BY <1>1
<1> QED
  BY <1>1, <1>2 DEF j

(* Page numbers up to the one for which page * size is no int any more.    *)
LEMMA IntPages ==
    ASSUME NEW size \in Nat \ {0}, NEW m \in Nat, NEW i \in 1..(m \div size)
    PROVE  i * size <= m
<1> DEFINE q == m \div size
<1>1. q \in Nat /\ q * size <= m
  OBVIOUS
<1> HIDE DEF q
<1>2. i \in Nat /\ i <= q
  BY <1>1 DEF q
<1>3. i * size <= q * size /\ i * size \in Nat /\ q * size \in Nat
  BY <1>1, <1>2, Monotone
<1> DEFINE a == i * size
           b == q * size
<1>4. a <= b /\ a \in Nat /\ b \in Nat /\ b <= m
  BY <1>1, <1>3
<1> HIDE DEF a, b
<1>5. a <= m
  BY <1>4
<1> QED
  BY <1>5 DEF a

(* The number of whole pages is a number of pages.                        *)
LEMMA DivNat ==
    ASSUME NEW a \in Nat, NEW b \in Nat \ {0}
    PROVE  a \div b \in Nat
OBVIOUS

(* Where page i of a list of n rows ends.                                  *)
CutAt(i, size, n) == IF i * size > n THEN n ELSE i * size

(* The ends of the pages rise from 0 to n; the last page ends the list.   *)
LEMMA PageEnds ==
    ASSUME NEW n \in Nat, NEW size \in Nat \ {0}, NEW k,
           k = (n + size - 1) \div size
    PROVE  /\ k \in Nat
           /\ CutAt(0, size, n) = 0 /\ CutAt(k, size, n) = n
           /\ \A i \in 0..k : CutAt(i, size, n) \in 0..n
           /\ \A i \in 1..k : /\ CutAt(i - 1, size, n) <= CutAt(i, size, n)
                             /\ (i - 1) * size < n
           /\ \A i \in Nat : i > k => n <= (i - 1) * size
<1>1. k \in Nat /\ n <= k * size /\ k * size < n + size
  BY PagesEnough
<1>2. \A i \in Nat : i * size \in Nat
  BY Monotone
<1>3. \A i \in Nat : CutAt(i, size, n) \in 0..n
  BY <1>2 DEF CutAt
<1>4. CutAt(0, size, n) = 0
  <2>1. 0 * size = 0
    OBVIOUS
  <2> QED
    BY <2>1 DEF CutAt
<1>5. CutAt(k, size, n) = n
  <2> DEFINE d == k * size
  <2>1. d \in Nat /\ n <= d
    BY <1>1, <1>2
  <2>2. CutAt(k, size, n) = IF d > n THEN n ELSE d
    BY DEF CutAt
  <2> HIDE DEF d
  <2> QED
    BY <2>1, <2>2
<1>6. ASSUME NEW i \in 1..k
      PROVE  CutAt(i - 1, size, n) <= CutAt(i, size, n) /\ (i - 1) * size < n
  <2> DEFINE a == (i - 1) * size
             b == i * size
             c == (k - 1) * size
             d == k * size
  <2>1. /\ a \in Nat /\ b = a + size
        /\ c \in Nat /\ d = c + size
    <3>1. i \in Nat \ {0} /\ k \in Nat \ {0} /\ size \in Nat
      BY <1>1
    <3> QED
      BY <3>1, NextPage
  <2>2. a <= c
    <3> DEFINE j == i - 1
               m == k - 1
    <3>1. j \in Nat /\ m \in Nat /\ j <= m /\ size \in Nat
      BY <1>1
    <3> HIDE DEF j, m
    <3>2. j * size <= m * size
      BY <3>1, Monotone
    <3> QED
      BY <3>2 DEF j, m
  <2>3. d < n + size
    BY <1>1
  <2>4. /\ CutAt(i - 1, size, n) = IF a > n THEN n ELSE a
        /\ CutAt(i, size, n) = IF b > n THEN n ELSE b
    BY DEF CutAt
  <2> HIDE DEF a, b, c, d
  <2>5. a < n /\ CutAt(i - 1, size, n) <= CutAt(i, size, n)
    BY <2>1, <2>2, <2>3, <2>4
  <2> QED
    BY <2>5 DEF a
<1>7. ASSUME NEW i \in Nat, i > k PROVE n <= (i - 1) * size
  <2> DEFINE j == i - 1
             d == k * size
             e == j * size
  <2>1. j \in Nat /\ k <= j /\ size \in Nat
    BY <1>1, <1>7
  <2> HIDE DEF j
  <2>2. d <= e /\ d \in Nat /\ e \in Nat /\ n <= d
    BY <1>1, <1>2, <2>1, Monotone
  <2> HIDE DEF d, e
  <2>3. n <= e
    BY <2>2
  <2> QED
    BY <2>3 DEF e, j
<1> QED
  BY <1>1, <1>3, <1>4, <1>5, <1>6, <1>7

(* What a page number and a page size of the mirror cut out of a list.     *)
LEMMA OnePage ==
    ASSUME NEW S, NEW items \in Seq(S), NEW size \in 1..MaxPageSize,
           Len(items) + MaxPageSize <= IntHalf,
           NEW i \in Nat \ {0}, i * size < IntHalf \/ (i - 1) * size < Len(items)
    PROVE  LET page == ApplyPagination(items, ParsePage(i, size))
           IN  IF Len(items) <= (i - 1) * size THEN page = <<>>
               ELSE page = SubSeq(items, (i - 1) * size + 1, CutAt(i, size, Len(items)))
<1> DEFINE p == ParsePage(i, size)
           a == (i - 1) * size
           b == i * size
           n == Len(items)
           last == IF b > n THEN n ELSE b
<1>0. n \in Nat /\ IntHalf \in Nat /\ MaxPageSize \in 1..(IntHalf - 1) /\ size \in Nat
  BY ClusterRestAssumption
<1>1. p.page = i /\ p.size = size
  <2>1. ~ (i < 1) /\ ~ (size < 1) /\ ~ (size > MaxPageSize)
    BY <1>0
  <2> QED
    BY <2>1 DEF ParsePage
<1>2. a \in Nat /\ b = a + size
  <2>1. i - 1 \in Nat /\ i = (i - 1) + 1
    OBVIOUS
  <2> DEFINE j == i - 1
  <2>2. j \in Nat /\ i = j + 1
    BY <2>1
  <2> HIDE DEF j
  <2>3. j * size \in Nat /\ (j + 1) * size = j * size + size
    BY <1>0, <2>2
  <2> QED
    BY <2>2, <2>3 DEF j
<1>3. b < IntHalf \/ a < n
  OBVIOUS
<1> DEFINE page == ApplyPagination(items, p)
<1>4. page = LET start == Wrap(a)
                 end   == Wrap(start + size)
                 z     == IF end > n THEN n ELSE end
             IN IF start >= n THEN <<>>
                ELSE IF start < 0 \/ z < start THEN None
                ELSE SubSeq(items, start + 1, z)
  BY <1>1 DEF ApplyPagination
<1>5. CutAt(i, size, n) = last
  BY DEF CutAt
<1> SUFFICES IF n <= a THEN page = <<>> ELSE page = SubSeq(items, a + 1, last)
  BY <1>5
<1> HIDE DEF a, b, p, page
<1>6. b < IntHalf /\ a < IntHalf
  BY <1>0, <1>2, <1>3
<1>7. Wrap(a) = a /\ Wrap(a + size) = b
  BY <1>0, <1>2, <1>6, NoWrap
<1>8. page = IF a >= n THEN <<>>
             ELSE IF a < 0 \/ last < a THEN None
             ELSE SubSeq(items, a + 1, last)
  BY <1>4, <1>7
<1> HIDE DEF n
<1> QED
  BY <1>0, <1>2, <1>8

(* A page number up to which page * size is an int, or a page there is.    *)
LEMMA PageIs ==
    ASSUME NEW S, NEW items \in Seq(S), Len(items) + MaxPageSize <= IntHalf,
           NEW size \in 1..MaxPageSize, NEW k, k = (Len(items) + size - 1) \div size,
           NEW i, i \in 1..k \/ i \in 1..((IntHalf - 1) \div size),
           NEW page, page = ApplyPagination(items, ParsePage(i, size))
    PROVE  /\ i > k => page = <<>>
           /\ i \in 1..k =>
                page = SubSeq(items, CutAt(i - 1, size, Len(items)) + 1,
                              CutAt(i, size, Len(items)))
           /\ page \in Seq(S)
<1> DEFINE n == Len(items)
           a == (i - 1) * size
           cut(j) == CutAt(j, size, n)
<1>0. /\ n \in Nat /\ size \in Nat \ {0} /\ IntHalf \in Nat /\ IntHalf - 1 \in Nat
      /\ k = (n + size - 1) \div size /\ \A j \in 1..n : items[j] \in S
  BY ClusterRestAssumption
<1>1. /\ k \in Nat
      /\ \A j \in 0..k : cut(j) \in 0..n
      /\ \A j \in 1..k : (j - 1) * size < n
      /\ \A j \in Nat : j > k => n <= (j - 1) * size
  <2> HIDE DEF n
  <2> QED
    BY <1>0, PageEnds
<1>2. i \in Nat \ {0}
  <2> DEFINE m == IntHalf - 1
             q == m \div size
  <2>1. m \in Nat
    BY <1>0
  <2> HIDE DEF m
  <2>2. q \in Nat
    BY <1>0, <2>1, DivNat
  <2>3. i \in 1..k \/ i \in 1..q
    BY DEF m
  <2> HIDE DEF q
  <2> QED
    BY <1>1, <2>2, <2>3
<1>3. a < n \/ i * size < IntHalf
  <2>1. CASE i \in 1..k
    BY <1>1, <2>1
  <2>2. CASE i \in 1..((IntHalf - 1) \div size)
    <3>1. i * size <= IntHalf - 1
      BY <1>0, <2>2, IntPages
    <3>2. i * size \in Nat
      BY <1>0, <1>2, NextPage
    <3> DEFINE b == i * size
    <3> HIDE DEF b
    <3>3. b \in Nat /\ b <= IntHalf - 1
      BY <3>1, <3>2 DEF b
    <3>4. b < IntHalf
      BY <1>0, <3>3
    <3> QED
      BY <3>4 DEF b
  <2> QED
    BY <2>1, <2>2
<1>4. IF n <= a THEN page = <<>> ELSE page = SubSeq(items, a + 1, cut(i))
  BY <1>2, <1>3, OnePage
<1>5. a \in Nat
  BY <1>0, <1>2, NextPage
<1>6. CASE i > k
  <2>1. n <= a
    BY <1>1, <1>2, <1>6
  <2>2. page = <<>>
    BY <1>4, <2>1
  <2>3. i \notin 1..k /\ <<>> \in Seq(S)
    BY <1>1, <1>2, <1>6
  <2> QED
    BY <2>2, <2>3
<1>7. CASE i \in 1..k
  <2>1. a < n
    BY <1>1, <1>7
  <2>2. cut(i - 1) = a /\ ~ (n <= a)
    <3>1. cut(i - 1) = IF a > n THEN n ELSE a
      BY DEF CutAt
    <3> HIDE DEF a, cut, n
    <3> QED
      BY <1>0, <1>5, <2>1, <3>1
  <2>3. page = SubSeq(items, a + 1, cut(i))
    BY <1>4, <2>2
  <2>4. cut(i) \in 0..n
    BY <1>1, <1>7
  <2> HIDE DEF a, cut
  <2>5. page \in Seq(S)
    <3>1. \A j \in (a + 1)..cut(i) : items[j] \in S
      BY <1>0, <1>5, <2>4
    <3>2. a + 1 \in Int /\ cut(i) \in Int
      BY <1>5, <2>4
    <3> QED
      BY <2>3, <3>1, <3>2, SubSeqProperties
  <2>6. ~ (i > k)
    BY <1>1, <1>7
  <2>7. page = SubSeq(items, cut(i - 1) + 1, cut(i))
    BY <2>2, <2>3
  <2> QED
    BY <2>5, <2>6, <2>7 DEF cut
<1> QED
  BY <1>1, <1>2, <1>6, <1>7

(* The pages of a merged list partition it, for every list and page size,  *)
(* as far as page * size is an int; no page number panics.                 *)
THEOREM PagesPartitionLists == Spec => []PagesPartition
<1>1. ListInv => PagesPartition
  <2> SUFFICES ASSUME ListInv, IsList, NEW size \in 1..MaxPageSize
               PROVE  LET k == (Len(answer.items) + size - 1) \div size
                      IN  /\ \A i \in 1..((IntHalf - 1) \div size) :
                                /\ Paginate(i, size) \in Seq(Listed)
                                /\ i > k => Paginate(i, size) = <<>>
                          /\ FlattenSeq([i \in 1..k |-> Paginate(i, size)]) = answer.items
    BY DEF PagesPartition
  <2> DEFINE items == answer.items
             n == Len(items)
             k == (n + size - 1) \div size
             last == (IntHalf - 1) \div size
             f == [i \in 1..k |-> Paginate(i, size)]
             cut == [i \in 0..k |-> CutAt(i, size, n)]
  <2>1. items \in Seq(Listed) /\ n + MaxPageSize <= IntHalf
    BY DEF ListInv, MergedRight, ListSized
  <2>2. n \in Nat /\ size \in Nat \ {0}
    BY <2>1, ClusterRestAssumption
  <2>3. ASSUME NEW i, i \in 1..k \/ i \in 1..last
        PROVE  /\ Paginate(i, size) \in Seq(Listed)
               /\ i > k => Paginate(i, size) = <<>>
               /\ i \in 1..k => Paginate(i, size) =
                    SubSeq(items, CutAt(i - 1, size, n) + 1, CutAt(i, size, n))
    <3> DEFINE page == Paginate(i, size)
               m == k
    <3>1. page = ApplyPagination(items, ParsePage(i, size))
      BY DEF Paginate
    <3>2. m = (Len(items) + size - 1) \div size
      OBVIOUS
    <3>3. i \in 1..m \/ i \in 1..((IntHalf - 1) \div size)
      BY <2>3
    <3> HIDE DEF page, m, items, k, last
    <3>4. /\ i > m => page = <<>>
          /\ i \in 1..m => page = SubSeq(items, CutAt(i - 1, size, n) + 1, CutAt(i, size, n))
          /\ page \in Seq(Listed)
      BY <2>1, <3>1, <3>2, <3>3, PageIs
    <3> QED
      BY <3>4 DEF page, m
  <2>4. /\ k \in Nat
        /\ CutAt(0, size, n) = 0 /\ CutAt(k, size, n) = n
        /\ \A i \in 0..k : CutAt(i, size, n) \in 0..n
        /\ \A i \in 1..k : CutAt(i - 1, size, n) <= CutAt(i, size, n)
    <3> HIDE DEF n
    <3> QED
      BY <2>2, PageEnds
  <2> HIDE DEF k, last
  <2>5. \A i \in 1..k : i \in 0..k /\ i - 1 \in 0..k
    BY <2>4
  <2>6. \A i \in 0..k : cut[i] = CutAt(i, size, n)
    OBVIOUS
  <2>7. \A i \in 1..k : f[i] = Paginate(i, size)
    OBVIOUS
  <2>8. f \in Seq(Seq(Listed)) /\ Len(f) = k
    <3>1. f \in [1..k -> Seq(Listed)]
      BY <2>3
    <3> HIDE DEF f
    <3> QED
      BY <2>4, <3>1
  <2> HIDE DEF f, cut, n
  <2>9. /\ cut[0] = 0 /\ cut[k] = n
        /\ \A i \in 0..k : cut[i] \in 0..n
        /\ \A i \in 1..k : cut[i - 1] <= cut[i]
    <3>1. 0 \in 0..k /\ k \in 0..k
      BY <2>4
    <3> QED
      BY <2>4, <2>5, <2>6, <3>1
  <2>10. \A i \in 1..k : f[i] = SubSeq(items, cut[i - 1] + 1, cut[i])
    BY <2>3, <2>5, <2>6, <2>7
  <2>11. CutInto(items, f, cut)
    BY <2>8, <2>9, <2>10 DEF CutInto, n
  <2>12. FlattenSeq(f) = items
    <3> HIDE DEF items
    <3> QED
      BY <2>1, <2>8, <2>11, PiecesFlatten
  <2> QED
    BY <2>3, <2>12, Zenon DEF f, k, last, n
<1> QED
  BY <1>1, ListsKept, PTL

----------------------------------------------------------------------------
(* Topic trees: what a path counts is a number of subscriptions.          *)

(* A request for the topic tree.                                          *)
Mapping == req # None /\ req.op = "topics"

(* The subscriptions there can be, as facts.                               *)
AllSubs == {<<"sub", x[1], x[2]>> : x \in Nodes \X (Clients \X Filters)}

(* Of these facts the subscriptions of node n, of all these nodes, whose   *)
(* filter is path p.                                                       *)
NodeSubs(facts, n, p) ==
    {fact \in facts : fact[1] = "sub" /\ fact[2] = n /\ Path[fact[3][2]] = p}

(* The same for all nodes of a set.                                       *)
NodesSubs(facts, nodes, p) ==
    {fact \in facts : fact[1] = "sub" /\ fact[2] \in nodes /\ Path[fact[3][2]] = p}

(* Between what there was all the time and what there was at some moment.  *)
CountedOn(n) ==
    \A p : /\ Count(got[n].tree, p) \in Nat
           /\ Cardinality(NodeSubs(Always, n, p)) <= Count(got[n].tree, p)
           /\ Count(got[n].tree, p) <= Cardinality(NodeSubs(Ever, n, p))

(* Each tree that a peer has answered counts what was there.              *)
TreesRight == Mapping => \A n \in Nodes : got[n].status = "ok" => CountedOn(n)

(* What has gone during the request was a subscription that can be.       *)
GoneTyped == \A fact \in gone : fact[1] = "sub" => fact \in AllSubs

(* The inductive invariant of the topic tree.                             *)
TreeInv == GoneTyped /\ TreesRight /\ TreeAddsUp

(* There are finitely many of them.                                       *)
LEMMA SubsFinite == IsFiniteSet(AllSubs)
<1> DEFINE S == Nodes \X (Clients \X Filters)
           f == [x \in S |-> <<"sub", x[1], x[2]>>]
<1>1. IsFiniteSet(S)
  <2>1. IsFiniteSet(Nodes) /\ IsFiniteSet(Clients) /\ IsFiniteSet(Filters)
    BY ClusterRestAssumption
  <2>2. IsFiniteSet(Clients \X Filters)
    BY <2>1, FS_Product
  <2> QED
    BY <2>1, <2>2, FS_Product
<1>2. AllSubs = {f[x] : x \in S} /\ f = [x \in S |-> f[x]]
  BY DEF AllSubs
<1> HIDE DEF f, S
<1> QED
  BY <1>1, <1>2, ImageFinite

(* The subscriptions of the brokers are among them.                        *)
LEMMA SubsTyped ==
    ASSUME NEW o, NEW s \in [Nodes -> SUBSET (Clients \X Filters)], NEW r, NEW st
    PROVE  \A fact \in Facts(o, s, r, st) : fact[1] = "sub" => fact \in AllSubs
<1> SUFFICES ASSUME NEW fact \in Facts(o, s, r, st), fact[1] = "sub" PROVE fact \in AllSubs
  OBVIOUS
<1>1. PICK n \in Nodes : \E x \in s[n] : fact = <<"sub", n, x>>
  BY FactKinds
<1>2. PICK x \in s[n] : fact = <<"sub", n, x>>
  BY <1>1
<1>3. x \in Clients \X Filters
  OBVIOUS
<1>4. <<n, x>> \in Nodes \X (Clients \X Filters) /\ fact = <<"sub", <<n, x>>[1], <<n, x>>[2]>>
  BY <1>2, <1>3
<1> QED
  BY <1>4 DEF AllSubs

(* The subscriptions of a state of the brokers are such facts.            *)
LEMMA NowTyped ==
    ASSUME TablesTyped
    PROVE  \A fact \in Now : fact[1] = "sub" => fact \in AllSubs
BY SubsTyped DEF TablesTyped, Now

(* So they can be counted, and fewer of them count less.                   *)
LEMMA SubsCount ==
    ASSUME NEW facts, \A fact \in facts : fact[1] = "sub" => fact \in AllSubs,
           NEW p, NEW nodes, NEW n
    PROVE  /\ IsFiniteSet(NodeSubs(facts, n, p))
           /\ IsFiniteSet(NodesSubs(facts, nodes, p))
           /\ Cardinality(NodeSubs(facts, n, p)) \in Nat
           /\ Cardinality(NodesSubs(facts, nodes, p)) \in Nat
<1>1. NodeSubs(facts, n, p) \subseteq AllSubs /\ NodesSubs(facts, nodes, p) \subseteq AllSubs
  BY DEF NodeSubs, NodesSubs
<1>2. IsFiniteSet(NodeSubs(facts, n, p)) /\ IsFiniteSet(NodesSubs(facts, nodes, p))
  BY <1>1, SubsFinite, FS_Subset
<1> QED
  BY <1>2, FS_CardinalityType

(* A larger set of facts counts at least as many subscriptions.           *)
LEMMA FewerSubs ==
    ASSUME NEW facts, \A fact \in facts : fact[1] = "sub" => fact \in AllSubs,
           NEW fewer, fewer \subseteq facts, NEW p, NEW n
    PROVE  Cardinality(NodeSubs(fewer, n, p)) <= Cardinality(NodeSubs(facts, n, p))
<1>1. NodeSubs(fewer, n, p) \subseteq NodeSubs(facts, n, p)
  BY DEF NodeSubs
<1>2. IsFiniteSet(NodeSubs(facts, n, p))
  BY SubsCount
<1> QED
  BY <1>1, <1>2, FS_Subset

(* So are those of the whole request.                                     *)
LEMMA EverTyped ==
    ASSUME TablesTyped, GoneTyped
    PROVE  /\ \A fact \in Ever : fact[1] = "sub" => fact \in AllSubs
           /\ \A fact \in Always : fact[1] = "sub" => fact \in AllSubs
           /\ Always \subseteq Now /\ Now \subseteq Ever
BY NowTyped DEF Ever, Always, GoneTyped

(* Node n's tree counts the subscriptions it has, under each path.         *)
LEMMA LocalCounts ==
    ASSUME TablesTyped, NEW n \in Nodes, NEW p
    PROVE  Count(LocalTree(n), p) = Cardinality(NodeSubs(Now, n, p))
<1> DEFINE X == {x \in subs[n] : Path[x[2]] = p}
           tree == LocalTree(n)
           D == {<<>>} \cup UNION {{SubSeq(Path[x[2]], 1, i) : i \in 1..Len(Path[x[2]])} : x \in subs[n]}
           Y == NodeSubs(Now, n, p)
           f == [x \in X |-> <<"sub", n, x>>]
<1>0. subs[n] \subseteq Clients \X Filters
  BY DEF TablesTyped
<1>1. Count(tree, p) = IF p \in D THEN Cardinality(X) ELSE 0
  <2>1. tree = [q \in D |-> Cardinality({x \in subs[n] : Path[x[2]] = q})]
    BY DEF LocalTree
  <2> HIDE DEF D, tree
  <2> QED
    BY <2>1 DEF Count
<1>2. ASSUME NEW x \in X PROVE p \in D
  <2> DEFINE s == Path[x[2]]
  <2>1. x \in subs[n] /\ s = p /\ x[2] \in Filters
    BY <1>0
  <2>2. s \in Seq(Range(s))
    BY <2>1, ClusterRestAssumption
  <2>3. CASE s = <<>>
    BY <2>1, <2>3
  <2>4. CASE s # <<>>
    <3> DEFINE Z == {SubSeq(s, 1, i) : i \in 1..Len(s)}
    <3>1. SubSeq(s, 1, Len(s)) = s /\ Len(s) \in 1..Len(s)
      <4> HIDE DEF s
      <4> QED
        BY <2>2, <2>4
    <3>2. s \in Z
      <4> HIDE DEF s
      <4> QED
        BY <3>1
    <3>3. Z \in {{SubSeq(Path[y[2]], 1, i) : i \in 1..Len(Path[y[2]])} : y \in subs[n]}
      BY <2>1, Zenon
    <3> HIDE DEF Z, s
    <3> QED
      BY <2>1, <3>2, <3>3
  <2> QED
    BY <2>3, <2>4
<1>3. Y = {<<"sub", n, x>> : x \in X}
  <2>1. \A x : <<"sub", n, x>> \in Now <=> x \in subs[n]
    BY FactsSay DEF Now
  <2>2. \A x \in X : <<"sub", n, x>> \in Y
    BY <2>1 DEF NodeSubs
  <2>3. ASSUME NEW y \in Y PROVE \E x \in X : y = <<"sub", n, x>>
    <3>1. y \in Now /\ y[1] = "sub" /\ y[2] = n /\ Path[y[3][2]] = p
      BY DEF NodeSubs
    <3>2. PICK m \in Nodes : \E x \in subs[m] : y = <<"sub", m, x>>
      BY <3>1, FactKinds DEF Now
    <3> QED
      BY <3>1, <3>2
  <2> HIDE DEF X, Y
  <2> QED
    BY <2>2, <2>3
<1>4. IsFiniteSet(Y)
  BY NowTyped, SubsCount
<1>5. f \in Injection(X, Y) /\ f \in Surjection(X, Y)
  <2> HIDE DEF X, Y
  <2> QED
    BY <1>3 DEF Injection, Surjection, IsInjective
<1> HIDE DEF f, X, Y, D
<1>6. Cardinality(X) = Cardinality(Y)
  BY <1>4, <1>5, FS_Injection
<1>7. CASE p \in D
  BY <1>1, <1>6, <1>7 DEF Y
<1>8. CASE p \notin D
  <2>1. X = {}
    BY <1>2, <1>8
  <2>2. Cardinality(X) = 0
    BY <2>1, FS_EmptySet
  <2> QED
    BY <1>1, <1>6, <1>8, <2>2 DEF Y
<1> QED
  BY <1>7, <1>8

(* Two tries merged: the counts are added.                                 *)
LEMMA MergedCounts ==
    ASSUME NEW a, NEW b, NEW p
    PROVE  Count(MergeTopic(a, b), p) =
             IF p \in DOMAIN a \cup DOMAIN b THEN Count(a, p) + Count(b, p) ELSE 0
<1> DEFINE m == MergeTopic(a, b)
<1>1. /\ DOMAIN m = DOMAIN a \cup DOMAIN b
      /\ p \in DOMAIN m => m[p] = Count(a, p) + Count(b, p)
  BY DEF MergeTopic
<1> HIDE DEF m
<1>2. Count(m, p) = IF p \in DOMAIN m THEN m[p] ELSE 0
  BY DEF Count
<1> QED
  BY <1>1, <1>2 DEF m

(* Also at a path that neither of them has.                               *)
LEMMA CountsAdd ==
    ASSUME NEW a, NEW b, NEW p, Count(a, p) \in Nat, Count(b, p) \in Nat
    PROVE  Count(MergeTopic(a, b), p) = Count(a, p) + Count(b, p)
<1>1. CASE p \in DOMAIN a \cup DOMAIN b
  BY <1>1, MergedCounts
<1>2. CASE p \notin DOMAIN a \cup DOMAIN b
  <2>1. Count(a, p) = 0 /\ Count(b, p) = 0
    BY <1>2 DEF Count
  <2> QED
    BY <1>2, <2>1, MergedCounts
<1> QED
  BY <1>1, <1>2

(* One round of topicsTree's loop, and the trie after each round.          *)
Round(tree, n) == IF n \in Answered THEN MergeTopic(tree, got[n].tree) ELSE tree

(* The trie topicsTree begins with.                                       *)
EmptyTree == [p \in {<<>>} |-> 0]

(* m[i] is the trie after i rounds.                                       *)
Rounds(order, k, m) ==
    m = [i \in 0..k |-> IF i = 0 THEN EmptyTree ELSE Round(m[i - 1], order[i])]

(* The loop runs: there is a trie after each round.                       *)
LEMMA RoundsExist ==
    ASSUME NEW order, NEW n \in Nat
    PROVE  \E m : Rounds(order, n, m)
<1> DEFINE S == {k \in 0..n : \E m : Rounds(order, k, m)}
<1>1. 0 \in S
  <2> DEFINE m == [i \in 0..0 |-> EmptyTree]
  <2>1. Rounds(order, 0, m)
    BY DEF Rounds
  <2> HIDE DEF m
  <2> QED
    BY <2>1
<1>2. ASSUME NEW k \in 1..n, k - 1 \in S PROVE k \in S
  <2>1. PICK m : Rounds(order, k - 1, m)
    BY <1>2
  <2> DEFINE g == [j \in 0..k |-> IF j = k THEN Round(m[k - 1], order[k]) ELSE m[j]]
  <2>2. ASSUME NEW j \in 0..k
        PROVE  g[j] = IF j = 0 THEN EmptyTree ELSE Round(g[j - 1], order[j])
    <3>1. CASE j = k
      BY <3>1
    <3>2. CASE j # k
      <4>1. j \in 0..(k - 1)
        BY <3>2
      <4>2. m[j] = IF j = 0 THEN EmptyTree ELSE Round(m[j - 1], order[j])
        BY <2>1, <4>1 DEF Rounds
      <4> QED
        BY <3>2, <4>1, <4>2
    <3> QED
      BY <3>1, <3>2
  <2>3. g = [j \in 0..k |-> g[j]]
    OBVIOUS
  <2> HIDE DEF g
  <2>4. Rounds(order, k, g)
    BY <2>2, <2>3 DEF Rounds
  <2> QED
    BY <2>4
<1>3. n \in 0..n
  OBVIOUS
<1>4. n \in S
  <2> HIDE DEF S
  <2>1. 0..n \subseteq S
    BY <1>1, <1>2, UpTo
  <2> QED
    BY <1>3, <2>1
<1> QED
  BY <1>4

(* The mirror's tree is what the last round leaves.                        *)
LEMMA TreeIsLast ==
    ASSUME NEW order, Len(order) \in Nat
    PROVE  \E m : /\ MirrorTree(order).kind = "tree"
                  /\ MirrorTree(order).tree = m[Len(order)]
                  /\ m[0] = EmptyTree
                  /\ \A i \in 1..Len(order) : m[i] = Round(m[i - 1], order[i])
<1> DEFINE m == CHOOSE m : Rounds(order, Len(order), m)
<1>1. Rounds(order, Len(order), m)
  BY RoundsExist
<1>2. MirrorTree(order).kind = "tree" /\ MirrorTree(order).tree = m[Len(order)]
  BY DEF MirrorTree, Rounds, Round, EmptyTree
<1> HIDE DEF m
<1>3. m[0] = EmptyTree /\ \A i \in 1..Len(order) : m[i] = Round(m[i - 1], order[i])
  BY <1>1 DEF Rounds
<1> QED
  BY <1>2, <1>3

(* The subscriptions of one more node.                                     *)
LEMMA OneMore ==
    ASSUME NEW facts, \A fact \in facts : fact[1] = "sub" => fact \in AllSubs,
           NEW nodes, NEW n, n \notin nodes, NEW more, more = nodes \cup {n}, NEW p
    PROVE  Cardinality(NodesSubs(facts, more, p)) =
             Cardinality(NodesSubs(facts, nodes, p)) + Cardinality(NodeSubs(facts, n, p))
<1> DEFINE A == NodesSubs(facts, nodes, p)
           B == NodeSubs(facts, n, p)
<1>1. NodesSubs(facts, more, p) = A \cup B /\ A \cap B = {}
  BY DEF NodesSubs, NodeSubs
<1>2. IsFiniteSet(A) /\ IsFiniteSet(B) /\ Cardinality(A) \in Nat /\ Cardinality(B) \in Nat
  BY SubsCount
<1> HIDE DEF A, B
<1>3. Cardinality(A \cup B) = Cardinality(A) + Cardinality(B) - Cardinality(A \cap B)
  BY <1>2, FS_Union
<1>4. Cardinality(A \cap B) = 0
  BY <1>1, FS_EmptySet
<1>5. Cardinality(A \cup B) = Cardinality(A) + Cardinality(B)
  BY <1>2, <1>3, <1>4
<1> QED
  BY <1>1, <1>5 DEF A, B

(* The counts after each round lie between what the answering nodes so far *)
(* had all the time and what they had at some moment.                      *)
LEMMA RoundsCount ==
    ASSUME TablesTyped, GoneTyped, TreesRight, Mapping, NEW order \in SetToSeqs(Nodes), NEW p
    PROVE  LET c == Count(MirrorTree(order).tree, p)
           IN  /\ Cardinality(SubFacts(Always, p)) <= c
               /\ c <= Cardinality(SubFacts(Ever, p))
<1> DEFINE k == Len(order)
           B(i) == {n \in Answered : \E j \in 1..i : order[j] = n}
<1>1. /\ k \in Nat /\ \A i \in 1..k : order[i] \in Nodes
      /\ \A i, j \in 1..k : i # j => order[i] # order[j]
      /\ \A n \in Nodes : \E i \in 1..k : order[i] = n
  BY MembersOrder
<1>2. PICK m : /\ MirrorTree(order).tree = m[k]
               /\ m[0] = EmptyTree
               /\ \A i \in 1..k : m[i] = Round(m[i - 1], order[i])
  BY <1>1, TreeIsLast
<1>3. /\ \A fact \in Ever : fact[1] = "sub" => fact \in AllSubs
      /\ \A fact \in Always : fact[1] = "sub" => fact \in AllSubs
  BY EverTyped
<1> HIDE DEF Ever
<1> DEFINE lo(i) == Cardinality(NodesSubs(Always, B(i), p))
           hi(i) == Cardinality(NodesSubs(Ever, B(i), p))
           c(i) == Count(m[i], p)
           S == {i \in 0..k : c(i) \in Nat /\ lo(i) <= c(i) /\ c(i) <= hi(i)}
<1>4. \A i : lo(i) \in Nat /\ hi(i) \in Nat
  <2> HIDE DEF B
  <2> QED
    BY <1>3, SubsCount
<1>5. 0 \in S
  <2>1. B(0) = {}
    OBVIOUS
  <2> HIDE DEF B
  <2>2. NodesSubs(Always, B(0), p) = {} /\ NodesSubs(Ever, B(0), p) = {}
    BY <2>1 DEF NodesSubs
  <2>3. lo(0) = 0 /\ hi(0) = 0
    BY <2>2, FS_EmptySet
  <2>4. c(0) = 0
    BY <1>2 DEF Count, EmptyTree
  <2> HIDE DEF lo, hi, c
  <2> QED
    BY <1>1, <2>3, <2>4
<1>6. ASSUME NEW i \in 1..k, i - 1 \in S PROVE i \in S
  <2> DEFINE n == order[i]
  <2>1. n \in Nodes /\ m[i] = Round(m[i - 1], n)
    BY <1>1, <1>2
  <2>2. \A j \in 1..i : j \in 1..(i - 1) \/ j = i
    BY <1>1
  <2>3. \A j \in 1..(i - 1) : j \in 1..i /\ j \in 1..k /\ j # i
    BY <1>1
  <2>4. i \in 1..i /\ i \in 0..k
    BY <1>1
  <2>5. CASE n \in Answered
    <3>1. B(i) = B(i - 1) \cup {n} /\ n \notin B(i - 1)
      BY <1>1, <2>2, <2>3, <2>4, <2>5
    <3>2. CountedOn(n)
      BY <2>1, <2>5 DEF TreesRight, Answered
    <3> DEFINE t == Count(got[n].tree, p)
               a == Cardinality(NodeSubs(Always, n, p))
               b == Cardinality(NodeSubs(Ever, n, p))
    <3>3. t \in Nat /\ a <= t /\ t <= b
      BY <3>2 DEF CountedOn
    <3>4. a \in Nat /\ b \in Nat
      BY <1>3, SubsCount
    <3>5. lo(i) = lo(i - 1) + a /\ hi(i) = hi(i - 1) + b
      <4> HIDE DEF B, n
      <4> QED
        BY <1>3, <3>1, OneMore
    <3>6. c(i) = c(i - 1) + t
      <4>1. m[i] = MergeTopic(m[i - 1], got[n].tree)
        BY <2>1, <2>5 DEF Round
      <4>2. c(i - 1) \in Nat
        BY <1>6
      <4> QED
        BY <3>3, <4>1, <4>2, CountsAdd
    <3>7. c(i - 1) \in Nat /\ lo(i - 1) <= c(i - 1) /\ c(i - 1) <= hi(i - 1)
      BY <1>6
    <3> HIDE DEF lo, hi, c, t, a, b
    <3> QED
      BY <1>4, <2>4, <3>3, <3>4, <3>5, <3>6, <3>7
  <2>6. CASE n \notin Answered
    <3>1. B(i) = B(i - 1)
      BY <2>2, <2>3, <2>6
    <3>2. m[i] = m[i - 1]
      BY <2>1, <2>6 DEF Round
    <3>3. c(i) = c(i - 1) /\ lo(i) = lo(i - 1) /\ hi(i) = hi(i - 1)
      <4> HIDE DEF B
      <4> QED
        BY <3>1, <3>2
    <3>4. c(i - 1) \in Nat /\ lo(i - 1) <= c(i - 1) /\ c(i - 1) <= hi(i - 1)
      BY <1>6
    <3> HIDE DEF lo, hi, c
    <3> QED
      BY <2>4, <3>3, <3>4
  <2> QED
    BY <2>5, <2>6
<1>7. k \in S
  <2> HIDE DEF S
  <2>1. 0..k \subseteq S
    BY <1>1, <1>5, <1>6, UpTo
  <2> QED
    BY <1>1, <2>1
<1>8. B(k) = Answered
  BY <1>1 DEF Answered
<1>9. /\ SubFacts(Always, p) = NodesSubs(Always, B(k), p)
      /\ SubFacts(Ever, p) = NodesSubs(Ever, B(k), p)
  BY <1>8 DEF SubFacts, NodesSubs
<1> QED
  BY <1>2, <1>7, <1>9

----------------------------------------------------------------------------
(* The trees in every state.                                               *)

(* A step that does not answer answers no tree.                           *)
LEMMA NoTreeYet ==
    ASSUME answer' = None
    PROVE  TreeAddsUp'
BY DEF TreeAddsUp

(* What goes with a change of the brokers was such a subscription.        *)
LEMMA GoneGrows ==
    ASSUME TablesTyped, GoneTyped, NEW o, NEW s, NEW r, NEW st, Change(o, s, r, st)
    PROVE  GoneTyped'
<1>1. gone' = {} \/ gone' = gone \cup (Now \ Facts(o, s, r, st))
  BY DEF Change
<1> QED
  BY <1>1, NowTyped DEF GoneTyped

(* What is right of node n's tree remains right.                           *)
LEMMA CountKept ==
    ASSUME TablesTyped, TablesTyped', GoneTyped, GoneTyped',
           Ever \subseteq Ever', Always' \subseteq Always,
           NEW n, got'[n] = got[n], CountedOn(n)
    PROVE  CountedOn(n)'
<1>1. /\ \A fact \in Ever : fact[1] = "sub" => fact \in AllSubs
      /\ \A fact \in Always : fact[1] = "sub" => fact \in AllSubs
  BY EverTyped
<1>2. /\ \A fact \in Ever' : fact[1] = "sub" => fact \in AllSubs
      /\ \A fact \in Always' : fact[1] = "sub" => fact \in AllSubs
  <2>1. \A fact \in Now' : fact[1] = "sub" => fact \in AllSubs
    BY SubsTyped DEF TablesTyped, Now
  <2> QED
    BY <2>1 DEF Ever, Always, GoneTyped
<1> HIDE DEF Ever
<1> DEFINE t(p) == Count(got[n].tree, p)
<1>3. \A p : Count(got[n].tree, p)' = t(p)
  BY DEF Count
<1>4. ASSUME NEW p
      PROVE  /\ t(p) \in Nat
             /\ Cardinality(NodeSubs(Always', n, p)) <= t(p)
             /\ t(p) <= Cardinality(NodeSubs(Ever', n, p))
  <2> DEFINE a == Cardinality(NodeSubs(Always, n, p))
             b == Cardinality(NodeSubs(Ever, n, p))
             c == Cardinality(NodeSubs(Always', n, p))
             d == Cardinality(NodeSubs(Ever', n, p))
  <2>1. t(p) \in Nat /\ a <= t(p) /\ t(p) <= b
    BY DEF CountedOn
  <2>2. a \in Nat /\ b \in Nat /\ c \in Nat /\ d \in Nat
    BY <1>1, <1>2, SubsCount
  <2>3. c <= a /\ b <= d
    BY <1>1, <1>2, FewerSubs
  <2> HIDE DEF a, b, c, d, t
  <2>4. t(p) \in Nat /\ c <= t(p) /\ t(p) <= d
    BY <2>1, <2>2, <2>3
  <2> QED
    BY <2>4 DEF c, d
<1>5. \A p : /\ NodeSubs(Always, n, p)' = NodeSubs(Always', n, p)
             /\ NodeSubs(Ever, n, p)' = NodeSubs(Ever', n, p)
  BY DEF NodeSubs
<1> HIDE DEF t
<1> QED
  BY <1>3, <1>4, <1>5 DEF CountedOn

(* The brokers change.                                                     *)
LEMMA WorldKeepsTrees ==
    ASSUME TablesTyped, TablesTyped', TreeInv, answer = None,
           UNCHANGED <<req, got, answer>>,
           NEW o, NEW s, NEW r, NEW st, Change(o, s, r, st)
    PROVE  TreeInv'
<1>1. GoneTyped /\ GoneTyped' /\ TreeAddsUp'
  BY GoneGrows, NoTreeYet DEF TreeInv
<1>2. CASE req = None
  BY <1>1, <1>2 DEF TreeInv, TreesRight, Mapping
<1>3. CASE req # None
  <2>1. Ever \subseteq Ever' /\ Always' \subseteq Always
    BY <1>3, EverGrows
  <2>2. ASSUME NEW n, CountedOn(n) PROVE CountedOn(n)'
    BY <1>1, <2>1, <2>2, CountKept
  <2>3. TreesRight'
    BY <2>2 DEF TreeInv, TreesRight, Mapping
  <2> QED
    BY <1>1, <2>3 DEF TreeInv
<1> QED
  BY <1>2, <1>3

(* topicsTree of node n, and a call that is given up.                      *)
LEMMA PeerKeepsTrees ==
    ASSUME TablesTyped, RequestTyped, TreeInv, NEW n \in Nodes, PeerTree(n) \/ FetchFails(n)
    PROVE  TreeInv'
<1>1. /\ answer' = None /\ req' = req /\ UNCHANGED <<broker, born, gone>>
      /\ \A m \in Nodes \ {n} : got'[m] = got[m]
  <2>1. CASE PeerTree(n)
    BY <2>1 DEF PeerTree, Asked, Replies, RequestTyped
  <2>2. CASE FetchFails(n)
    BY <2>2 DEF FetchFails, RequestTyped
  <2> QED
    BY <2>1, <2>2
<1>2. Ever' = Ever /\ Always' = Always
  BY <1>1, EverKept
<1>3. TablesTyped' /\ GoneTyped /\ GoneTyped' /\ TreeAddsUp'
  <2>1. TablesTyped'
    BY <1>1, TablesKept
  <2>2. GoneTyped /\ GoneTyped'
    BY <1>1 DEF TreeInv, GoneTyped
  <2> QED
    BY <1>1, <2>1, <2>2, NoTreeYet
<1>4. ASSUME NEW m \in Nodes \ {n}, CountedOn(m) PROVE CountedOn(m)'
  BY <1>1, <1>2, <1>3, <1>4, CountKept
<1>5. ASSUME got'[n].status = "ok" PROVE CountedOn(n)'
  <2>1. CASE PeerTree(n)
    <3>1. got' = [got EXCEPT ![n] = [status |-> "ok", tree |-> LocalTree(n)]]
      BY <2>1 DEF PeerTree, Replies
    <3>2. got'[n] = [status |-> "ok", tree |-> LocalTree(n)]
      BY <3>1 DEF RequestTyped
    <3>3. got'[n].tree = LocalTree(n)
      BY <3>2
    <3>4. \A p : Count(got[n].tree, p)' = Cardinality(NodeSubs(Now, n, p))
      <4>1. \A p : Count(got[n].tree, p)' = Count(LocalTree(n), p)
        BY <3>3 DEF Count
      <4> QED
        BY <4>1, LocalCounts
    <3>5. /\ \A fact \in Ever : fact[1] = "sub" => fact \in AllSubs
          /\ \A fact \in Now : fact[1] = "sub" => fact \in AllSubs
          /\ Always \subseteq Now /\ Now \subseteq Ever
      BY <1>3, EverTyped, NowTyped
    <3>6. \A p : /\ NodeSubs(Always, n, p)' = NodeSubs(Always, n, p)
                 /\ NodeSubs(Ever, n, p)' = NodeSubs(Ever, n, p)
      BY <1>2 DEF NodeSubs
    <3> HIDE DEF Ever
    <3>7. \A p : /\ Cardinality(NodeSubs(Now, n, p)) \in Nat
                 /\ Cardinality(NodeSubs(Always, n, p)) <= Cardinality(NodeSubs(Now, n, p))
                 /\ Cardinality(NodeSubs(Now, n, p)) <= Cardinality(NodeSubs(Ever, n, p))
      BY <3>5, SubsCount, FewerSubs
    <3> QED
      BY <3>4, <3>6, <3>7 DEF CountedOn
  <2>2. CASE FetchFails(n)
    <3>1. got' = [got EXCEPT ![n] = Error]
      BY <2>2 DEF FetchFails
    <3>2. got'[n] = Error
      BY <3>1 DEF RequestTyped
    <3> QED
      BY <1>5, <3>2 DEF Error
  <2> QED
    BY <2>1, <2>2
<1>6. TreesRight'
  BY <1>1, <1>4, <1>5 DEF TreeInv, TreesRight, Mapping
<1> QED
  BY <1>3, <1>6 DEF TreeInv

(* The peers' steps of the other requests.                                 *)
LEMMA NotATree ==
    ASSUME RestInv, TreeInv, NEW n \in Nodes,
           \/ PeerList(n) \/ PeerReadsClients(n) \/ PeerSessions(n)
           \/ PeerDelete(n) \/ PeerClearSession(n) \/ LateDelete(n)
    PROVE  TreeInv'
<1>0. TablesTyped /\ RequestTyped /\ ActsReported /\ GoneTyped
  BY DEF RestInv, TreeInv
<1>1. /\ ~Mapping /\ req' = req /\ answer' = None
      /\ \/ gone' = gone
         \/ \E op, arg : Executes(n, op, arg)
  <2>1. CASE PeerList(n) \/ PeerReadsClients(n)
    BY <2>1 DEF PeerList, PeerReadsClients, Asked, Replies, Mapping, Lists
  <2>2. CASE PeerSessions(n)
    <3>1. /\ req.op = "sessions" /\ got[n].status = "reading" /\ req' = req
          /\ answer' = answer /\ gone' = gone
      BY <2>2 DEF PeerSessions, Reading, Replies
    <3> QED
      BY <1>0, <3>1 DEF RequestTyped, Mapping
  <2>3. CASE PeerDelete(n)
    BY <2>3 DEF PeerDelete, Asked, Replies, Mapping, Deletes
  <2>4. CASE PeerClearSession(n)
    <3>1. /\ req.op = "clearSession" /\ got[n].status = "reading" /\ req' = req
          /\ answer' = answer
          /\ gone' = gone
      BY <2>4 DEF PeerClearSession, DisconnectClient, Reading, Replies
    <3> QED
      BY <1>0, <3>1 DEF RequestTyped, Mapping, Deletes
  <2>5. CASE LateDelete(n)
    BY <1>0, <2>5 DEF LateDelete, ActsReported, Deleting, Deletes, Mapping
  <2> QED
    BY <2>1, <2>2, <2>3, <2>4, <2>5
<1>2. GoneTyped'
  <2>1. CASE gone' = gone
    BY <1>0, <2>1 DEF GoneTyped
  <2>2. ASSUME NEW op, NEW arg, Executes(n, op, arg) PROVE GoneTyped'
    <3>1. \/ \E o, s, r, st : Change(o, s, r, st)
          \/ gone' = gone
      BY <1>0, <2>2, Executed
    <3> QED
      BY <1>0, <2>1, <3>1, GoneGrows
  <2> QED
    BY <1>1, <2>1, <2>2
<1>3. TreesRight' /\ TreeAddsUp'
  BY <1>1, NoTreeYet DEF TreesRight, Mapping
<1> QED
  BY <1>2, <1>3 DEF TreeInv

(* The mirror asks, merges the answers and returns.                       *)
LEMMA MirrorKeepsTrees ==
    ASSUME RestInv, TreeInv,
           \/ \E r \in ListRequests \cup DeleteRequests : Start(r)
           \/ Respond
           \/ Return
    PROVE  TreeInv'
<1>0. TablesTyped /\ RequestTyped /\ GoneTyped
  BY DEF RestInv, TreeInv
<1>1. ASSUME NEW r, Start(r) PROVE TreeInv'
  <2>1. answer' = None /\ gone' = gone /\ \A n \in Nodes : got'[n] = Waiting
    BY <1>0, <1>1 DEF Start, RequestTyped
  <2>2. TreesRight' /\ GoneTyped'
    BY <1>0, <2>1 DEF TreesRight, Waiting, GoneTyped
  <2> QED
    BY <2>1, <2>2, NoTreeYet DEF TreeInv
<1>2. ASSUME Respond PROVE TreeInv'
  <2>1. req # None /\ UNCHANGED <<broker, req, got, born, gone>>
    BY <1>2 DEF Respond
  <2>2. Ever' = Ever /\ Always' = Always /\ TablesTyped'
    BY <1>0, <2>1, EverKept, TablesKept
  <2>3. GoneTyped'
    BY <1>0, <2>1 DEF GoneTyped
  <2>4. TreesRight'
    <3>1. ASSUME NEW n, CountedOn(n) PROVE CountedOn(n)'
      BY <1>0, <2>1, <2>2, <2>3, <3>1, CountKept
    <3> QED
      BY <2>1, <3>1 DEF TreeInv, TreesRight, Mapping
  <2>5. PICK order \in SetToSeqs(Nodes) :
          answer' = CASE req.op \in Lists   -> MirrorList(order)
                      [] req.op = "topics"  -> MirrorTree(order)
                      [] req.op \in Deletes -> BroadcastDelete
    BY <1>2 DEF Respond
  <2>6. CASE req.op = "topics"
    <3>1. answer' = MirrorTree(order)
      BY <2>5, <2>6 DEF Lists, Deletes
    <3>2. ASSUME NEW p
          PROVE  /\ Cardinality(SubFacts(Always, p)) <= Count(MirrorTree(order).tree, p)
                 /\ Count(MirrorTree(order).tree, p) <= Cardinality(SubFacts(Ever, p))
      BY <1>0, <2>1, <2>6, RoundsCount DEF TreeInv, Mapping
    <3>3. \A p : /\ SubFacts(Always, p)' = SubFacts(Always, p)
                 /\ SubFacts(Ever, p)' = SubFacts(Ever, p)
                 /\ Count(answer.tree, p)' = Count(MirrorTree(order).tree, p)
      BY <2>1, <2>2, <3>1 DEF SubFacts, Answered, Count
    <3> HIDE DEF Ever
    <3>4. TreeAddsUp'
      BY <3>2, <3>3 DEF TreeAddsUp
    <3> QED
      BY <2>3, <2>4, <3>4 DEF TreeInv
  <2>7. CASE req.op # "topics"
    <3>1. req.op \in Lists \cup Deletes
      <4>1. req \in ListRequests \cup DeleteRequests
        BY <1>0, <2>1 DEF RequestTyped
      <4> QED
        BY <2>7, <4>1 DEF ListRequests, DeleteRequests, UnsubscribeClient, ClearRetained,
                    ClearSession, Lists, Deletes
    <3>2. answer' = MirrorList(order) \/ answer' = BroadcastDelete
      BY <2>5, <2>7, <3>1 DEF Lists, Deletes
    <3>3. MirrorList(order).kind = "list" /\ BroadcastDelete.kind = "code"
      BY DEF MirrorList, BroadcastDelete
    <3>4. answer'.kind # "tree"
      BY <3>2, <3>3
    <3> QED
      BY <2>3, <2>4, <3>4 DEF TreeInv, TreeAddsUp
  <2> QED
    BY <2>6, <2>7
<1>3. ASSUME Return PROVE TreeInv'
  <2>1. answer' = None /\ TreesRight' /\ GoneTyped'
    BY <1>3 DEF Return, TreesRight, Mapping, GoneTyped
  <2> QED
    BY <2>1, NoTreeYet DEF TreeInv
<1> QED
  BY <1>1, <1>2, <1>3

(* The counts of each peer's tree, and of the mirror's, are right in every *)
(* state.                                                                  *)
THEOREM TreesKept == Spec => []TreeInv
<1>1. Init => TreeInv
  BY DEF Init, TreeInv, GoneTyped, TreesRight, Mapping, TreeAddsUp
<1>2. RestInv /\ RestInv' /\ TreeInv /\ [Next]_vars => TreeInv'
  <2> SUFFICES ASSUME RestInv, RestInv', TreeInv, [Next]_vars PROVE TreeInv'
    OBVIOUS
  <2>0. TablesTyped /\ TablesTyped' /\ RequestTyped
    BY DEF RestInv
  <2>1. CASE BrokerStep
    BY <2>0, <2>1, BrokerTables, WorldKeepsTrees
  <2>2. CASE \/ \E r \in ListRequests \cup DeleteRequests : Start(r)
             \/ Respond
             \/ Return
    BY <2>2, MirrorKeepsTrees
  <2>3. ASSUME NEW n \in Nodes, OtherDelete(n) PROVE TreeInv'
    BY <2>0, <2>3, OtherExecuted, WorldKeepsTrees
  <2>4. ASSUME NEW n \in Nodes, PeerStep(n) \/ FetchFails(n) PROVE TreeInv'
    BY <2>0, <2>3, <2>4, PeerKeepsTrees, NotATree DEF PeerStep
  <2>5. CASE UNCHANGED vars
    <3>1. /\ UNCHANGED <<broker, born, gone>> /\ req' = req /\ got' = got
          /\ answer' = answer
      BY <2>5 DEF vars
    <3>2. Ever' = Ever /\ Always' = Always
      BY <3>1, EverKept
    <3>3. GoneTyped'
      BY <3>1 DEF TreeInv, GoneTyped
    <3>4. TreesRight'
      <4>1. ASSUME NEW n, CountedOn(n) PROVE CountedOn(n)'
        BY <2>0, <3>1, <3>2, <3>3, <4>1, CountKept DEF TreeInv
      <4> QED
        BY <3>1, <4>1 DEF TreeInv, TreesRight, Mapping
    <3>5. TreeAddsUp'
      <4>1. \A p : /\ SubFacts(Always, p)' = SubFacts(Always, p)
                   /\ SubFacts(Ever, p)' = SubFacts(Ever, p)
                   /\ Count(answer.tree, p)' = Count(answer.tree, p)
        BY <3>1, <3>2 DEF SubFacts, Answered, Count
      <4> HIDE DEF Ever
      <4> QED
        BY <3>1, <4>1 DEF TreeInv, TreeAddsUp
    <3> QED
      BY <3>3, <3>4, <3>5 DEF TreeInv
  <2> QED
    BY <2>1, <2>2, <2>4, <2>5 DEF Next
<1> QED
  BY <1>1, <1>2, RestKept, PTL DEF Spec

(* The merged tree counts at each path the subscriptions that the          *)
(* answering nodes had, each once, up to those that came or went during    *)
(* the request: for any number of nodes, merged in any order.              *)
THEOREM TreeCountsAddUp == Spec => []TreeAddsUp
<1>1. TreeInv => TreeAddsUp
  BY DEF TreeInv
<1> QED
  BY <1>1, TreesKept, PTL

----------------------------------------------------------------------------
(* Types.                                                                 *)

(* How far a peer is with a request.                                      *)
Statuses == {"waiting", "reading", "ok", "204", "404", "error"}

(* What TypeOK says beyond the invariants above.                           *)
StepsTyped ==
    /\ \A n \in Nodes : got[n].status \in Statuses
    /\ answer # None => answer.kind \in {"list", "tree", "code"}
    /\ changes \in 0..MaxChanges

(* A peer answers or reads on: the others are left as they were.          *)
LEMMA ReplyTyped ==
    ASSUME RequestTyped, StepsTyped, NEW n \in Nodes, NEW reply, Replies(n, reply),
           reply.status \in Statuses
    PROVE  StepsTyped'
<1>1. got'[n] = reply /\ \A m \in Nodes \ {n} : got'[m] = got[m]
  BY DEF Replies, RequestTyped
<1> QED
  BY <1>1 DEF Replies, StepsTyped

(* The steps of a peer.                                                   *)
LEMMA PeerTyped ==
    ASSUME RequestTyped, StepsTyped, NEW n \in Nodes, PeerStep(n) \/ FetchFails(n)
    PROVE  StepsTyped'
<1>1. CASE PeerList(n)
  <2>1. PICK rows : Replies(n, ListAnswer(rows, TRUE))
    BY <1>1 DEF PeerList
  <2>2. ListAnswer(rows, TRUE).status = "ok"
    BY DEF ListAnswer
  <2> QED
    BY <2>1, <2>2, ReplyTyped DEF Statuses
<1>2. CASE PeerTree(n)
  <2> DEFINE reply == [status |-> "ok", tree |-> LocalTree(n)]
  <2>1. Replies(n, reply)
    BY <1>2 DEF PeerTree
  <2>2. reply.status = "ok"
    OBVIOUS
  <2> HIDE DEF reply
  <2> QED
    BY <2>1, <2>2, ReplyTyped DEF Statuses
<1>3. ASSUME NEW status \in Statuses, Replies(n, [status |-> status]) PROVE StepsTyped'
  <2> DEFINE reply == [status |-> status]
  <2>1. Replies(n, reply) /\ reply.status = status
    BY <1>3
  <2> HIDE DEF reply
  <2> QED
    BY <2>1, ReplyTyped
<1>4. CASE PeerDelete(n)
  BY <1>3, <1>4 DEF PeerDelete, Statuses
<1>5. CASE PeerReadsClients(n)
  <2> DEFINE reply == [status |-> "reading", seen |-> online[n]]
  <2>1. Replies(n, reply)
    BY <1>5 DEF PeerReadsClients
  <2>2. reply.status = "reading"
    OBVIOUS
  <2> HIDE DEF reply
  <2> QED
    BY <2>1, <2>2, ReplyTyped DEF Statuses
<1>6. CASE PeerSessions(n)
  <2>1. PICK rows, readable : Replies(n, ListAnswer(rows, readable))
    BY <1>6 DEF PeerSessions
  <2>2. ListAnswer(rows, readable).status = "ok"
    BY DEF ListAnswer
  <2> QED
    BY <2>1, <2>2, ReplyTyped DEF Statuses
<1>7. CASE PeerClearSession(n)
  <2>1. \E status \in {"204", "404"} : Replies(n, [status |-> status])
    BY <1>7 DEF PeerClearSession
  <2> QED
    BY <1>3, <2>1 DEF Statuses
<1>8. CASE LateDelete(n)
  BY <1>8 DEF LateDelete, StepsTyped
<1>9. CASE OtherDelete(n)
  <2>1. UNCHANGED <<got, answer>> /\ changes < MaxChanges /\ changes' = changes + 1
    BY <1>9 DEF OtherDelete
  <2>2. changes' \in 0..MaxChanges
    BY <2>1, ClusterRestAssumption DEF StepsTyped
  <2> QED
    BY <2>1, <2>2 DEF StepsTyped
<1>10. CASE FetchFails(n)
  <2>1. /\ got' = [got EXCEPT ![n] = Error] /\ UNCHANGED <<answer, changes>>
    BY <1>10 DEF FetchFails
  <2>2. got'[n] = Error /\ \A m \in Nodes \ {n} : got'[m] = got[m]
    BY <2>1 DEF RequestTyped
  <2>3. got'[n].status = "error"
    BY <2>2 DEF Error
  <2> QED
    BY <2>1, <2>2, <2>3 DEF StepsTyped, Statuses
<1> QED
  BY <1>1, <1>2, <1>4, <1>5, <1>6, <1>7, <1>8, <1>9, <1>10 DEF PeerStep

(* The steps of the brokers count as changes, of which there are a few.   *)
LEMMA BrokerTyped ==
    ASSUME StepsTyped, BrokerStep
    PROVE  StepsTyped'
<1>1. ASSUME NEW o, NEW s, NEW r, NEW st, BrokerChange(o, s, r, st) PROVE StepsTyped'
  <2>1. UNCHANGED <<got, answer>> /\ changes < MaxChanges /\ changes' = changes + 1
    BY <1>1 DEF BrokerChange
  <2>2. changes' \in 0..MaxChanges
    BY <2>1, ClusterRestAssumption DEF StepsTyped
  <2> QED
    BY <2>1, <2>2 DEF StepsTyped
<1>2. \E o, s, r, st : BrokerChange(o, s, r, st)
  <2>1. ASSUME NEW n, NEW c, Disconnect(n, c) PROVE \E o, s, r, st : BrokerChange(o, s, r, st)
    BY <2>1 DEF Disconnect
  <2> QED
    BY <2>1 DEF BrokerStep, Connect, Subscribe, Retain, ExpireSession
<1> QED
  BY <1>1, <1>2

(* The steps of the mirror.                                               *)
LEMMA MirrorTyped ==
    ASSUME RequestTyped, StepsTyped,
           \/ \E r \in ListRequests \cup DeleteRequests : Start(r)
           \/ Respond
           \/ Return
    PROVE  StepsTyped'
<1>1. ASSUME NEW r, Start(r) PROVE StepsTyped'
  BY <1>1 DEF Start, StepsTyped
<1>2. CASE Respond
  <2>1. req # None /\ UNCHANGED <<got, changes>>
    BY <1>2 DEF Respond
  <2>2. PICK order :
          answer' = CASE req.op \in Lists   -> MirrorList(order)
                      [] req.op = "topics"  -> MirrorTree(order)
                      [] req.op \in Deletes -> BroadcastDelete
    BY <1>2 DEF Respond
  <2>3. req.op \in Lists \cup {"topics"} \cup Deletes
    BY <2>1 DEF RequestTyped, ListRequests, DeleteRequests, UnsubscribeClient, ClearRetained,
                ClearSession, Lists, Deletes
  <2>4. answer' \in {MirrorList(order), MirrorTree(order), BroadcastDelete}
    BY <2>2, <2>3 DEF Lists, Deletes
  <2>5. /\ MirrorList(order).kind = "list" /\ MirrorTree(order).kind = "tree"
        /\ BroadcastDelete.kind = "code"
    BY DEF MirrorList, MirrorTree, BroadcastDelete
  <2> QED
    BY <2>1, <2>4, <2>5 DEF StepsTyped
<1>3. CASE Return
  <2>1. answer' = None /\ changes' = changes /\ \A n \in Nodes : got'[n] = Waiting
    BY <1>3 DEF Return
  <2> QED
    BY <2>1 DEF StepsTyped, Waiting, Statuses
<1> QED
  BY <1>1, <1>2, <1>3

(* Every state has its type: in it, no peer's page panics and none is      *)
(* longer than the maximum, whoever is subscribed is connected, and the    *)
(* codes of the mirror are 204, 404 and 502.                               *)
THEOREM MirrorTypes == Spec => []TypeOK
<1>1. Init => StepsTyped
  BY ClusterRestAssumption DEF Init, StepsTyped, Waiting, Statuses
<1>2. RestInv /\ StepsTyped /\ [Next]_vars => StepsTyped'
  <2> SUFFICES ASSUME RestInv, StepsTyped, [Next]_vars PROVE StepsTyped'
    OBVIOUS
  <2>0. RequestTyped
    BY DEF RestInv
  <2>1. CASE UNCHANGED vars
    BY <2>1 DEF vars, StepsTyped
  <2> QED
    BY <2>0, <2>1, BrokerTyped, PeerTyped, MirrorTyped DEF Next
<1>3. RestInv /\ ListInv /\ StepsTyped => TypeOK
  <2> SUFFICES ASSUME RestInv, ListInv, StepsTyped PROVE TypeOK
    OBVIOUS
  <2>0. /\ TablesTyped /\ RequestTyped /\ ActsReported /\ CodeOfAnswers
        /\ PeersRight /\ ListSized
    BY DEF RestInv, ListInv, MergedRight
  <2>1. ASSUME NEW n \in Nodes PROVE subs[n] \subseteq online[n] \X Filters
    BY <2>0 DEF TablesTyped
  <2>2. req \in ListRequests \cup DeleteRequests \cup {None}
    BY <2>0 DEF RequestTyped
  <2>3. ASSUME NEW n \in Answered, req.op \in Lists
        PROVE  got[n].items \in Seq(Items(n)) /\ Len(got[n].items) <= MaxPageSize
    <3>1. n \in Nodes /\ got[n].status = "ok"
      BY DEF Answered
    <3>2. req # None
      BY <2>0, <3>1 DEF RequestTyped, Waiting
    <3> QED
      BY <2>0, <2>3, <3>1, <3>2 DEF PeersRight, SaidRight, ItemsRight, Listing
  <2>4. ASSUME answer # None
        PROVE  /\ req # None /\ answer.kind \in {"list", "tree", "code"}
               /\ answer.kind = "list" => answer.items \in Seq(Listed)
               /\ answer.kind = "code" => answer.code \in {204, 404, 502}
    <3>1. req # None /\ answer.kind \in {"list", "tree", "code"}
      BY <2>0, <2>4 DEF RequestTyped, StepsTyped
    <3>2. answer.kind = "list" => answer.items \in Seq(Listed)
      BY <2>0, <2>4 DEF ListSized, IsList
    <3>3. BroadcastDelete.code \in {204, 404, 502}
      BY DEF BroadcastDelete
    <3>4. answer.kind = "code" => answer.code \in {204, 404, 502}
      BY <2>0, <2>4, <3>3 DEF CodeOfAnswers
    <3> QED
      BY <3>1, <3>2, <3>4
  <2>5. late \cup acted \subseteq Nodes
    BY <2>0 DEF ActsReported
  <2>6. /\ online \in [Nodes -> SUBSET Clients] /\ retained \in [Nodes -> SUBSET Filters]
        /\ stored \subseteq Clients
    BY <2>0 DEF TablesTyped
  <2>7. /\ \A n \in Nodes :
            got[n].status \in {"waiting", "reading", "ok", "204", "404", "error"}
        /\ changes \in 0..MaxChanges
    BY DEF StepsTyped, Statuses
  <2> QED
    BY <2>1, <2>2, <2>3, <2>4, <2>5, <2>6, <2>7 DEF TypeOK
<1> QED
  BY <1>1, <1>2, <1>3, RestKept, ListsKept, PTL DEF Spec
============================================================================
