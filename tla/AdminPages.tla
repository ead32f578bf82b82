----------------------------- MODULE AdminPages -----------------------------
(***************************************************************************)
(* The admin pages of one node together: the pages that act on the broker  *)
(* (BrokerPages.tla, with the blacklist), the regex rules (RegexRules.tla) *)
(* and the sampler behind the overview (RateSampler.tla).  They share the  *)
(* process and nothing else, so a run need not let all of them be busy in  *)
(* one behaviour: each behaviour begins with one of the mixes of Mixes,    *)
(* the number of times each kind of operation may begin in it.             *)
(***************************************************************************)
EXTENDS BrokerPages, RateSampler, RegexRules

CONSTANT Mixes   \* bound: operations of each kind

Kinds == {"add", "remove", "connect", "subscribe", "unsubscribe", "clear",
          "retained", "publish", "message", "tick", "regex", "reorder"}

ASSUME MixAssumption == \A m \in Mixes : DOMAIN m \subseteq Kinds

VARIABLE left    \* what is left of the mix

pagesAll == <<blVars, pageVars>>
allVars  == <<pagesAll, samplerVars, regexVars, left>>

Init ==
    /\ BlInit /\ PagesInit /\ SamplerInit /\ RegexInit
    /\ left \in Mixes

Spend(kind) ==
    /\ kind \in DOMAIN left
    /\ left[kind] > 0
    /\ left' = [left EXCEPT ![kind] = @ - 1]

(* Once requests have raced on the slice of the blacklist its contents are *)
(* undefined, and no further operation begins.                             *)
BrokerRequest(p) ==
    /\ ~raced
    /\ \/ \E i \in Ids :
            \/ Spend("add") /\ BlacklistAdd(p, i) /\ UNCHANGED pageVars
            \/ Spend("remove") /\ BlacklistRemove(p, i) /\ UNCHANGED pageVars
            \/ Spend("connect") /\ Connect(p, i) /\ UNCHANGED pageVars
            \/ Spend("clear") /\ SessionsClear(p, i)
            \/ \E t \in Topics :
                \/ Spend("subscribe") /\ ClientSubscribe(p, i, t)
                \/ Spend("unsubscribe") /\ ClientUnsubscribe(p, i, t)
       \/ \E t \in Topics :
            \/ Spend("retained") /\ RetainedClear(p, t)
            \/ \E empty \in BOOLEAN :
                 at[p] = "idle" /\ Spend("publish") /\ ToolsPublish(t, empty)

RegexRequest(p) ==
    \/ \E o \in Orders, b \in Bodies :
        \/ Spend("regex") /\ MQTTACLRegexCreate(p, o, b)
        \/ \E r \in DOMAIN intended \cup clashed :
             Spend("regex") /\ MQTTACLRegexUpdate(p, r, o, b)
    \/ \E r \in DOMAIN rules :
        \/ Spend("regex") /\ MQTTACLRegexDelete(p, r)
        \/ \E s \in {-1, 1} : Spend("reorder") /\ ReorderRead(p, r, s)

BrokerNext ==
    /\ \E p \in Procs :
        \/ BrokerRequest(p)
        \/ PageStep(p) /\ UNCHANGED left
    /\ UNCHANGED <<samplerVars, regexVars>>

RegexNext ==
    /\ \E p \in RegexProcs :
        \/ RegexRequest(p)
        \/ RegexStep(p) /\ UNCHANGED left
    /\ UNCHANGED <<pagesAll, samplerVars>>

SamplerNext ==
    /\ \/ Spend("message") /\ (MessageReceived \/ MessageSent)
       \/ Spend("tick") /\ Tick
       \/ Sample /\ UNCHANGED left
    /\ UNCHANGED <<pagesAll, regexVars>>

Next == BrokerNext \/ RegexNext \/ SamplerNext

Spec == Init /\ [][Next]_allVars
============================================================================
