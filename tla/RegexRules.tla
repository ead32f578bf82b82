----------------------------- MODULE RegexRules -----------------------------
(***************************************************************************)
(* The page of the regex authorization rules                               *)
(* (dashboard/handlers/mqtt_acl_regex.go) over the auth backend, which all *)
(* the nodes share.  The backend answers one call at a time; a reorder is  *)
(* two calls, and what it puts back is the rule as it was at the first.    *)
(***************************************************************************)
EXTENDS Integers

CONSTANTS
    RegexProcs,   \* requests at a time
    Bodies,       \* what a form says apart from the order
    Orders,       \* the orders a form gives, in tens
    NoRule

VARIABLES
    rules,     \* the backend: from the ids in use to rules
    nextRule,  \* ids are never used twice
    held,      \* the rule a reorder is about to put back, NoRule if none
    intended,  \* history: the rules if every request were one step
    clashed    \* history: rules written while a reorder held them

regexVars == <<rules, nextRule, held, intended, clashed>>

RegexInit ==
    /\ rules = <<>> /\ nextRule = 1
    /\ held = [p \in RegexProcs |-> NoRule]
    /\ intended = <<>>
    /\ clashed = {}

(* PutRegexRule with an id, and DeleteRegexRule.                           *)
PutRegexRuleAt(rs, r, x) == [k \in DOMAIN rs \cup {r} |-> IF k = r THEN x ELSE rs[k]]
DeleteRegexRule(rs, r) == [k \in DOMAIN rs \ {r} |-> rs[k]]

Rule(order, body) == [order |-> order, body |-> body]

Holds(p, r) == held[p] # NoRule /\ held[p].id = r

(* A write to a rule that some other reorder has read.                     *)
Clashes(p, r) ==
    clashed' = clashed \cup {k \in {r} : \E q \in RegexProcs \ {p} : Holds(q, r)}

----------------------------------------------------------------------------
(* A form that does not parse changes nothing.                             *)
MQTTACLRegexCreate(p, order, body) ==
    /\ held[p] = NoRule
    /\ rules' = PutRegexRuleAt(rules, nextRule, Rule(order, body))
    /\ intended' = PutRegexRuleAt(intended, nextRule, Rule(order, body))
    /\ nextRule' = nextRule + 1
    /\ UNCHANGED <<held, clashed>>

(* The rule of the form is put under the id of the path, whether or not    *)
(* there still is such a rule.                                             *)
MQTTACLRegexUpdate(p, r, order, body) ==
    /\ held[p] = NoRule
    /\ r < nextRule
    /\ rules' = PutRegexRuleAt(rules, r, Rule(order, body))
    /\ intended' = PutRegexRuleAt(intended, r, Rule(order, body))
    /\ Clashes(p, r)
    /\ UNCHANGED <<nextRule, held>>

(* 404 for a rule that is not there.                                       *)
MQTTACLRegexDelete(p, r) ==
    /\ held[p] = NoRule
    /\ r \in DOMAIN rules
    /\ rules' = DeleteRegexRule(rules, r)
    /\ intended' = DeleteRegexRule(intended, r)
    /\ Clashes(p, r)
    /\ UNCHANGED <<nextRule, held>>

(* RegexRules answers with all the rules; the one of the path is found     *)
(* among them (404 without it) and its order moves by ten.                 *)
ReorderRead(p, r, step) ==
    /\ held[p] = NoRule
    /\ r \in DOMAIN rules
    /\ held' = [held EXCEPT ![p] = [id |-> r, step |-> step, all |-> rules,
                  rule |-> [rules[r] EXCEPT !.order = @ + step]]]
    /\ UNCHANGED <<rules, nextRule, intended, clashed>>

ReorderPutAll(p) ==
    /\ held[p] # NoRule
    /\ LET h == held[p] IN
       /\ rules' = [k \in DOMAIN rules \cup DOMAIN h.all |->
                      CASE k = h.id -> h.rule
                        [] k # h.id /\ k \in DOMAIN h.all -> h.all[k]
                        [] OTHER -> rules[k]]
       /\ intended' = IF h.id \in DOMAIN intended
                      THEN [intended EXCEPT ![h.id].order = @ + h.step]
                      ELSE intended
       /\ Clashes(p, h.id)
    /\ held' = [held EXCEPT ![p] = NoRule]
    /\ UNCHANGED nextRule

(* The whole rule is put back.                                             *)
ReorderPut(p) ==
    /\ held[p] # NoRule
    /\ LET h == held[p] IN
       /\ rules' = PutRegexRuleAt(rules, h.id, h.rule)
       /\ intended' = IF h.id \in DOMAIN intended
                      THEN [intended EXCEPT ![h.id].order = @ + h.step]
                      ELSE intended
       /\ Clashes(p, h.id)
    /\ held' = [held EXCEPT ![p] = NoRule]
    /\ UNCHANGED nextRule

(* The five seconds are over, or the backend fails.                        *)
ReorderGivesUp(p) ==
    /\ held[p] # NoRule
    /\ held' = [held EXCEPT ![p] = NoRule]
    /\ UNCHANGED <<rules, nextRule, intended, clashed>>

RegexStep(p) == ReorderPut(p) \/ ReorderGivesUp(p)

----------------------------------------------------------------------------
(* Properties.                                                             *)

(* The two calls of a reorder look like one to everybody who works on      *)
(* other rules, and to the rule itself unless it was written in between:   *)
(* then the write is reverted, and a deletion undone.                      *)
RulesAsIntended ==
    \A r \in 1..(nextRule - 1) : r \notin clashed =>
        /\ r \in DOMAIN rules <=> r \in DOMAIN intended
        /\ r \in DOMAIN rules => rules[r] = intended[r]
============================================================================
