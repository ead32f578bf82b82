---------------------------- MODULE MCMqttBackends -------------------------
(* MqttBackends.tla for TLC: a ledger with one account that has one rule,  *)
(* and empty tables.                                                       *)
EXTENDS MqttBackends

OneAccount ==
    [s \in {CHOOSE s \in Subjects : TRUE} |->
        [allow |-> TRUE, pw |-> MaxOps + 1,
         acl |-> [t \in {CHOOSE t \in Topics : TRUE} |-> 3]]]
============================================================================
