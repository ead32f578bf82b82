---------------------------- MODULE MCAdminPages ----------------------------
(* AdminPages.tla for TLC.  Topics are numbers: 1 and 2 are topics without *)
(* a percent sign, 3 is one that url.PathUnescape turns into 1 and 4 one   *)
(* that it refuses.                                                        *)
EXTENDS AdminPages

Symmetry == Permutations(Procs) \cup Permutations(Ids) \cup Permutations(RegexProcs)

SomeTopics == {1, 3, 4}
Decoding   == [t \in SomeTopics |-> IF t = 3 THEN 1 ELSE IF t = 4 THEN Malformed ELSE t]

MCMixes == {
    [add |-> 2, remove |-> 1, connect |-> 2],
    [add |-> 3, remove |-> 1, connect |-> 1],
    [add |-> 2, remove |-> 2],
    [connect |-> 2, subscribe |-> 2, unsubscribe |-> 2],
    [connect |-> 2, clear |-> 1, add |-> 1],
    [publish |-> 3, retained |-> 2],
    [message |-> 4, tick |-> 4],
    [regex |-> 3, reorder |-> 2]}

(* One client with two subscriptions, and one unsubscribe.                 *)
OneRow == {[connect |-> 1, subscribe |-> 2, unsubscribe |-> 1]}
============================================================================
