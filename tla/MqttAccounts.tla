---------------------------- MODULE MqttAccounts ---------------------------
(***************************************************************************)
(* The MQTT accounts that the dashboard administers for the broker         *)
(* (mqttauth/types.go) and what the write operations of mqttauth.Backend   *)
(* do to them, without the storage.  Accounts are a function from the      *)
(* subjects that exist; the access rules of an account are a function from *)
(* topic filters to access values.                                         *)
(***************************************************************************)
EXTENDS Naturals

(* Access: deny, read, write, read and write.                              *)
Access == 0..3

(* Passwords are numbers: whoever sets one picks a number of his own.  0   *)
(* is the empty plaintextPassword, which no account has.                   *)
NoPassword == 0

(* The rules of an account, and an account: it always has a password.      *)
RuleSet(Topics) == UNION {[T -> Access] : T \in SUBSET Topics}

Account(Topics) == [allow : BOOLEAN, pw : Nat \ {NoPassword},
                    acl : RuleSet(Topics)]

IsAccounts(as, Subjects, Topics) ==
    \E S \in SUBSET Subjects : as \in [S -> Account(Topics)]

With(f, x, v) == [y \in DOMAIN f \cup {x} |-> IF y = x THEN v ELSE f[y]]
Without(f, x) == [y \in DOMAIN f \ {x} |-> f[y]]

(* An update keeps the rules, and keeps the password if none is given.     *)
PutUser(as, s, allow, pw) ==
    With(as, s, [allow |-> allow,
                 pw    |-> IF pw = NoPassword THEN as[s].pw ELSE pw,
                 acl   |-> IF s \in DOMAIN as THEN as[s].acl ELSE <<>>])

PutRule(as, s, t, access) ==
    [as EXCEPT ![s].acl = With(@, t, access)]

DeleteRule(as, s, t) == [as EXCEPT ![s].acl = Without(@, t)]
============================================================================
