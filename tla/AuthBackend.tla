----------------------------- MODULE AuthBackend ---------------------------
(***************************************************************************)
(* What the interface mqttauth.Backend (mqttauth/backend.go) promises: the *)
(* write operations take effect at once, each on one account; an update    *)
(* without a password keeps the stored one; deleting a user takes his      *)
(* rules along; and nothing else, a crash included, changes an account.    *)
(***************************************************************************)
EXTENDS MqttAccounts

CONSTANTS Subjects, Topics, Passwords, InitAccounts

VARIABLE accounts

Init == accounts = InitAccounts

PutWithPassword(s) ==
    \E allow \in BOOLEAN, pw \in Passwords :
        accounts' = PutUser(accounts, s, allow, pw)

PutKeepingPassword(s) ==
    /\ s \in DOMAIN accounts
    /\ \E allow \in BOOLEAN :
        accounts' = PutUser(accounts, s, allow, NoPassword)

DeleteUser(s) ==
    /\ s \in DOMAIN accounts
    /\ accounts' = Without(accounts, s)

SetRule(s, t) ==
    /\ s \in DOMAIN accounts
    /\ \E a \in Access : accounts' = PutRule(accounts, s, t, a)

RemoveRule(s, t) ==
    /\ s \in DOMAIN accounts /\ t \in DOMAIN accounts[s].acl
    /\ accounts' = DeleteRule(accounts, s, t)

Next ==
    \E s \in Subjects :
        \/ PutWithPassword(s) \/ PutKeepingPassword(s) \/ DeleteUser(s)
        \/ \E t \in Topics : SetRule(s, t) \/ RemoveRule(s, t)

Spec == Init /\ [][Next]_accounts
============================================================================
