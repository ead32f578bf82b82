----------------------------- MODULE MqttTables ----------------------------
(***************************************************************************)
(* The MQTT accounts in a database that several dashboards and the broker  *)
(* share: the Redis backend (mqttauth/redis.go: one hash of users, one     *)
(* hash of rules for each subject) and the SQL backend (mqttauth/sql.go: a *)
(* table of users and a table of rules for MySQL or PostgreSQL), with the  *)
(* handlers that change them (dashboard/handlers/mqtt_auth.go and          *)
(* mqtt_acl.go).                                                           *)
(*                                                                         *)
(* A step is one Redis command or SQL statement with the Go code up to the *)
(* next one.  There is no transaction around the statements of a method.   *)
(***************************************************************************)
EXTENDS Naturals, FiniteSets

CONSTANTS
    Subjects, Topics,
    Procs,      \* concurrent requests, of any dashboard
    MaxOps,     \* bound: requests
    MaxFaults   \* bound: requests that fail or run into their timeout

VARIABLES
    kind,    \* which backend New made: "redis" or "sql"
    users,   \* the user records: allow, and the number of the password
    rules,   \* the rules
    gone,    \* how often each subject has been deleted
    pc, arg,
    snap,    \* the password PutUser read (NoPassword: there was no record)
    ops, faults

dbVars == <<users, rules, gone>>
vars   == <<kind, dbVars, pc, arg, snap, ops, faults>>

(* Passwords are numbers, 0 the empty one.                                 *)
NoPassword == 0

User == [allow : BOOLEAN, pw : Nat]

(* A rule, with the number of deletions of its subject when it was made.   *)
(* Its id is made of subject and topic in Redis, and a row number in SQL.  *)
RuleId(n, s, t) == IF kind = "redis" THEN <<s, t>> ELSE n

Arg == [s : Subjects, t : Topics, allow : BOOLEAN, pw : Nat]

NoArg == [s |-> CHOOSE s \in Subjects : TRUE, t |-> CHOOSE t \in Topics : TRUE,
          allow |-> FALSE, pw |-> NoPassword]

TypeOK ==
    /\ kind \in {"redis", "sql"}
    /\ DOMAIN users \subseteq Subjects /\ users \in [DOMAIN users -> User]
    /\ \A r \in rules :
        /\ r.s \in Subjects /\ r.t \in Topics
        /\ r.n \in 1..MaxOps
        /\ r.gen \in 0..gone[r.s]
        /\ r.id = RuleId(r.n, r.s, r.t)
    /\ \A q, r \in rules : q.id = r.id => q = r
    /\ gone \in [Subjects -> Nat]
    /\ pc \in [Procs -> {"idle", "get", "set", "delete", "cascade", "rule",
                         "unrule"}]
    /\ arg \in [Procs -> Arg]
    /\ snap \in [Procs -> Nat]
    /\ ops \in 0..MaxOps /\ faults \in 0..MaxFaults

(* Tables without users or rules.                                          *)
TableInit ==
    /\ users = <<>>
    /\ rules = {}
    /\ gone = [s \in Subjects |-> 0]
    /\ pc = [p \in Procs |-> "idle"]
    /\ arg = [p \in Procs |-> NoArg]
    /\ snap = [p \in Procs |-> NoPassword]
    /\ ops = 0 /\ faults = 0

Init == kind \in {"redis", "sql"} /\ TableInit

----------------------------------------------------------------------------
(* The handlers.                                                           *)

Request(p, next, a) ==
    /\ pc[p] = "idle"
    /\ ops < MaxOps
    /\ ops' = ops + 1
    /\ pc' = [pc EXCEPT ![p] = next]
    /\ arg' = [arg EXCEPT ![p] = a]
    /\ UNCHANGED <<kind, dbVars, snap, faults>>

AuthCreate(p, s, allow) ==
    Request(p, "get", [NoArg EXCEPT !.s = s, !.allow = allow, !.pw = ops + 1])

(* GetUser: without a record, ErrNotFound.                                 *)
GetUser(s) == s \in DOMAIN users

(* GetUser; PutUser follows, without a password.                           *)
AuthToggle(p, s) ==
    /\ GetUser(s)
    /\ Request(p, "get", [NoArg EXCEPT !.s = s, !.allow = ~users[s].allow])

AuthDelete(p, s) == Request(p, "delete", [NoArg EXCEPT !.s = s])

ACLCreate(p, s, t) ==
    Request(p, "rule", [NoArg EXCEPT !.s = s, !.t = t, !.pw = ops + 1])

(* Rules: what the page lists.                                             *)
ListedRules == rules

(* The id of a rule that was on the page when the admin pressed delete; pw *)
(* carries the row number.                                                 *)
ACLDelete(p, r) ==
    Request(p, "unrule", [NoArg EXCEPT !.s = r.s, !.t = r.t, !.pw = r.n])

----------------------------------------------------------------------------
(* The statements of the backends.                                         *)

Return(p) ==
    /\ pc' = [pc EXCEPT ![p] = "idle"]
    /\ arg' = [arg EXCEPT ![p] = NoArg]
    /\ snap' = [snap EXCEPT ![p] = NoPassword]
    /\ UNCHANGED <<kind, ops>>

PutGetUnchecked(p) ==
    LET s == arg[p].s IN
    /\ pc[p] = "get"
    /\ snap' = [snap EXCEPT ![p] = IF s \in DOMAIN users THEN users[s].pw ELSE 0]
    /\ pc' = [pc EXCEPT ![p] = "set"]
    /\ UNCHANGED <<kind, dbVars, arg, ops, faults>>

(* PutUser: HGET, or SELECT of the password.  A user that does not exist   *)
(* needs a password.                                                       *)
PutGet(p) ==
    LET s == arg[p].s IN
    /\ pc[p] = "get"
    /\ \/ /\ s \notin DOMAIN users /\ arg[p].pw = NoPassword
          /\ Return(p)
       \/ /\ s \in DOMAIN users \/ arg[p].pw # NoPassword
          /\ snap' = [snap EXCEPT ![p] =
                        IF s \in DOMAIN users THEN users[s].pw ELSE NoPassword]
          /\ pc' = [pc EXCEPT ![p] = "set"]
          /\ UNCHANGED <<kind, arg, ops>>
    /\ UNCHANGED <<dbVars, faults>>

(* The password PutUser writes: the new one, or else the one it read.      *)
StoredPassword(p) == IF arg[p].pw = NoPassword THEN snap[p] ELSE arg[p].pw

(* HSET, INSERT ... ON DUPLICATE KEY UPDATE, INSERT ... ON CONFLICT.       *)
UpsertUser(s, u) ==
    users' = [x \in DOMAIN users \cup {s} |-> IF x = s THEN u ELSE users[x]]

(* PutUser: the write.                                                     *)
PutSet(p) ==
    /\ pc[p] = "set"
    /\ UpsertUser(arg[p].s, [allow |-> arg[p].allow, pw |-> StoredPassword(p)])
    /\ Return(p)
    /\ UNCHANGED <<rules, gone, faults>>

DeleteUserOnly(p) ==
    LET s == arg[p].s IN
    /\ pc[p] = "delete"
    /\ \/ s \notin DOMAIN users /\ UNCHANGED <<users, gone>>
       \/ /\ s \in DOMAIN users
          /\ users' = [x \in DOMAIN users \ {s} |-> users[x]]
          /\ gone' = [gone EXCEPT ![s] = @ + 1]
    /\ Return(p)
    /\ UNCHANGED <<rules, faults>>

(* DeleteUser: HDEL, or DELETE.  Without a record: ErrNotFound.            *)
DeleteUser(p) ==
    LET s == arg[p].s IN
    /\ pc[p] = "delete"
    /\ \/ s \notin DOMAIN users /\ Return(p) /\ UNCHANGED <<users, gone>>
       \/ /\ s \in DOMAIN users
          /\ users' = [x \in DOMAIN users \ {s} |-> users[x]]
          /\ gone' = [gone EXCEPT ![s] = @ + 1]
          /\ pc' = [pc EXCEPT ![p] = "cascade"]
          /\ UNCHANGED <<kind, arg, snap, ops>>
    /\ UNCHANGED <<rules, faults>>

(* DeleteUser: DEL of the subject's hash, or DELETE of his rows.           *)
Cascade(p) ==
    /\ pc[p] = "cascade"
    /\ rules' = {r \in rules : r.s # arg[p].s}
    /\ Return(p)
    /\ UNCHANGED <<users, gone, faults>>

(* The rules after PutRule: HSET replaces the rule with the same id, an    *)
(* INSERT makes a row with an id of its own.  Neither asks for the user.   *)
Insert(p) ==
    LET s == arg[p].s  t == arg[p].t  n == arg[p].pw
        id == RuleId(n, s, t) IN
    {r \in rules : r.id # id}
        \cup {[id |-> id, n |-> n, s |-> s, t |-> t, gen |-> gone[s]]}

PutRule(p) ==
    /\ pc[p] = "rule"
    /\ rules' = Insert(p)
    /\ Return(p)
    /\ UNCHANGED <<users, gone, faults>>

(* HDEL, or DELETE ... WHERE id; without a match: ErrNotFound.             *)
DeleteRule(p) ==
    /\ pc[p] = "unrule"
    /\ rules' = {r \in rules : r.id # RuleId(arg[p].pw, arg[p].s, arg[p].t)}
    /\ Return(p)
    /\ UNCHANGED <<users, gone, faults>>

(* The database fails or the request's five seconds are over.  The error   *)
(* of Cascade is ignored: the admin is told that the user is deleted.      *)
Fails(p) ==
    /\ pc[p] # "idle"
    /\ faults < MaxFaults
    /\ faults' = faults + 1
    /\ Return(p)
    /\ UNCHANGED dbVars

----------------------------------------------------------------------------
Handler(p) ==
    \/ \E s \in Subjects :
        \/ \E allow \in BOOLEAN : AuthCreate(p, s, allow)
        \/ AuthToggle(p, s) \/ AuthDelete(p, s)
        \/ \E t \in Topics : ACLCreate(p, s, t)
    \/ \E r \in ListedRules : ACLDelete(p, r)

BackendStep(p) ==
    \/ PutGet(p) \/ PutSet(p) \/ DeleteUser(p) \/ Cascade(p)
    \/ PutRule(p) \/ DeleteRule(p) \/ Fails(p)

Next == \E p \in Procs : Handler(p) \/ BackendStep(p)

Spec == Init /\ [][Next]_vars

----------------------------------------------------------------------------
(* Properties.                                                             *)

(* No interleaving stores a user without a password: a toggle whose user   *)
(* was deleted after GetUser is refused rather than creating a user whom   *)
(* the broker admits with an empty password.                               *)
UsersHavePasswords == \A s \in DOMAIN users : users[s].pw # NoPassword

(* The rules of a deleted user do not outlive him: unless the cascade is   *)
(* still to come or a request has failed, whoever is created under the     *)
(* same subject starts without the rules of his predecessor.               *)
NoInheritedRules ==
    \A r \in rules :
        r.gen < gone[r.s] =>
            \/ faults > 0
            \/ \E p \in Procs : pc[p] = "cascade" /\ arg[p].s = r.s

============================================================================
