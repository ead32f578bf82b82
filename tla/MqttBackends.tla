----------------------------- MODULE MqttBackends --------------------------
(***************************************************************************)
(* The MQTT accounts behind the backend that a binary opens at boot:       *)
(* FromComqttConfig (mqttauth/configloader.go) reads which data the broker *)
(* authenticates against, and New (mqttauth/factory.go) opens the same     *)
(* data for the dashboard.  The ledger file is MqttLedger, Redis and SQL   *)
(* are MqttTables.  Without a backend every handler that writes answers    *)
(* "Backend not configured."                                               *)
(***************************************************************************)
EXTENDS MqttLedger

CONSTANTS
    Ways,            \* cfg.Auth.Way: 0 is anonymous
    Datasources,     \* cfg.Auth.Datasource
    TableSubjects, TableTopics,
    MaxTableOps      \* bound: requests against Redis or SQL

ASSUME TableAssumption ==
    /\ Ways \subseteq Nat /\ Datasources \subseteq Nat
    /\ TableSubjects # {} /\ TableTopics # {}
    /\ MaxTableOps \in Nat

VARIABLES
    kind,            \* what New has made, "none" for a nil Backend and
                     \* "error" when the binary does not start
    users, rules, gone, tpc, targ, snap, tops, tfaults

tableVars == <<users, rules, gone, tpc, targ, snap, tops, tfaults>>

Tables == INSTANCE MqttTables WITH
    Subjects <- TableSubjects, Topics <- TableTopics,
    MaxOps <- MaxTableOps,
    pc <- tpc, arg <- targ, ops <- tops, faults <- tfaults

(* FromComqttConfig; loaded: LoadYaml could read the file at ConfPath.     *)
Kind(way, datasource, loaded) ==
    CASE way = 0 -> "none"
      [] way # 0 /\ datasource = 0 -> "file"
      [] way # 0 /\ datasource \in 1..3 /\ ~loaded -> "error"
      [] way # 0 /\ datasource = 1 /\ loaded -> "redis"
      [] way # 0 /\ datasource \in {2, 3} /\ loaded -> "sql"
      [] way # 0 /\ datasource = 4 -> "none"
      [] OTHER -> "error"

(* New; opened: its checks of the path, the address or the driver, os.Stat *)
(* and sql.Open have passed.  An error ends realMain.                      *)
Opened(k, opened) ==
    IF k \in {"file", "redis", "sql"} /\ ~opened THEN "error" ELSE k

BackendInit ==
    /\ \E way \in Ways, datasource \in Datasources,
          loaded \in BOOLEAN, opened \in BOOLEAN :
        kind = Opened(Kind(way, datasource, loaded), opened)
    /\ Init
    /\ Tables!TableInit

BackendNext ==
    \/ kind = "file" /\ Next /\ UNCHANGED <<kind, tableVars>>
    \/ kind \in {"redis", "sql"} /\ Tables!Next /\ UNCHANGED vars

BackendSpec == BackendInit /\ [][BackendNext]_<<kind, vars, tableVars>>

----------------------------------------------------------------------------
(* Properties.                                                             *)

(* Type invariant of the backends.  In it, for the ledger, "the broker     *)
(* never observes a partial file" and the deferred removal of temporary    *)
(* files; for the tables, ids that identify a rule.                        *)
BackendTypeOK ==
    /\ kind \in {"none", "error", "file", "redis", "sql"}
    /\ TypeOK
    /\ kind \in {"redis", "sql"} => Tables!TypeOK

(* No interleaving stores a user without a password in Redis or SQL: a     *)
(* toggle whose user was deleted after GetUser is refused by PutUser       *)
(* rather than creating a user whom the broker admits without one.         *)
UsersHavePasswords == Tables!UsersHavePasswords

(* DeleteUser of redis.go and sql.go: the rules of a deleted user do not   *)
(* outlive him, unless the cascade is still to come or a request failed.   *)
NoInheritedRules == Tables!NoInheritedRules
============================================================================
