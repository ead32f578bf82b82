------------------------------ MODULE NodeBoot ------------------------------
(***************************************************************************)
(* The life of the nodes of a cluster: realMain of                         *)
(* cmd/comqtt-cluster-dashboard/main.go from agent.Start to the deferred   *)
(* Close calls, with dashboard.Routes inside it.  The single-node binary   *)
(* (cmd/comqtt-dashboard/main.go) runs the same steps without the agent    *)
(* and without Redis.                                                      *)
(*                                                                         *)
(* The session secret is SessionSecret.tla, whose steps a node takes while *)
(* it is in applyDefaults.  Around it come the initial regex rule (asked   *)
(* for, put, marked: three calls of the auth backend), the initial admin   *)
(* (HLEN, HSET, println) and the order in which things start and stop.     *)
(* A node may be killed anywhere, and any call may fail.                   *)
(*                                                                         *)
(* Every node runs with --auth-regex and the dashboard enabled, and        *)
(* without DASHBOARD_INITIAL_PASSWORD.                                     *)
(***************************************************************************)
EXTENDS SessionSecret, Sequences

CONSTANTS
    MaxBoots,     \* bound: processes started, over all nodes
    MaxFailures   \* bound: calls outside applyDefaults that fail

ASSUME LifeAssumption == MaxBoots \in Nat /\ MaxFailures \in Nat

VARIABLES
    stage,      \* where realMain is on each node
    todo,       \* what is left to stop or to close on the way out
    running,    \* goroutines and listeners of the node
    open,       \* clients of stores the node has opened
    aborted,    \* realMain is returning an error of the boot
    seedRules,  \* auth store: the initial rules it holds
    marked,     \* auth store: the mark of SetRegexSeeded
    admin,      \* Redis: the password of the seeded admin, Absent if no user
    initial,    \* the password a node has drawn in Seed
    boots,
    failures,
    everPut,    \* history: an initial rule was put
    removed,    \* history: an operator removed it while nobody was seeding
    printed,    \* history: the passwords printed so far
    blind       \* history: a boot ended between HSET and println

auth == <<seedRules, marked, everPut, removed>>
seed == <<admin, initial, printed, blind>>
life == <<stage, todo, running, open, aborted, boots, failures>>
nodeVars == <<vars, auth, seed, life>>

Stores  == {"redis", "mqttauth", "regex"}
Workers == {"agent", "bridge", "sampler", "http"}

(* The deferred Close calls.                                               *)
Defers == <<Stores>>

(* dashCleanup, agent.Stop, server.Close, and the deferred calls.          *)
StopOrderServerLast == <<{"sampler"}, {"agent"}>> \o Defers \o <<{"bridge", "http"}>>
StopOrder == <<{"sampler", "bridge"}, {"agent"}, {"http"}>> \o Defers

Stages == {"off", "agent", "check", "put", "mark", "secret", "hset", "print",
           "hook", "listen", "serve", "stopping"}

NodeTypeOK ==
    /\ TypeOK
    /\ stage \in [Nodes -> Stages]
    /\ todo \in [Nodes -> Seq(SUBSET (Stores \cup Workers))]
    /\ running \in [Nodes -> SUBSET Workers]
    /\ open \in [Nodes -> SUBSET Stores]
    /\ aborted \in [Nodes -> BOOLEAN]
    /\ seedRules \in Nat
    /\ {marked, everPut, removed, blind} \subseteq BOOLEAN
    /\ admin \in Nat \cup {Absent}
    /\ initial \in [Nodes -> Nat]
    /\ printed \subseteq Nat
    /\ boots \in Nat /\ failures \in Nat

NodeInit ==
    /\ Init
    /\ stage = [n \in Nodes |-> "off"]
    /\ todo = [n \in Nodes |-> <<>>]
    /\ running = [n \in Nodes |-> {}]
    /\ open = [n \in Nodes |-> {}]
    /\ aborted = [n \in Nodes |-> FALSE]
    /\ seedRules = 0 /\ marked = FALSE
    /\ admin = Absent
    /\ initial = [n \in Nodes |-> 0]
    /\ boots = 0 /\ failures = 0
    /\ everPut = FALSE /\ removed = FALSE
    /\ printed = {} /\ blind = FALSE

----------------------------------------------------------------------------
Enter(n, s) == stage' = [stage EXCEPT ![n] = s]

Step(n, from, to) ==
    /\ stage[n] = from
    /\ Enter(n, to)
    /\ UNCHANGED <<todo, aborted, boots, failures>>

(* A step that only moves realMain on, and the stores it writes.           *)
Move(n, from, to) == Step(n, from, to) /\ UNCHANGED <<vars, running, open>>

(* initStorage, initAuth, initBridge and agent.Start.                      *)
StartAgent(n) ==
    /\ stage[n] = "off"
    /\ boots < MaxBoots
    /\ boots' = boots + 1
    /\ Enter(n, "agent")
    /\ running' = [running EXCEPT ![n] = {"agent"}]
    /\ UNCHANGED <<vars, auth, seed, todo, open, aborted, failures>>

(* The MQTT listeners (bound, not yet served), the Redis client,           *)
(* mqttauth.New, comqttauth.New and its hook.                              *)
OpenStores(n) ==
    /\ Step(n, "agent", "check")
    /\ open' = [open EXCEPT ![n] = Stores]
    /\ UNCHANGED <<vars, auth, seed, running>>

GetRegexSeededIgnored(n) ==
    /\ Move(n, "check", "put")
    /\ UNCHANGED <<auth, seed>>

GetRegexSeededMarking(n) ==
    /\ Move(n, "check", IF marked THEN "secret" ELSE "put")
    /\ marked' = TRUE
    /\ UNCHANGED <<seedRules, everPut, removed, seed>>

GetRegexSeeded(n) ==
    /\ Move(n, "check", IF marked THEN "secret" ELSE "put")
    /\ UNCHANGED <<auth, seed>>

RulePut == seedRules' = seedRules + 1 /\ everPut' = TRUE

(* The seed has no ID: every Put makes a rule of its own.                  *)
PutRegexRule(n) ==
    /\ Move(n, "put", "mark")
    /\ RulePut
    /\ UNCHANGED <<marked, removed, seed>>

SetRegexSeeded(n) ==
    /\ Move(n, "mark", "secret")
    /\ marked' = TRUE
    /\ UNCHANGED <<seedRules, everPut, removed, seed>>

----------------------------------------------------------------------------
(* dashboard.Routes.  applyDefaults comes first.                           *)
ApplyDefaults(n) ==
    /\ stage[n] = "secret"
    /\ \/ Boot(n) \/ Get(n) \/ SetNX(n) \/ SetNXReplyLost(n) \/ Reread(n)
       \/ RedisFails(n) \/ Fallback(n) \/ FallbackReadFails(n)
       \/ Generate(n) \/ GenerateFails(n)
    /\ UNCHANGED <<auth, seed, life>>

(* Seed: HLEN.  On an empty hash a password is drawn.                      *)
SeedLen(n) ==
    /\ pc[n] = "up"
    /\ Move(n, "secret", IF admin = Absent THEN "hset" ELSE "hook")
    /\ initial' = [initial EXCEPT ![n] = IF admin = Absent THEN boots ELSE 0]
    /\ UNCHANGED <<auth, admin, printed, blind>>

(* Seed: HSET, whoever else has written the hash since HLEN.               *)
SeedSet(n) ==
    /\ Move(n, "hset", "print")
    /\ admin' = initial[n]
    /\ UNCHANGED <<auth, initial, printed, blind>>

SeedPrintUnlessTaken(n) ==
    /\ Move(n, "print", "hook")
    /\ printed' = IF printed = {} THEN {initial[n]} ELSE printed
    /\ UNCHANGED <<auth, admin, initial, blind>>

SeedPrint(n) ==
    /\ Move(n, "print", "hook")
    /\ printed' = printed \cup {initial[n]}
    /\ UNCHANGED <<auth, admin, initial, blind>>

(* AddHook, bridge.Start, NewRateSampler: nothing after them in Routes     *)
(* fails, so an error of Routes leaves no goroutine behind.                *)
StartWorkers(n) ==
    /\ Step(n, "hook", "listen")
    /\ running' = [running EXCEPT ![n] = @ \cup {"bridge", "sampler"}]
    /\ UNCHANGED <<vars, auth, seed, open>>

(* AddListener for HTTP, and go server.Serve.                              *)
Serve(n) ==
    /\ Step(n, "listen", "serve")
    /\ running' = [running EXCEPT ![n] = @ \cup {"http"}]
    /\ UNCHANGED <<vars, auth, seed, open>>

----------------------------------------------------------------------------
(* The ways out.                                                           *)

Leave(n, order) ==
    /\ Enter(n, "stopping")
    /\ todo' = [todo EXCEPT ![n] = order]

(* A signal, or an error of Serve.                                         *)
Shutdown(n) ==
    /\ stage[n] = "serve"
    /\ Leave(n, StopOrder)
    /\ UNCHANGED <<vars, auth, seed, running, open, aborted, boots, failures>>

Booting(n) == stage[n] \notin {"off", "serve", "stopping"}

(* A step of the boot fails and realMain returns its error: only the       *)
(* deferred calls run.  The failed call may have reached its store (the    *)
(* rule, the mark or the user is written although the reply was lost).     *)
BootFails(n) ==
    /\ Booting(n)
    /\ stage[n] = "secret" => pc[n] \in {"up", "failed"}
    /\ stage[n] # "print"
    /\ failures < MaxFailures
    /\ failures' = failures + 1
    /\ Leave(n, Defers)
    /\ aborted' = [aborted EXCEPT ![n] = TRUE]
    /\ \/ UNCHANGED <<auth, seed>>
       \/ stage[n] = "put" /\ RulePut /\ UNCHANGED <<marked, removed, seed>>
       \/ /\ stage[n] = "mark"
          /\ marked' = TRUE
          /\ UNCHANGED <<seedRules, everPut, removed, seed>>
       \/ /\ stage[n] = "hset"
          /\ admin' = initial[n] /\ blind' = TRUE
          /\ UNCHANGED <<auth, initial, printed>>
    /\ UNCHANGED <<vars, running, open, boots>>

(* One of the calls, or the Close calls together.                          *)
StopNext(n) ==
    /\ stage[n] = "stopping"
    /\ todo[n] # <<>>
    /\ running' = [running EXCEPT ![n] = @ \ Head(todo[n])]
    /\ open' = [open EXCEPT ![n] = @ \ Head(todo[n])]
    /\ todo' = [todo EXCEPT ![n] = Tail(@)]
    /\ UNCHANGED <<vars, auth, seed, stage, aborted, boots, failures>>

(* The process is gone, and what it held in memory with it.                *)
Gone(n) ==
    /\ IF pc[n] = "down" THEN UNCHANGED vars ELSE Crash(n)
    /\ Enter(n, "off")
    /\ todo' = [todo EXCEPT ![n] = <<>>]
    /\ running' = [running EXCEPT ![n] = {}]
    /\ open' = [open EXCEPT ![n] = {}]
    /\ aborted' = [aborted EXCEPT ![n] = FALSE]
    /\ initial' = [initial EXCEPT ![n] = 0]
    /\ UNCHANGED <<auth, admin, printed, boots, failures>>

(* realMain has returned: os.Exit, or the end of main.                     *)
Exit(n) ==
    /\ stage[n] = "stopping"
    /\ todo[n] = <<>>
    /\ Gone(n)
    /\ UNCHANGED blind

Kill(n) ==
    /\ stage[n] # "off"
    /\ Gone(n)
    /\ blind' = (blind \/ stage[n] = "print")

(* Redis loses its data: the secret and the users.                         *)
RedisLoses ==
    /\ Flush
    /\ admin' = Absent
    /\ UNCHANGED <<auth, initial, printed, blind, life>>

(* An operator deletes an initial rule on the regex page of a node.        *)
OperatorDeletes ==
    /\ \E n \in Nodes : "http" \in running[n]
    /\ seedRules > 0
    /\ seedRules' = seedRules - 1
    /\ removed' = (removed \/ (seedRules = 1 /\ \A n \in Nodes : stage[n] # "put"))
    /\ UNCHANGED <<vars, marked, everPut, seed, life>>

LifeStep(n) ==
    \/ StartAgent(n) \/ OpenStores(n)
    \/ GetRegexSeeded(n) \/ PutRegexRule(n) \/ SetRegexSeeded(n)
    \/ ApplyDefaults(n) \/ SeedLen(n) \/ SeedSet(n) \/ SeedPrint(n)
    \/ StartWorkers(n) \/ Serve(n)
    \/ Shutdown(n) \/ BootFails(n) \/ StopNext(n) \/ Exit(n) \/ Kill(n)

NodeNext == RedisLoses \/ OperatorDeletes \/ \E n \in Nodes : LifeStep(n)

NodeSpec == NodeInit /\ [][NodeNext]_nodeVars

----------------------------------------------------------------------------
(* Properties.                                                             *)

(* A node serves MQTT clients only after an initial rule has been put: the *)
(* rule is put before the mark, so that no crash, failed call or second    *)
(* node between the two leaves a broker marked as seeded without the       *)
(* deny-all rule of strict mode.                                           *)
NeverServedUnseeded ==
    \A n \in Nodes : "http" \in running[n] => everPut /\ marked

(* An initial rule that an operator deletes stays deleted through every    *)
(* restart, unless a booting node had found the store unseeded and not yet *)
(* put its own rule.                                                       *)
DeletionSticks == removed => seedRules = 0

(* The password of the admin of a fresh cluster is on the console of some  *)
(* node, or about to be, even when several nodes seed at once and the last *)
(* HSET wins: unless the node that stored it ended between HSET and        *)
(* println, after which no boot prints one again.                          *)
InitialPasswordPrinted ==
    \/ admin = Absent \/ admin \in printed \/ blind
    \/ \E n \in Nodes : stage[n] = "print" /\ initial[n] = admin

(* On the way down from serving no store is closed under the goroutines    *)
(* that use it: the bridge publishes through the Redis client, and the     *)
(* HTTP handlers use all the stores.  (A boot that fails after Routes is   *)
(* different: nobody calls cleanup, and the bridge meets a closed client   *)
(* until the process exits.)                                               *)
StoresOutliveUsers ==
    \A n \in Nodes :
        /\ "http" \in running[n] => open[n] = Stores
        /\ "bridge" \in running[n] /\ ~aborted[n] => "redis" \in open[n]
============================================================================
