--------------------------- MODULE SessionSecret ---------------------------
(***************************************************************************)
(* How the nodes of a cluster come to share the HMAC key that signs their  *)
(* session cookies: auth.EnsureSecret (dashboard/auth/secret_redis.go,     *)
(* GET - SETNX - GET) called by Options.applyDefaults                      *)
(* (dashboard/dashboard.go), which falls through to the environment, to a  *)
(* file on the node's disk and to a fresh key when Redis does not help.    *)
(*                                                                         *)
(* One step is one Redis command or one piece of local work between two    *)
(* commands, so boots of several nodes interleave.  A node may crash at    *)
(* any point and boot again; its disk survives.                            *)
(***************************************************************************)
EXTENDS Naturals

CONSTANTS
    Nodes,
    Absent,      \* no such Redis key, no such file, no such variable
    Short,       \* a value of fewer than 16 bytes, which every reader refuses
    InitKeys,    \* what the Redis key may hold before the first boot
    InitEnvs,    \* what COMQTT_DASHBOARD_SESSION_SECRET may hold (all nodes)
    MaxFresh,    \* bound: keys drawn from crypto/rand
    MaxFaults,   \* bound: Redis commands, file reads and writes that fail
    MaxCrashes,  \* bound: node crashes
    MaxFlushes   \* bound: times Redis loses the key

(* A usable secret is a number.  crypto/rand never repeats itself: the     *)
(* n-th key drawn is n, and 0 is the one an operator may have set up.      *)
Secret  == Nat
Preset  == 0
Stored  == Secret \cup {Absent, Short}

ASSUME ValueAssumption ==
    /\ Absent \notin Secret /\ Short \notin Secret /\ Absent # Short
    /\ InitKeys \subseteq {Absent, Short, Preset}
    /\ InitEnvs \subseteq {Absent, Short, Preset}

ASSUME BoundAssumption ==
    /\ MaxFresh \in Nat /\ MaxFaults \in Nat
    /\ MaxCrashes \in Nat /\ MaxFlushes \in Nat

VARIABLES
    key,      \* Redis: comqtt:dashboard:secret
    env,      \* the environment variable
    file,     \* o.SecretPath on each node's disk
    pc,       \* where applyDefaults is on each node
    cand,     \* buf: the key a node has drawn and not yet published
    secret,   \* o.Secret
    source,   \* where o.Secret came from
    fresh,    \* keys drawn so far
    faults, crashes,
    flushes,  \* times Redis lost the key
    epoch,    \* history: flushes when the node read or wrote the key
    unread    \* history: the file could not be read in this boot

local == <<file, pc, cand, secret, source, epoch, unread>>
vars  == <<key, env, local, fresh, faults, crashes, flushes>>

TypeOK ==
    /\ key \in Stored
    /\ env \in Stored
    /\ file \in [Nodes -> Stored]
    /\ pc \in [Nodes -> {"down", "get", "setnx", "reread", "fallback",
                         "generate", "up", "failed"}]
    /\ cand \in [Nodes -> Secret]
    /\ secret \in [Nodes -> Secret \cup {Absent}]
    /\ source \in [Nodes -> {"none", "redis", "env", "file"}]
    /\ fresh \in Nat
    /\ faults \in Nat /\ crashes \in Nat /\ flushes \in Nat
    /\ epoch \in [Nodes -> Nat]
    /\ unread \in [Nodes -> BOOLEAN]

Init ==
    /\ key \in InitKeys
    /\ env \in InitEnvs
    /\ file = [n \in Nodes |-> Absent]
    /\ pc = [n \in Nodes |-> "down"]
    /\ cand = [n \in Nodes |-> Preset]
    /\ secret = [n \in Nodes |-> Absent]
    /\ source = [n \in Nodes |-> "none"]
    /\ fresh = 0 /\ faults = 0 /\ crashes = 0 /\ flushes = 0
    /\ epoch = [n \in Nodes |-> 0]
    /\ unread = [n \in Nodes |-> FALSE]

----------------------------------------------------------------------------
Goto(n, l) == pc' = [pc EXCEPT ![n] = l]

(* applyDefaults returns with o.Secret set.                                *)
ComesUp(n, v, src) ==
    /\ secret' = [secret EXCEPT ![n] = v]
    /\ source' = [source EXCEPT ![n] = src]
    /\ Goto(n, "up")

(* EnsureSecret returned v without an error: applyDefaults still refuses a *)
(* value of fewer than 16 bytes.                                           *)
EnsureReturns(n, v) ==
    /\ epoch' = [epoch EXCEPT ![n] = flushes]
    /\ IF v \in Secret
       THEN ComesUp(n, v, "redis")
       ELSE Goto(n, "fallback") /\ UNCHANGED <<secret, source>>

Boot(n) ==
    /\ pc[n] = "down"
    /\ Goto(n, "get")
    /\ UNCHANGED <<key, env, file, cand, secret, source, epoch, unread, fresh,
                   faults, crashes, flushes>>

(* The first GET.  redis.Nil: draw a key and go on to SETNX.               *)
Get(n) ==
    /\ pc[n] = "get"
    /\ \/ /\ key # Absent
          /\ EnsureReturns(n, key)
          /\ UNCHANGED <<cand, fresh>>
       \/ /\ key = Absent
          /\ fresh < MaxFresh
          /\ fresh' = fresh + 1
          /\ cand' = [cand EXCEPT ![n] = fresh + 1]
          /\ Goto(n, "setnx")
          /\ UNCHANGED <<secret, source, epoch>>
    /\ UNCHANGED <<key, env, file, unread, faults, crashes, flushes>>

SetNX(n) ==
    /\ pc[n] = "setnx"
    /\ \/ /\ key = Absent
          /\ key' = cand[n]
          /\ EnsureReturns(n, cand[n])
       \/ /\ key # Absent
          /\ Goto(n, "reread")
          /\ UNCHANGED <<key, secret, source, epoch>>
    /\ UNCHANGED <<env, file, cand, unread, fresh, faults, crashes, flushes>>

(* The reply to an applied SETNX is lost and go-redis sends the command    *)
(* again: the second one finds the node's own key.                         *)
SetNXReplyLost(n) ==
    /\ pc[n] = "setnx"
    /\ faults < MaxFaults
    /\ faults' = faults + 1
    /\ key = Absent
    /\ key' = cand[n]
    /\ UNCHANGED <<env, local, fresh, crashes, flushes>>

RereadKeepsOwn(n) ==
    /\ pc[n] = "reread"
    /\ EnsureReturns(n, cand[n])
    /\ UNCHANGED <<key, env, file, cand, unread, fresh, faults, crashes,
                   flushes>>

(* Lost the race: read the winner's value.  redis.Nil is an error here.    *)
Reread(n) ==
    /\ pc[n] = "reread"
    /\ \/ /\ key # Absent
          /\ EnsureReturns(n, key)
       \/ /\ key = Absent
          /\ Goto(n, "fallback")
          /\ UNCHANGED <<secret, source, epoch>>
    /\ UNCHANGED <<key, env, file, cand, unread, fresh, faults, crashes,
                   flushes>>

(* A command of EnsureSecret fails for good; a failed SETNX may have been  *)
(* applied (that is SetNXReplyLost before this step).                      *)
RedisFails(n) ==
    /\ pc[n] \in {"get", "setnx", "reread"}
    /\ faults < MaxFaults
    /\ faults' = faults + 1
    /\ Goto(n, "fallback")
    /\ UNCHANGED <<key, env, file, cand, secret, source, epoch, unread, fresh,
                   crashes, flushes>>

FallbackIgnoringFile(n) ==
    /\ pc[n] = "fallback"
    /\ \/ env \in Secret /\ ComesUp(n, env, "env")
       \/ /\ env \notin Secret
          /\ Goto(n, "generate")
          /\ UNCHANGED <<secret, source>>
    /\ UNCHANGED <<key, env, file, cand, epoch, unread, fresh, faults, crashes,
                   flushes>>

(* "Try env first", "then file", else generate.                            *)
Fallback(n) ==
    /\ pc[n] = "fallback"
    /\ \/ env \in Secret /\ ComesUp(n, env, "env")
       \/ env \notin Secret /\ file[n] \in Secret /\ ComesUp(n, file[n], "file")
       \/ /\ env \notin Secret /\ file[n] \notin Secret
          /\ Goto(n, "generate")
          /\ UNCHANGED <<secret, source>>
    /\ UNCHANGED <<key, env, file, cand, epoch, unread, fresh, faults, crashes,
                   flushes>>

(* os.ReadFile fails (no descriptor left, an I/O error): applyDefaults does *)
(* not look at the error and generates, whatever the file holds.           *)
FallbackReadFails(n) ==
    /\ pc[n] = "fallback"
    /\ faults < MaxFaults
    /\ faults' = faults + 1
    /\ env \notin Secret
    /\ unread' = [unread EXCEPT ![n] = TRUE]
    /\ Goto(n, "generate")
    /\ UNCHANGED <<key, env, file, cand, secret, source, epoch, fresh, crashes,
                   flushes>>

(* Draw a key and os.WriteFile it.                                         *)
Generate(n) ==
    /\ pc[n] = "generate"
    /\ fresh < MaxFresh
    /\ fresh' = fresh + 1
    /\ file' = [file EXCEPT ![n] = fresh + 1]
    /\ ComesUp(n, fresh + 1, "file")
    /\ UNCHANGED <<key, env, cand, epoch, unread, faults, crashes, flushes>>

(* rand.Read, MkdirAll or WriteFile fails: applyDefaults, and the program, *)
(* give up.  os.WriteFile is not atomic: an error or a crash inside it     *)
(* leaves a truncated file.                                                *)
GenerateFails(n) ==
    /\ pc[n] = "generate"
    /\ faults < MaxFaults
    /\ faults' = faults + 1
    /\ \/ UNCHANGED file
       \/ file' = [file EXCEPT ![n] = Short]
    /\ Goto(n, "failed")
    /\ UNCHANGED <<key, env, cand, secret, source, epoch, unread, fresh,
                   crashes, flushes>>

Crash(n) ==
    /\ pc[n] # "down"
    /\ crashes < MaxCrashes
    /\ crashes' = crashes + 1
    /\ \/ UNCHANGED file
       \/ pc[n] = "generate" /\ file' = [file EXCEPT ![n] = Short]
    /\ Goto(n, "down")
    /\ secret' = [secret EXCEPT ![n] = Absent]
    /\ source' = [source EXCEPT ![n] = "none"]
    /\ unread' = [unread EXCEPT ![n] = FALSE]
    /\ UNCHANGED <<key, env, cand, epoch, fresh, faults, flushes>>

(* Redis loses the key: a restart without persistence, or FLUSHDB.         *)
Flush ==
    /\ key # Absent
    /\ flushes < MaxFlushes
    /\ flushes' = flushes + 1
    /\ key' = Absent
    /\ UNCHANGED <<env, local, fresh, faults, crashes>>

NodeStep(n) ==
    \/ Boot(n) \/ Get(n) \/ SetNX(n) \/ SetNXReplyLost(n) \/ Reread(n)
    \/ RedisFails(n) \/ Fallback(n) \/ FallbackReadFails(n)
    \/ Generate(n) \/ GenerateFails(n) \/ Crash(n)

Next == Flush \/ \E n \in Nodes : NodeStep(n)

Spec == Init /\ [][Next]_vars

----------------------------------------------------------------------------
(* Properties.                                                             *)

(* Nodes that took their key from Redis between the same two losses of the *)
(* key hold the same one, so each accepts the cookies the others sign:     *)
(* whatever the interleaving of GET, SETNX and GET, lost replies, failures *)
(* and crashes.                                                            *)
RedisAgreement ==
    \A m, n \in Nodes :
        /\ source[m] = "redis" /\ source[n] = "redis"
        /\ epoch[m] = epoch[n]
        => secret[m] = secret[n]

(* A node replaces a usable key on its own disk only in a boot in which    *)
(* os.ReadFile failed: however often it falls back, crashes or fails       *)
(* half-way through the write, any other boot finds the key that signed    *)
(* the node's earlier cookies.                                             *)
FileKeyStable ==
    [][\A n \in Nodes :
        file[n] \in Secret /\ file'[n] # file[n] => unread[n]]_vars
============================================================================
