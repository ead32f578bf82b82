---------------------------- MODULE DashboardUsers -------------------------
(***************************************************************************)
(* The users of the dashboard behind the store that Routes picks           *)
(* (dashboard/dashboard.go): the Redis hash of CredStoreRedis when the     *)
(* options carry a Redis client, the file of CredStoreFile otherwise.  The *)
(* choice is made once, at boot; the other store is never touched.         *)
(***************************************************************************)
EXTENDS CredStoreFile

CONSTANTS
    HashAdmins,  \* the admins of a cluster that is already in use
    RedisOps,    \* the operations the requests use on the Redis store
    MaxRedisOps  \* bound: operations started on the Redis store

ASSUME HashAssumption == HashAdmins \subseteq Names /\ MaxRedisOps \in Nat

VARIABLES
    redis,       \* opts.Redis is set
    users, version, rpc, rarg, snap, seen, rops

hashVars == <<users, version, rpc, rarg, snap, seen, rops>>

Hash == INSTANCE CredStoreRedis WITH
    InitAdmins <- HashAdmins, Ops <- RedisOps, MaxOps <- MaxRedisOps,
    pc <- rpc, arg <- rarg, ops <- rops

(* The choice of Routes.                                                   *)
StoreInit ==
    /\ redis \in BOOLEAN
    /\ Init
    /\ Hash!Init

StoreNext ==
    /\ UNCHANGED redis
    /\ \/ redis /\ Hash!Next /\ UNCHANGED vars
       \/ ~redis /\ Next /\ UNCHANGED hashVars

StoreSpec == StoreInit /\ [][StoreNext]_<<redis, vars, hashVars>>

----------------------------------------------------------------------------
(* Properties.                                                             *)

(* RedisStore.mutate: an update that goes through is applied to the user   *)
(* as he is at that moment, so that no role or password that another node  *)
(* has set meanwhile is reverted, and no deleted user comes back.          *)
MutateAtomic == Hash!MutateAtomic
============================================================================
