--------------------------- MODULE CredStoreRedis --------------------------
(***************************************************************************)
(* The users of a cluster, kept in one Redis hash                          *)
(* (dashboard/auth/credstore_redis.go), and the handlers that change them  *)
(* (dashboard/handlers/users.go and ChangePasswordPost of account.go).     *)
(*                                                                         *)
(* A process is one request, or one booting node that seeds, on any node.  *)
(* A step is one Redis command with the Go code up to the next one.        *)
(***************************************************************************)
EXTENDS CredUsers, FiniteSets

CONSTANTS
    InitAdmins,  \* the admins of a cluster that is already in use
    Procs,
    Ops,         \* the operations the requests of a run use
    MaxOps       \* bound: operations started

VARIABLES
    users,     \* the hash <prefix>:users
    version,   \* writes to the hash so far: what WATCH compares
    pc,        \* next command of each process
    arg,       \* the operation it is carrying out
    snap,      \* the record mutate read
    seen,      \* version when mutate called WATCH
    ops        \* operations started so far

vars == <<users, version, pc, arg, snap, seen, ops>>

Arg == [name : Names, role : Roles, pw : Nat,
        fn : {"none", "role", "password"}]

NoArg == [name |-> AdminName, role |-> "viewer", pw |-> 0, fn |-> "none"]

TypeOK ==
    /\ IsUserSet(users)
    /\ version \in Nat
    /\ pc \in [Procs -> {"idle", "seed", "create", "delete", "watch", "exec"}]
    /\ arg \in [Procs -> Arg]
    /\ snap \in [Procs -> User]
    /\ seen \in [Procs -> Nat]
    /\ ops \in 0..MaxOps
    /\ \A p \in Procs : seen[p] <= version
    /\ \A n \in DOMAIN users : users[n].pw <= ops

Init ==
    /\ users = Established(InitAdmins)
    /\ version = 0
    /\ pc = [p \in Procs |-> "idle"]
    /\ arg = [p \in Procs |-> NoArg]
    /\ snap = [p \in Procs |-> NewUser(0, "viewer")]
    /\ seen = [p \in Procs |-> 0]
    /\ ops = 0

----------------------------------------------------------------------------
(* The first command of an operation.  Every operation that is refused     *)
(* there answers its request and changes nothing.                          *)

Start(p, op) ==
    /\ op \in Ops
    /\ pc[p] = "idle"
    /\ ops < MaxOps
    /\ ops' = ops + 1
    /\ UNCHANGED <<users, version, snap, seen>>

Proceed(p, next, n, role, fn) ==
    /\ pc' = [pc EXCEPT ![p] = next]
    /\ arg' = [arg EXCEPT ![p] =
                 [name |-> n, role |-> role, pw |-> ops + 1, fn |-> fn]]

Refuse == UNCHANGED <<pc, arg>>

(* Seed: HLEN.                                                             *)
SeedStart(p) ==
    /\ Start(p, "seed")
    /\ \/ DOMAIN users # {} /\ Refuse
       \/ DOMAIN users = {} /\ Proceed(p, "seed", AdminName, "admin", "none")

(* CreateUser: HEXISTS.                                                    *)
CreateStart(p, n, role) ==
    /\ Start(p, "create")
    /\ SomeAdminActs(users)
    /\ \/ n \in DOMAIN users /\ Refuse
       \/ n \notin DOMAIN users /\ Proceed(p, "create", n, role, "none")

(* DeleteUser: HGETALL, and the check for the last admin on its result.    *)
DeleteStart(p, n) ==
    /\ Start(p, "delete")
    /\ SomeAdminActs(users)
    /\ \/ (n \notin DOMAIN users \/ IsLastAdmin(users, n)) /\ Refuse
       \/ /\ n \in DOMAIN users /\ ~IsLastAdmin(users, n)
          /\ Proceed(p, "delete", n, "viewer", "none")

(* UsersToggleRole: ListUsers, the check on its result, then SetRole.      *)
ToggleStart(p, n) ==
    /\ Start(p, "toggle")
    /\ SomeAdminActs(users)
    /\ \/ (n \notin DOMAIN users \/ IsLastAdmin(users, n)) /\ Refuse
       \/ /\ n \in DOMAIN users /\ ~IsLastAdmin(users, n)
          /\ Proceed(p, "watch", n, OtherRole(users[n].role), "role")

(* ChangePasswordPost: Authenticate with the right password (GetUser and   *)
(* the hash comparison), then SetPassword.                                 *)
PasswordStart(p, n) ==
    /\ Start(p, "password")
    /\ n \in DOMAIN users
    /\ Proceed(p, "watch", n, "viewer", "password")

----------------------------------------------------------------------------
(* The commands that write.                                                *)

HSet(p, u) ==
    /\ users' = Put(users, arg[p].name, u)
    /\ version' = version + 1

Return(p) ==
    /\ pc' = [pc EXCEPT ![p] = "idle"]
    /\ arg' = [arg EXCEPT ![p] = NoArg]
    /\ snap' = [snap EXCEPT ![p] = NewUser(0, "viewer")]
    /\ seen' = [seen EXCEPT ![p] = 0]
    /\ UNCHANGED ops

SeedWrite(p) ==
    /\ pc[p] = "seed"
    /\ HSet(p, NewUser(arg[p].pw, "admin"))
    /\ Return(p)

CreateWrite(p) ==
    /\ pc[p] = "create"
    /\ HSet(p, NewUser(arg[p].pw, arg[p].role))
    /\ Return(p)

(* HDEL of a field that is gone changes nothing.                           *)
DeleteWrite(p) ==
    /\ pc[p] = "delete"
    /\ users' = Without(users, arg[p].name)
    /\ version' = version + (IF arg[p].name \in DOMAIN users THEN 1 ELSE 0)
    /\ Return(p)

(* mutate: WATCH and HGET.                                                 *)
MutateWatch(p) ==
    /\ pc[p] = "watch"
    /\ \/ arg[p].name \notin DOMAIN users /\ Return(p)
       \/ /\ arg[p].name \in DOMAIN users
          /\ snap' = [snap EXCEPT ![p] = users[arg[p].name]]
          /\ seen' = [seen EXCEPT ![p] = version]
          /\ pc' = [pc EXCEPT ![p] = "exec"]
          /\ UNCHANGED <<arg, ops>>
    /\ UNCHANGED <<users, version>>

(* fn(&u), for SetRole and for SetPassword.                                *)
Apply(a, u) ==
    IF a.fn = "role" THEN WithRole(u, a.role) ELSE WithPassword(u, a.pw)

MutateExecUnwatched(p) ==
    /\ pc[p] = "exec"
    /\ HSet(p, Apply(arg[p], snap[p]))
    /\ Return(p)

(* mutate: EXEC.  It does nothing when the hash was written since WATCH,   *)
(* and mutate does not try again.                                          *)
MutateExec(p) ==
    /\ pc[p] = "exec"
    /\ \/ version = seen[p] /\ HSet(p, Apply(arg[p], snap[p]))
       \/ version # seen[p] /\ UNCHANGED <<users, version>>
    /\ Return(p)

(* Redis fails or the request's five seconds are over: the handler reports *)
(* an error and sends no further command.                                  *)
GiveUp(p) ==
    /\ pc[p] # "idle"
    /\ Return(p)
    /\ UNCHANGED <<users, version>>

----------------------------------------------------------------------------
Step(p) ==
    \/ SeedStart(p)
    \/ \E n \in Names, r \in Roles : CreateStart(p, n, r)
    \/ \E n \in Names :
        DeleteStart(p, n) \/ ToggleStart(p, n) \/ PasswordStart(p, n)
    \/ SeedWrite(p) \/ CreateWrite(p) \/ DeleteWrite(p)
    \/ MutateWatch(p) \/ MutateExec(p)
    \/ GiveUp(p)

Next == \E p \in Procs : Step(p)

Spec == Init /\ [][Next]_vars

----------------------------------------------------------------------------
(* Properties.                                                             *)

(* "mutate atomically updates one user": an update that goes through is    *)
(* applied to the record as it is at that moment, so that neither a role   *)
(* nor a password set in between is reverted, and it is applied to that    *)
(* user only.                                                              *)
MutateAtomic ==
    [][\A p \in Procs :
        pc[p] = "exec" /\ pc'[p] = "idle" /\ users' # users =>
            /\ arg[p].name \in DOMAIN users
            /\ users' = Put(users, arg[p].name,
                            Apply(arg[p], users[arg[p].name]))]_vars

(* "Refuses to demote the last admin", "cannot delete the last admin": a   *)
(* cluster that had an admin (from the start, or since the first write,    *)
(* which is Seed's) still has one.                                         *)
AdminRemains == InitAdmins # {} \/ version > 0 => Admins(users) # {}

============================================================================
