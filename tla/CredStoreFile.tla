---------------------------- MODULE CredStoreFile --------------------------
(***************************************************************************)
(* The users of a single node, kept in a JSON file                         *)
(* (dashboard/auth/credstore_file.go), and the handlers that change them   *)
(* (dashboard/handlers/users.go and ChangePasswordPost of account.go).     *)
(*                                                                         *)
(* Every method of FileStore locks s.mu, loads the file, and the ones that *)
(* change it write it back with os.WriteFile, which truncates the file and *)
(* then fills it.  A crash or an error between the two leaves a file that  *)
(* does not parse.                                                         *)
(***************************************************************************)
EXTENDS CredUsers

CONSTANTS
    InitAdmins,  \* the sets of admins a site may start with
    Procs,       \* concurrent requests, and Seed at boot
    NoProc,
    Torn,        \* the file when it is truncated: json.Unmarshal fails
    MaxOps,      \* bound: operations started
    MaxFaults    \* bound: crashes of the process, failing reads and writes

ASSUME FileAssumption ==
    /\ InitAdmins \subseteq SUBSET Names
    /\ NoProc \notin Procs
    /\ MaxOps \in Nat /\ MaxFaults \in Nat

VARIABLES
    disk,      \* what the file holds: a set of users, or Torn
    mu,        \* holder of s.mu
    loaded,    \* the users the holder of s.mu has loaded
    pending,   \* the users it is about to save
    pc,
    arg,       \* the operation each process is carrying out
    ops,
    faults     \* crashes and errors of the disk so far

vars == <<disk, mu, loaded, pending, pc, arg, ops, faults>>

Arg == [op : {"none", "seed", "create", "delete", "role", "password"},
        name : Names, role : Roles, pw : Nat]

NoArg == [op |-> "none", name |-> AdminName, role |-> "viewer", pw |-> 0]

TypeOK ==
    /\ disk = Torn \/ IsUserSet(disk)
    /\ mu \in Procs \cup {NoProc}
    /\ IsUserSet(loaded)
    /\ IsUserSet(pending)
    /\ pc \in [Procs -> {"idle", "lock", "truncate", "write"}]
    /\ arg \in [Procs -> Arg]
    /\ ops \in 0..MaxOps
    /\ faults \in 0..MaxFaults
    /\ \A p \in Procs : pc[p] \in {"truncate", "write"} => mu = p

(* Without a file (no admin yet) load returns no users.                    *)
Init ==
    /\ disk \in {Established(A) : A \in InitAdmins}
    /\ mu = NoProc
    /\ loaded = <<>>
    /\ pending = <<>>
    /\ pc = [p \in Procs |-> "idle"]
    /\ arg = [p \in Procs |-> NoArg]
    /\ ops = 0
    /\ faults = 0

----------------------------------------------------------------------------
(* A method that only reads: it runs while nobody else holds s.mu.         *)
ReadLocked == mu = NoProc

Start(p) ==
    /\ pc[p] = "idle"
    /\ ops < MaxOps
    /\ ops' = ops + 1
    /\ UNCHANGED <<disk, mu, loaded, pending, faults>>

Call(p, op, n, role) ==
    /\ pc' = [pc EXCEPT ![p] = "lock"]
    /\ arg' = [arg EXCEPT ![p] =
                 [op |-> op, name |-> n, role |-> role, pw |-> ops + 1]]

Refuse == UNCHANGED <<pc, arg>>

(* Behind RequireAuth and RequireRole: GetUser finds an admin.             *)
AdminRequest ==
    /\ ReadLocked
    /\ disk # Torn
    /\ SomeAdminActs(disk)

SeedCall(p) ==
    /\ Start(p)
    /\ Call(p, "seed", AdminName, "admin")

UsersCreate(p, n, role) ==
    /\ Start(p)
    /\ AdminRequest
    /\ Call(p, "create", n, role)

UsersDelete(p, n) ==
    /\ Start(p)
    /\ AdminRequest
    /\ Call(p, "delete", n, "viewer")

(* ListUsers, the check on its result, and then SetRole.                   *)
UsersToggleRole(p, n) ==
    /\ Start(p)
    /\ AdminRequest
    /\ \/ (n \notin DOMAIN disk \/ IsLastAdmin(disk, n)) /\ Refuse
       \/ /\ n \in DOMAIN disk /\ ~IsLastAdmin(disk, n)
          /\ Call(p, "role", n, OtherRole(disk[n].role))

(* Authenticate with the right password, and then SetPassword.             *)
ChangePassword(p, n) ==
    /\ Start(p)
    /\ ReadLocked
    /\ disk # Torn /\ n \in DOMAIN disk
    /\ Call(p, "password", n, "viewer")

----------------------------------------------------------------------------
(* The locked part of the methods that write.                              *)

(* The operation is refused: nothing to save.                              *)
Refused(a, us) ==
    \/ a.op = "seed" /\ DOMAIN us # {}
    \/ a.op = "create" /\ a.name \in DOMAIN us
    \/ a.op = "delete" /\ (a.name \notin DOMAIN us \/ IsLastAdmin(us, a.name))
    \/ a.op \in {"role", "password"} /\ a.name \notin DOMAIN us

(* What the operation saves.                                               *)
Result(a, us) ==
    CASE a.op \in {"seed", "create"} -> Put(us, a.name, NewUser(a.pw, a.role))
      [] a.op = "delete"   -> Without(us, a.name)
      [] a.op = "role"     -> Put(us, a.name, WithRole(us[a.name], a.role))
      [] a.op = "password" -> Put(us, a.name, WithPassword(us[a.name], a.pw))

Done(p) ==
    /\ pc' = [pc EXCEPT ![p] = "idle"]
    /\ arg' = [arg EXCEPT ![p] = NoArg]

LoadTornAsEmpty(p) ==
    /\ pc[p] = "lock"
    /\ mu = NoProc
    /\ LET us == IF disk = Torn THEN <<>> ELSE disk IN
       \/ Refused(arg[p], us) /\ Done(p) /\ UNCHANGED <<mu, loaded, pending>>
       \/ /\ ~Refused(arg[p], us)
          /\ mu' = p
          /\ loaded' = us
          /\ pending' = Result(arg[p], us)
          /\ pc' = [pc EXCEPT ![p] = "truncate"]
          /\ UNCHANGED arg
    /\ UNCHANGED <<disk, ops, faults>>

(* Lock and load.  A load error or a refusal unlocks at once.              *)
Load(p) ==
    /\ pc[p] = "lock"
    /\ mu = NoProc
    /\ \/ disk = Torn /\ Done(p) /\ UNCHANGED <<mu, loaded, pending>>
       \/ /\ disk # Torn /\ Refused(arg[p], disk)
          /\ Done(p)
          /\ UNCHANGED <<mu, loaded, pending>>
       \/ /\ disk # Torn /\ ~Refused(arg[p], disk)
          /\ mu' = p
          /\ loaded' = disk
          /\ pending' = Result(arg[p], disk)
          /\ pc' = [pc EXCEPT ![p] = "truncate"]
          /\ UNCHANGED arg
    /\ UNCHANGED <<disk, ops, faults>>

(* save: os.WriteFile opens the file with O_TRUNC ...                      *)
SaveTruncate(p) ==
    /\ pc[p] = "truncate"
    /\ disk' = Torn
    /\ pc' = [pc EXCEPT ![p] = "write"]
    /\ UNCHANGED <<mu, loaded, pending, arg, ops, faults>>

(* ... writes it, and the method unlocks.                                  *)
SaveWrite(p) ==
    /\ pc[p] = "write"
    /\ disk' = pending
    /\ mu' = NoProc
    /\ loaded' = <<>> /\ pending' = <<>>
    /\ Done(p)
    /\ UNCHANGED <<ops, faults>>

(* An error of the disk, returned to the caller: os.ReadFile fails in      *)
(* load, or os.WriteFile when it opens the file, while it writes it or     *)
(* when it closes it.                                                      *)
DiskFails(p) ==
    /\ faults < MaxFaults
    /\ faults' = faults + 1
    /\ \/ pc[p] = "lock" /\ mu = NoProc /\ UNCHANGED disk
       \/ pc[p] = "truncate" /\ UNCHANGED disk
       \/ pc[p] = "write" /\ disk' \in {disk, pending}
    /\ mu' = NoProc
    /\ loaded' = <<>> /\ pending' = <<>>
    /\ Done(p)
    /\ UNCHANGED ops

(* The process dies and starts again; every request is gone.               *)
Crash ==
    /\ faults < MaxFaults
    /\ faults' = faults + 1
    /\ mu' = NoProc
    /\ loaded' = <<>> /\ pending' = <<>>
    /\ pc' = [p \in Procs |-> "idle"]
    /\ arg' = [p \in Procs |-> NoArg]
    /\ UNCHANGED <<disk, ops>>

----------------------------------------------------------------------------
Request(p) ==
    \/ SeedCall(p)
    \/ \E n \in Names, r \in Roles : UsersCreate(p, n, r)
    \/ \E n \in Names :
        UsersDelete(p, n) \/ UsersToggleRole(p, n) \/ ChangePassword(p, n)

StoreStep(p) ==
    Load(p) \/ SaveTruncate(p) \/ SaveWrite(p) \/ DiskFails(p)

Next == Crash \/ \E p \in Procs : Request(p) \/ StoreStep(p)

Spec == Init /\ [][Next]_vars

----------------------------------------------------------------------------
(* Properties.                                                             *)

(* What the store holds as its callers see it: while the file is being     *)
(* written, the users that were loaded from it.                            *)
Current == IF disk = Torn /\ mu # NoProc THEN loaded ELSE disk

Store == INSTANCE AccountStore WITH
            users <- Current, Lost <- Torn, Passwords <- 1..MaxOps

(* s.mu makes every method of FileStore atomic: with its three steps per   *)
(* method the file store implements AccountStore.  A crash or an error     *)
(* inside a save loses the users, but the torn file is never taken for an  *)
(* empty store, in which Seed would install a new admin.                   *)
ImplementsAccountStore == Store!Spec
============================================================================
