----------------------------- MODULE MqttLedger ----------------------------
(***************************************************************************)
(* The file backend of the MQTT accounts (mqttauth/file.go): one YAML      *)
(* ledger, which the broker reads and an operator may edit by hand, with   *)
(* the handlers that change it (dashboard/handlers/mqtt_auth.go and        *)
(* mqtt_acl.go).                                                           *)
(*                                                                         *)
(* Every method locks b.mu and loads the file; the ones that change it     *)
(* write the whole ledger to a temporary file and rename that over the     *)
(* ledger.  A save may fail at each of its steps, and the process may die  *)
(* between any two.                                                        *)
(***************************************************************************)
EXTENDS MqttAccounts

CONSTANTS
    Subjects, Topics,
    Accesses,    \* the access values the requests of a run use
    Procs,       \* concurrent requests
    NoProc,
    NoFile,      \* there is no temporary file
    Partial,     \* a file that has not been written to its end
    InitAccounts,
    MaxOps,      \* bound: requests
    MaxFaults,   \* bound: failing file operations
    MaxCrashes,  \* bound: crashes of the process
    MaxEdits     \* bound: edits by the operator

IsLedger(l) ==
    \E S \in SUBSET Subjects :
        l \in [users : [S -> Account(Topics)], lists : Nat]

ASSUME LedgerAssumption ==
    /\ NoProc \notin Procs
    /\ ~IsLedger(Partial)
    /\ Subjects # {} /\ Topics # {}
    /\ Accesses \subseteq Access
    /\ IsAccounts(InitAccounts, Subjects, Topics)
    /\ {MaxOps, MaxFaults, MaxCrashes, MaxEdits} \subseteq Nat

VARIABLES
    disk,     \* the ledger file: the accounts, and the version of the
              \* top-level Auth and ACL lists
    mu,       \* holder of b.mu
    pending,  \* the ledger in the memory of the holder of b.mu
    temp,     \* the temporary file of the holder of b.mu
    stray,    \* temporary files nobody will remove any more
    pc, arg,
    ops, faults, crashes,
    edits,    \* edits of the top-level lists by the operator
    raced     \* history: an edit fell between the load and the rename of a save

counts == <<ops, faults, crashes, edits, raced>>
vars   == <<disk, mu, pending, temp, stray, pc, arg, counts>>

Empty == [users |-> <<>>, lists |-> 0]

Arg == [op : {"none", "put", "delete", "rule", "unrule"}, s : Subjects,
        t : Topics, allow : BOOLEAN, pw : Nat, access : Access]

NoArg == [op |-> "none", s |-> CHOOSE s \in Subjects : TRUE,
          t |-> CHOOSE t \in Topics : TRUE,
          allow |-> FALSE, pw |-> 0, access |-> 0]

(* Type invariant.  In it, "the broker never observes a partial file":     *)
(* disk is always a ledger; and "defer os.Remove(tmpName)": a temporary    *)
(* file stays behind only after a crash, one at most for each.             *)
TypeOK ==
    /\ disk # Partial /\ IsLedger(disk)
    /\ mu \in Procs \cup {NoProc}
    /\ IsLedger(pending)
    /\ temp \in {NoFile, Partial} \/ IsLedger(temp)
    /\ stray \in 0..crashes
    /\ pc \in [Procs -> {"idle", "lock", "create", "write", "rename"}]
    /\ arg \in [Procs -> Arg]
    /\ ops \in 0..MaxOps /\ faults \in 0..MaxFaults
    /\ crashes \in 0..MaxCrashes /\ edits \in 0..MaxEdits
    /\ raced \in BOOLEAN
    /\ \A p \in Procs : pc[p] \in {"create", "write", "rename"} <=> mu = p

(* Without a file load returns an empty ledger.                            *)
Init ==
    /\ disk = [users |-> InitAccounts, lists |-> 0]
    /\ mu = NoProc
    /\ pending = Empty
    /\ temp = NoFile
    /\ stray = 0
    /\ pc = [p \in Procs |-> "idle"]
    /\ arg = [p \in Procs |-> NoArg]
    /\ ops = 0 /\ faults = 0 /\ crashes = 0 /\ edits = 0
    /\ raced = FALSE

----------------------------------------------------------------------------
(* The handlers.                                                           *)

Request(p, a) ==
    /\ pc[p] = "idle"
    /\ ops < MaxOps
    /\ ops' = ops + 1
    /\ pc' = [pc EXCEPT ![p] = "lock"]
    /\ arg' = [arg EXCEPT ![p] = a]
    /\ UNCHANGED <<disk, mu, pending, temp, stray, faults, crashes, edits, raced>>

(* MQTTAuthCreate: a new user, or a new password for an old one.           *)
AuthCreate(p, s, allow) ==
    Request(p, [NoArg EXCEPT !.op = "put", !.s = s, !.allow = allow,
                             !.pw = ops + 1])

(* MQTTAuthToggle: GetUser under the lock, then PutUser without password.  *)
AuthToggle(p, s) ==
    /\ mu = NoProc
    /\ s \in DOMAIN disk.users
    /\ Request(p, [NoArg EXCEPT !.op = "put", !.s = s,
                                !.allow = ~disk.users[s].allow,
                                !.pw = NoPassword])

AuthDelete(p, s) == Request(p, [NoArg EXCEPT !.op = "delete", !.s = s])

ACLCreate(p, s, t, access) ==
    Request(p, [NoArg EXCEPT !.op = "rule", !.s = s, !.t = t, !.access = access])

(* decodeACLID gives back the subject and the topic of the rule.           *)
ACLDelete(p, s, t) ==
    Request(p, [NoArg EXCEPT !.op = "unrule", !.s = s, !.t = t])

----------------------------------------------------------------------------
(* The locked part of the methods that write.                              *)

(* The early returns of PutUser, DeleteUser, PutRule and DeleteRule.       *)
Refused(a, us) ==
    \/ a.op = "put" /\ a.s \notin DOMAIN us /\ a.pw = NoPassword
    \/ a.op \in {"delete", "rule"} /\ a.s \notin DOMAIN us
    \/ a.op = "unrule" /\ (a.s \in DOMAIN us => a.t \notin DOMAIN us[a.s].acl)

ResultUsersDroppingRules(a, us) ==
    CASE a.op = "put"    -> PutUser(Without(us, a.s), a.s, a.allow,
                                    IF a.pw = NoPassword THEN us[a.s].pw ELSE a.pw)
      [] a.op = "delete" -> Without(us, a.s)
      [] a.op = "rule"   -> PutRule(us, a.s, a.t, a.access)
      [] a.op = "unrule" -> DeleteRule(us, a.s, a.t)

ResultUsers(a, us) ==
    CASE a.op = "put"    -> PutUser(us, a.s, a.allow, a.pw)
      [] a.op = "delete" -> Without(us, a.s)
      [] a.op = "rule"   -> PutRule(us, a.s, a.t, a.access)
      [] a.op = "unrule" -> DeleteRule(us, a.s, a.t)

ResultWithoutLists(a, l) == [users |-> ResultUsers(a, l.users), lists |-> 0]

(* The ledger to save: the top-level lists stay as they were loaded.       *)
Result(a, l) == [l EXCEPT !.users = ResultUsers(a, l.users)]

Return(p) ==
    /\ mu' = NoProc
    /\ pending' = Empty
    /\ temp' = NoFile
    /\ pc' = [pc EXCEPT ![p] = "idle"]
    /\ arg' = [arg EXCEPT ![p] = NoArg]

(* Lock, load, and what the method does before it saves.                   *)
Load(p) ==
    /\ pc[p] = "lock"
    /\ mu = NoProc
    /\ \/ Refused(arg[p], disk.users) /\ Return(p)
       \/ /\ ~Refused(arg[p], disk.users)
          /\ mu' = p
          /\ pending' = Result(arg[p], disk)
          /\ pc' = [pc EXCEPT ![p] = "create"]
          /\ UNCHANGED <<temp, arg>>
    /\ UNCHANGED <<disk, stray, counts>>

(* save: os.CreateTemp, f.Write and f.Close, os.Rename.                    *)
SaveCreateTemp(p) ==
    /\ pc[p] = "create"
    /\ temp' = Partial
    /\ pc' = [pc EXCEPT ![p] = "write"]
    /\ UNCHANGED <<disk, mu, pending, stray, arg, counts>>

SaveWriteIgnoringError(p) ==
    /\ pc[p] = "write"
    /\ temp' \in {pending, Partial}
    /\ pc' = [pc EXCEPT ![p] = "rename"]
    /\ UNCHANGED <<disk, mu, pending, stray, arg, counts>>

SaveWrite(p) ==
    /\ pc[p] = "write"
    /\ temp' = pending
    /\ pc' = [pc EXCEPT ![p] = "rename"]
    /\ UNCHANGED <<disk, mu, pending, stray, arg, counts>>

(* The deferred os.Remove finds nothing any more, and b.mu is unlocked.    *)
SaveRename(p) ==
    /\ pc[p] = "rename"
    /\ disk' = temp
    /\ Return(p)
    /\ UNCHANGED <<stray, counts>>

(* One of the three fails: the deferred os.Remove takes the file away.     *)
SaveFails(p) ==
    /\ pc[p] \in {"create", "write", "rename"}
    /\ faults < MaxFaults
    /\ faults' = faults + 1
    /\ Return(p)
    /\ UNCHANGED <<disk, stray, ops, crashes, edits, raced>>

(* The process dies and starts again: requests and locks are gone, a       *)
(* temporary file stays in the directory.                                  *)
Crash ==
    /\ crashes < MaxCrashes
    /\ crashes' = crashes + 1
    /\ stray' = stray + (IF temp = NoFile THEN 0 ELSE 1)
    /\ mu' = NoProc
    /\ pending' = Empty
    /\ temp' = NoFile
    /\ pc' = [p \in Procs |-> "idle"]
    /\ arg' = [p \in Procs |-> NoArg]
    /\ UNCHANGED <<disk, ops, faults, edits, raced>>

(* "Operators wanting wildcard rules edit the YAML directly."              *)
OperatorEdit ==
    /\ edits < MaxEdits
    /\ edits' = edits + 1
    /\ disk' = [disk EXCEPT !.lists = edits + 1]
    /\ raced' = (raced \/ mu # NoProc)
    /\ UNCHANGED <<mu, pending, temp, stray, pc, arg, ops, faults, crashes>>

----------------------------------------------------------------------------
Handler(p) ==
    \E s \in Subjects :
        \/ \E allow \in BOOLEAN : AuthCreate(p, s, allow)
        \/ AuthToggle(p, s) \/ AuthDelete(p, s)
        \/ \E t \in Topics :
            ACLDelete(p, s, t) \/ \E a \in Accesses : ACLCreate(p, s, t, a)

StoreStep(p) ==
    \/ Load(p) \/ SaveCreateTemp(p) \/ SaveWrite(p) \/ SaveRename(p)
    \/ SaveFails(p)

Next ==
    \/ \E p \in Procs : Handler(p) \/ StoreStep(p)
    \/ Crash \/ OperatorEdit

Spec == Init /\ [][Next]_vars

----------------------------------------------------------------------------
(* Properties.                                                             *)

Backend == INSTANCE AuthBackend WITH
    accounts <- disk.users, Passwords <- 1..MaxOps

(* The ledger file implements the Backend interface: whatever overlaps,    *)
(* fails or dies, the file changes from one complete ledger to the next,   *)
(* each time by exactly one operation on the newest accounts, so that no   *)
(* password, flag or rule set by a concurrent request is undone.           *)
ImplementsBackend == Backend!Spec

(* "The top-level Auth and ACL slices ... are preserved verbatim on        *)
(* write": what the operator wrote last is in the file, unless he wrote it *)
(* between the load and the rename of a save.                              *)
ListsPreserved == ~raced => disk.lists = edits
============================================================================
