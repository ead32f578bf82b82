------------------------ MODULE DashboardUsersProofs -----------------------
(***************************************************************************)
(* Proofs about DashboardUsers.tla, for any set of names, any number of    *)
(* concurrent requests, and any number of operations and faults.          *)
(***************************************************************************)
EXTENDS DashboardUsers, TLAPS

(* A set of users stays one when a user is put in or taken out.            *)
LEMMA PutTyped ==
    ASSUME NEW us, IsUserSet(us), NEW n \in Names, NEW u \in User
    PROVE  IsUserSet(Put(us, n, u))
BY DEF IsUserSet, Put

LEMMA WithoutTyped ==
    ASSUME NEW us, IsUserSet(us), NEW n
    PROVE  IsUserSet(Without(us, n))
BY DEF IsUserSet, Without

LEMMA EmptyTyped == IsUserSet(<<>>)
<1>1. DOMAIN <<>> = {} /\ <<>> \in [{} -> User]
  OBVIOUS
<1> QED
  BY <1>1 DEF IsUserSet

LEMMA EstablishedTyped ==
    ASSUME NEW A \in SUBSET Names
    PROVE  IsUserSet(Established(A))
BY DEF IsUserSet, Established, User, Roles

----------------------------------------------------------------------------
(* The file store.                                                         *)

(* An operation under way has arguments that its method was called with.   *)
ArgMeant(a) ==
    /\ a.op # "none"
    /\ a.pw \in 1..MaxOps
    /\ a.op = "seed" => a.name = AdminName /\ a.role = "admin"

(* s.mu is held from a successful load to the end of the save, and by      *)
(* nobody else; what is in the holder's hands is what was on the disk, and *)
(* what that operation makes of it.                                        *)
Holding(p) ==
    /\ mu = p
    /\ loaded # Torn
    /\ ~Refused(arg[p], loaded)
    /\ pending = Result(arg[p], loaded)
    /\ pc[p] = "truncate" => disk = loaded
    /\ pc[p] = "write" => disk = Torn

LockInv ==
    /\ \A p \in Procs : pc[p] # "idle" => ArgMeant(arg[p])
    /\ mu # NoProc => pc[mu] \in {"truncate", "write"}
    /\ \A p \in Procs : pc[p] \in {"truncate", "write"} => Holding(p)

FileInv == TypeOK /\ LockInv

(* What an operation saves is a set of users.                              *)
LEMMA ResultTyped ==
    ASSUME NEW a \in Arg, NEW us, IsUserSet(us), ~Refused(a, us), a.op # "none"
    PROVE  IsUserSet(Result(a, us))
<1> USE DEF Arg
<1>1. CASE a.op \in {"seed", "create"}
  <2>1. NewUser(a.pw, a.role) \in User
    BY DEF NewUser, User
  <2>2. Result(a, us) = Put(us, a.name, NewUser(a.pw, a.role))
    BY <1>1 DEF Result
  <2> QED
    BY <2>1, <2>2, PutTyped
<1>2. CASE a.op = "delete"
  <2>1. Result(a, us) = Without(us, a.name)
    BY <1>2 DEF Result
  <2> QED
    BY <2>1, WithoutTyped
<1>3. CASE a.op = "role"
  <2>1. a.name \in DOMAIN us /\ us[a.name] \in User
    BY <1>3 DEF Refused, IsUserSet
  <2>2. WithRole(us[a.name], a.role) \in User
    BY <2>1 DEF WithRole, User
  <2>3. Result(a, us) = Put(us, a.name, WithRole(us[a.name], a.role))
    BY <1>3 DEF Result
  <2> QED
    BY <2>2, <2>3, PutTyped
<1>4. CASE a.op = "password"
  <2>1. a.name \in DOMAIN us /\ us[a.name] \in User
    BY <1>4 DEF Refused, IsUserSet
  <2>2. WithPassword(us[a.name], a.pw) \in User
    BY <2>1 DEF WithPassword, User
  <2>3. Result(a, us) = Put(us, a.name, WithPassword(us[a.name], a.pw))
    BY <1>4 DEF Result
  <2> QED
    BY <2>2, <2>3, PutTyped
<1> QED
  BY <1>1, <1>2, <1>3, <1>4

LEMMA FileInitially == Init => FileInv
<1> SUFFICES ASSUME Init PROVE FileInv
  OBVIOUS
<1>1. IsUserSet(disk)
  BY EstablishedTyped, FileAssumption DEF Init
<1>2. IsUserSet(loaded) /\ IsUserSet(pending)
  BY EmptyTyped DEF Init
<1>3. NoArg \in Arg
  BY NamesAssumption DEF NoArg, Arg, Roles
<1>4. TypeOK
  BY <1>1, <1>2, <1>3, FileAssumption DEF Init, TypeOK
<1>5. LockInv
  BY DEF Init, LockInv
<1> QED
  BY <1>4, <1>5 DEF FileInv

(* A request that calls a method of the store.                             *)
LEMMA CallStep ==
    ASSUME FileInv, NEW p \in Procs, Start(p),
           NEW op \in {"seed", "create", "delete", "role", "password"},
           NEW n \in Names, NEW r \in Roles, Call(p, op, n, r),
           op = "seed" => n = AdminName /\ r = "admin"
    PROVE  FileInv'
<1>1. arg'[p] \in Arg /\ ArgMeant(arg'[p]) /\ pc'[p] = "lock"
  BY FileAssumption DEF FileInv, TypeOK, Start, Call, Arg, ArgMeant
<1>2. \A q \in Procs \ {p} : arg'[q] = arg[q] /\ pc'[q] = pc[q]
  BY DEF FileInv, TypeOK, Start, Call
<1>3. TypeOK'
  BY <1>1, <1>2, FileAssumption DEF FileInv, TypeOK, Start, Call
<1>4. mu # NoProc => mu # p
  BY DEF FileInv, LockInv, Start
<1>5. LockInv'
  BY <1>1, <1>2, <1>4 DEF FileInv, LockInv, TypeOK, Start, Call, Holding
<1> QED
  BY <1>3, <1>5 DEF FileInv

(* A method that ends without having saved anything.                       *)
LEMMA DoneStep ==
    ASSUME FileInv, NEW p \in Procs, mu = NoProc, pc[p] = "lock", Done(p),
           UNCHANGED <<disk, mu, loaded, pending, ops, faults>>
    PROVE  FileInv'
<1>1. NoArg \in Arg
  BY NamesAssumption DEF NoArg, Arg, Roles
<1>2. TypeOK'
  BY <1>1 DEF FileInv, TypeOK, Done
<1>3. \A q \in Procs : pc'[q] \in {"idle", "lock"}
  BY FileAssumption DEF FileInv, TypeOK, Done
<1>4. LockInv'
  BY <1>3 DEF FileInv, LockInv, TypeOK, Done
<1> QED
  BY <1>2, <1>4 DEF FileInv

(* Every handler, every step of a method and a crash keep the invariant.   *)
LEMMA FileStep == FileInv /\ [Next]_vars => FileInv'
<1> SUFFICES ASSUME FileInv, [Next]_vars PROVE FileInv'
  OBVIOUS
<1>0. NoArg \in Arg
  BY NamesAssumption DEF NoArg, Arg, Roles
<1>1. CASE Crash
  <2>1. TypeOK'
    BY <1>0, <1>1, EmptyTyped, FileAssumption DEF FileInv, TypeOK, Crash
  <2>2. LockInv'
    BY <1>1 DEF LockInv, Crash
  <2> QED
    BY <2>1, <2>2 DEF FileInv
<1>2. ASSUME NEW p \in Procs, Request(p) PROVE FileInv'
  <2>1. CASE SeedCall(p)
    BY <2>1, CallStep, NamesAssumption DEF SeedCall, Roles
  <2>2. ASSUME NEW n \in Names, NEW r \in Roles, UsersCreate(p, n, r)
        PROVE FileInv'
    BY <2>2, CallStep DEF UsersCreate
  <2>3. ASSUME NEW n \in Names, UsersDelete(p, n) PROVE FileInv'
    BY <2>3, CallStep DEF UsersDelete, Roles
  <2>4. ASSUME NEW n \in Names, UsersToggleRole(p, n) PROVE FileInv'
    <3>1. CASE Refuse
      <4>1. ops' \in 0..MaxOps
        BY <2>4, FileAssumption DEF UsersToggleRole, Start, FileInv, TypeOK
      <4> QED
        BY <2>4, <3>1, <4>1
        DEF UsersToggleRole, Refuse, Start, FileInv, TypeOK, LockInv, Holding
    <3>2. CASE Call(p, "role", n, OtherRole(disk[n].role))
      <4>1. OtherRole(disk[n].role) \in Roles
        BY DEF OtherRole, Roles
      <4> QED
        BY <2>4, <3>2, <4>1, CallStep DEF UsersToggleRole
    <3> QED
      BY <2>4, <3>1, <3>2 DEF UsersToggleRole
  <2>5. ASSUME NEW n \in Names, ChangePassword(p, n) PROVE FileInv'
    BY <2>5, CallStep DEF ChangePassword, Roles
  <2> QED
    BY <1>2, <2>1, <2>2, <2>3, <2>4, <2>5 DEF Request
<1>3. ASSUME NEW p \in Procs, Load(p) PROVE FileInv'
  <2>1. CASE Done(p)
    BY <1>3, <2>1, DoneStep DEF Load, Done, FileInv, TypeOK
  <2>2. CASE mu' = p
    <3>1. /\ disk # Torn /\ ~Refused(arg[p], disk)
          /\ loaded' = disk /\ pending' = Result(arg[p], disk)
          /\ pc' = [pc EXCEPT ![p] = "truncate"]
          /\ mu = NoProc /\ pc[p] = "lock"
          /\ UNCHANGED <<arg, disk, ops, faults>>
      BY <1>3, <2>2, FileAssumption DEF Load
    <3>2. ArgMeant(arg[p]) /\ arg[p] \in Arg /\ IsUserSet(disk)
      BY <3>1 DEF FileInv, LockInv, TypeOK
    <3>3. IsUserSet(pending')
      BY <3>1, <3>2, ResultTyped DEF ArgMeant
    <3>4. \A q \in Procs \ {p} : pc'[q] \in {"idle", "lock"}
      BY <3>1, FileAssumption DEF FileInv, LockInv, TypeOK, Holding
    <3>5. TypeOK'
      BY <2>2, <3>1, <3>2, <3>3, <3>4 DEF FileInv, TypeOK
    <3>6. LockInv'
      BY <2>2, <3>1, <3>2, <3>4 DEF FileInv, LockInv, TypeOK, Holding
    <3> QED
      BY <3>5, <3>6 DEF FileInv
  <2> QED
    BY <1>3, <2>1, <2>2 DEF Load
<1>4. ASSUME NEW p \in Procs, SaveTruncate(p) PROVE FileInv'
  <2>1. TypeOK'
    BY <1>4 DEF FileInv, TypeOK, SaveTruncate
  <2>2. \A q \in Procs \ {p} : pc'[q] = pc[q] /\ pc[q] \in {"idle", "lock"}
    BY <1>4, FileAssumption DEF FileInv, TypeOK, LockInv, Holding, SaveTruncate
  <2>3. Holding(p)'
    BY <1>4 DEF FileInv, TypeOK, LockInv, Holding, SaveTruncate
  <2>4. LockInv'
    BY <1>4, <2>2, <2>3 DEF FileInv, TypeOK, LockInv, SaveTruncate, Holding
  <2> QED
    BY <2>1, <2>4 DEF FileInv
<1>5. ASSUME NEW p \in Procs, SaveWrite(p) PROVE FileInv'
  <2>1. TypeOK'
    BY <1>0, <1>5, EmptyTyped DEF FileInv, TypeOK, LockInv, Holding, SaveWrite, Done
  <2>2. \A q \in Procs : pc'[q] \in {"idle", "lock"}
    BY <1>5 DEF FileInv, TypeOK, LockInv, Holding, SaveWrite, Done
  <2>3. LockInv'
    BY <1>5, <2>2 DEF FileInv, TypeOK, LockInv, SaveWrite, Done
  <2> QED
    BY <2>1, <2>3 DEF FileInv
<1>6. ASSUME NEW p \in Procs, DiskFails(p) PROVE FileInv'
  <2>1. /\ pc[p] \in {"lock", "truncate", "write"}
        /\ pc[p] = "lock" => mu = NoProc
        /\ mu' = NoProc /\ Done(p)
    BY <1>6 DEF DiskFails
  <2>2. TypeOK'
    <3>1. disk' = Torn \/ IsUserSet(disk')
      BY <1>6 DEF DiskFails, FileInv, TypeOK
    <3>2. \A q \in Procs : pc'[q] \in {"idle", "lock"}
      BY <2>1, FileAssumption DEF FileInv, TypeOK, LockInv, Holding, Done
    <3> QED
      BY <1>0, <1>6, <3>1, <3>2, EmptyTyped, FileAssumption
      DEF DiskFails, Done, FileInv, TypeOK
  <2>3. \A q \in Procs : pc'[q] \in {"idle", "lock"}
    BY <2>1, FileAssumption DEF FileInv, TypeOK, LockInv, Holding, Done
  <2>4. LockInv'
    BY <2>1, <2>3 DEF FileInv, TypeOK, LockInv, Done
  <2> QED
    BY <2>2, <2>4 DEF FileInv
<1>7. CASE UNCHANGED vars
  BY <1>7 DEF vars, FileInv, TypeOK, LockInv, Holding
<1> QED
  BY <1>1, <1>2, <1>3, <1>4, <1>5, <1>6, <1>7 DEF Next, StoreStep

(* What a save leaves is what one step of AccountStore does to the users   *)
(* that were loaded.                                                       *)
LEMMA ResultIsStoreStep ==
    ASSUME NEW a \in Arg, ArgMeant(a), Current # Torn, ~Refused(a, Current),
           Current' = Result(a, Current)
    PROVE  Store!Next
<1> USE DEF Arg, ArgMeant
<1>1. CASE a.op = "seed"
  <2>1. DOMAIN Current = {}
    BY <1>1 DEF Refused
  <2>2. Current' = Store!Put(Current, AdminName, Store!NewUser(a.pw, "admin"))
    BY <1>1 DEF Result, Put, Store!Put, NewUser, Store!NewUser
  <2>3. Store!Seed
    BY <2>1, <2>2 DEF Store!Seed
  <2> QED
    BY <2>3 DEF Store!Next
<1>2. CASE a.op = "create"
  <2>1. a.name \notin DOMAIN Current
    BY <1>2 DEF Refused
  <2>2. Current' = Store!Put(Current, a.name, Store!NewUser(a.pw, a.role))
    BY <1>2 DEF Result, Put, Store!Put, NewUser, Store!NewUser
  <2>3. Store!CreateUser(a.name)
    BY <2>1, <2>2 DEF Store!CreateUser, Store!Roles, Roles
  <2> QED
    BY <2>3 DEF Store!Next
<1>3. CASE a.op = "delete"
  <2>1. a.name \in DOMAIN Current /\ ~Store!IsLastAdmin(Current, a.name)
    BY <1>3 DEF Refused, IsLastAdmin, Store!IsLastAdmin, Admins, Store!Admins
  <2>2. Current' = Store!Without(Current, a.name)
    BY <1>3 DEF Result, Without, Store!Without
  <2>3. Store!DeleteUser(a.name)
    BY <2>1, <2>2 DEF Store!DeleteUser
  <2> QED
    BY <2>3 DEF Store!Next
<1>4. CASE a.op = "role"
  <2>1. a.name \in DOMAIN Current
    BY <1>4 DEF Refused
  <2>2. Current' = Store!Put(Current, a.name,
                             Store!WithRole(Current[a.name], a.role))
    BY <1>4 DEF Result, Put, Store!Put, WithRole, Store!WithRole
  <2>3. Store!SetRole(a.name)
    BY <2>1, <2>2 DEF Store!SetRole, Store!Roles, Roles
  <2> QED
    BY <2>3 DEF Store!Next
<1>5. CASE a.op = "password"
  <2>1. a.name \in DOMAIN Current
    BY <1>5 DEF Refused
  <2>2. Current' = Store!Put(Current, a.name,
                             Store!WithPassword(Current[a.name], a.pw))
    BY <1>5 DEF Result, Put, Store!Put, WithPassword, Store!WithPassword
  <2>3. Store!SetPassword(a.name)
    BY <2>1, <2>2 DEF Store!SetPassword
  <2> QED
    BY <2>3 DEF Store!Next
<1> QED
  BY <1>1, <1>2, <1>3, <1>4, <1>5

(* Of the steps of a method only the write shows, and a crash or an error  *)
(* shows when it leaves the file torn.                                     *)
LEMMA FileStepShows ==
    FileInv /\ [Next]_vars => [Store!Next]_Current
<1> SUFFICES ASSUME FileInv, [Next]_vars PROVE [Store!Next]_Current
  OBVIOUS
<1>1. CASE Crash
  <2>1. CASE disk = Torn
    BY <1>1, <2>1 DEF Crash, Current, Store!Next, Store!Lose
  <2>2. CASE disk # Torn
    BY <1>1, <2>2 DEF Crash, Current
  <2> QED
    BY <2>1, <2>2
<1>2. ASSUME NEW p \in Procs, Request(p) PROVE UNCHANGED Current
  BY <1>2 DEF Request, SeedCall, UsersCreate, UsersDelete, UsersToggleRole,
              ChangePassword, Start, Current
<1>3. ASSUME NEW p \in Procs, Load(p) PROVE UNCHANGED Current
  BY <1>3 DEF Load, Current
<1>4. ASSUME NEW p \in Procs, SaveTruncate(p) PROVE UNCHANGED Current
  BY <1>4, FileAssumption DEF SaveTruncate, Current, FileInv, LockInv, Holding
<1>5. ASSUME NEW p \in Procs, pc[p] = "write", disk' = pending, mu' = NoProc
      PROVE  Store!Next
  <2>1. Holding(p) /\ ArgMeant(arg[p]) /\ arg[p] \in Arg
    BY <1>5 DEF FileInv, LockInv, TypeOK
  <2>2. Current = loaded
    BY <1>5, <2>1, FileAssumption DEF Current, Holding
  <2>3. Current' = Result(arg[p], loaded)
    BY <1>5, <2>1 DEF Current, Holding
  <2> QED
    BY <2>1, <2>2, <2>3, ResultIsStoreStep DEF Holding
<1>6. ASSUME NEW p \in Procs, SaveWrite(p) PROVE Store!Next
  BY <1>5, <1>6 DEF SaveWrite
<1>7. ASSUME NEW p \in Procs, DiskFails(p) PROVE [Store!Next]_Current
  <2>1. CASE pc[p] = "lock"
    BY <1>7, <2>1 DEF DiskFails, Current
  <2>2. CASE pc[p] = "truncate"
    BY <1>7, <2>2, FileAssumption DEF DiskFails, Current, FileInv, LockInv, Holding
  <2>3. CASE pc[p] = "write" /\ disk' = disk
    <3>1. Current' = Torn
      BY <1>7, <2>3 DEF DiskFails, Current, FileInv, LockInv, Holding
    <3> QED
      BY <3>1 DEF Store!Next, Store!Lose
  <2>4. CASE pc[p] = "write" /\ disk' = pending
    BY <1>5, <1>7, <2>4 DEF DiskFails
  <2> QED
    BY <1>7, <2>1, <2>2, <2>3, <2>4 DEF DiskFails
<1>8. CASE UNCHANGED vars
  BY <1>8 DEF vars, Current
<1> QED
  BY <1>1, <1>2, <1>3, <1>4, <1>6, <1>7, <1>8 DEF Next, StoreStep

(* The steps of StoreSpec are steps of the file store or leave it alone.   *)
LEMMA StoreStepOfFile ==
    [StoreNext]_<<redis, vars, hashVars>> => [Next]_vars
BY DEF StoreNext

(* The file store is type correct, s.mu is held by at most one request,    *)
(* and what its holder saves comes from what the file held.                *)
THEOREM FileLocked == StoreSpec => []FileInv
<1>1. StoreInit => FileInv
  BY FileInitially DEF StoreInit
<1> QED
  BY <1>1, StoreStepOfFile, FileStep, PTL DEF StoreSpec

(* s.mu makes every method of FileStore atomic, in spite of the three      *)
(* steps a save takes and of faults between them: the file store           *)
(* implements AccountStore, in which no torn file is ever seeded anew.     *)
THEOREM FileImplementsAccountStore == StoreSpec => ImplementsAccountStore
<1>1. StoreInit => Store!Init
  BY DEF StoreInit, Init, Store!Init, Current, Established, Store!Established
<1>2. FileInv /\ [StoreNext]_<<redis, vars, hashVars>> => [Store!Next]_Current
  BY StoreStepOfFile, FileStepShows
<1> QED
  BY <1>1, <1>2, FileLocked, PTL DEF StoreSpec, ImplementsAccountStore, Store!Spec

----------------------------------------------------------------------------
(* The Redis store.                                                        *)

(* An EXEC that will go through still holds the record it read: whoever    *)
(* writes the hash in between moves the version on.                        *)
SnapshotFresh ==
    \A p \in Procs :
        rpc[p] = "exec" /\ seen[p] = version =>
            /\ rarg[p].name \in DOMAIN users
            /\ snap[p] = users[rarg[p].name]

(* Passwords come from operations that have been started.                  *)
PasswordsStarted ==
    \A p \in Procs : rarg[p].pw <= rops /\ snap[p].pw <= rops

HashInv == Hash!TypeOK /\ PasswordsStarted /\ SnapshotFresh

(* The commands that answer a request without writing the hash.            *)
LEMMA HashAnswers ==
    ASSUME HashInv, NEW p \in Procs, Hash!Return(p), UNCHANGED <<users, version>>
    PROVE  HashInv'
<1> USE DEF HashInv
<1>1. Hash!NoArg \in Hash!Arg /\ Hash!NewUser(0, "viewer") \in Hash!User
  BY NamesAssumption
  DEF Hash!NoArg, Hash!Arg, Hash!Roles, Hash!NewUser, Hash!User
<1>2. Hash!TypeOK'
  BY <1>1 DEF Hash!TypeOK, Hash!Return
<1>3. PasswordsStarted'
  BY <1>1, HashAssumption
  DEF Hash!TypeOK, PasswordsStarted, Hash!Return, Hash!NoArg, Hash!NewUser
<1>4. SnapshotFresh'
  BY DEF Hash!TypeOK, SnapshotFresh, Hash!Return
<1> QED
  BY <1>2, <1>3, <1>4

(* The commands that write the hash: the version moves on, so that no EXEC *)
(* under way goes through any more.                                        *)
LEMMA HashWrites ==
    ASSUME HashInv, NEW p \in Procs, Hash!Return(p), version' = version + 1,
           Hash!IsUserSet(users'), \A n \in DOMAIN users' : users'[n].pw <= rops
    PROVE  HashInv'
<1> USE DEF HashInv
<1>1. Hash!NoArg \in Hash!Arg /\ Hash!NewUser(0, "viewer") \in Hash!User
  BY NamesAssumption
  DEF Hash!NoArg, Hash!Arg, Hash!Roles, Hash!NewUser, Hash!User
<1>2. Hash!TypeOK'
  BY <1>1 DEF Hash!TypeOK, Hash!Return
<1>3. PasswordsStarted'
  BY <1>1, HashAssumption
  DEF Hash!TypeOK, PasswordsStarted, Hash!Return, Hash!NoArg, Hash!NewUser
<1>4. \A q \in Procs : seen'[q] # version'
  BY DEF Hash!TypeOK, Hash!Return
<1>5. SnapshotFresh'
  BY <1>4 DEF SnapshotFresh
<1> QED
  BY <1>2, <1>3, <1>5

(* HSET of one record.                                                     *)
LEMMA HSetStep ==
    ASSUME HashInv, NEW p \in Procs, NEW u \in Hash!User, u.pw <= rops,
           Hash!HSet(p, u), Hash!Return(p)
    PROVE  HashInv'
<1>1. Hash!IsUserSet(users) /\ rarg[p].name \in Names
  BY DEF HashInv, Hash!TypeOK, Hash!Arg
<1>2. Hash!IsUserSet(users')
  BY <1>1 DEF Hash!HSet, Hash!Put, Hash!IsUserSet
<1>3. \A n \in DOMAIN users' : users'[n].pw <= rops
  BY <1>1 DEF Hash!HSet, Hash!Put, HashInv, Hash!TypeOK
<1> QED
  BY <1>2, <1>3, HashWrites DEF Hash!HSet

(* The first command of an operation.                                      *)
LEMMA StartStep ==
    ASSUME HashInv, NEW p \in Procs, NEW op, Hash!Start(p, op),
           \/ Hash!Refuse
           \/ \E next \in {"seed", "create", "delete", "watch"}, n \in Names,
                 r \in Hash!Roles, fn \in {"none", "role", "password"} :
               Hash!Proceed(p, next, n, r, fn)
    PROVE  HashInv'
<1> USE DEF HashInv, Hash!Start
<1>0. rops \in 0..MaxRedisOps /\ rops' = rops + 1 /\ rops' \in 0..MaxRedisOps
  BY HashAssumption DEF Hash!TypeOK
<1>1. CASE Hash!Refuse
  <2>1. Hash!TypeOK'
    <3>1. \A n \in DOMAIN users : users[n].pw <= rops'
      BY <1>0 DEF Hash!TypeOK, Hash!IsUserSet, Hash!User
    <3> QED
      BY <1>0, <1>1, <3>1 DEF Hash!TypeOK, Hash!Refuse
  <2>2. PasswordsStarted'
    BY <1>0, <1>1 DEF Hash!TypeOK, Hash!Refuse, PasswordsStarted, Hash!Arg, Hash!User
  <2>3. SnapshotFresh'
    BY <1>1 DEF Hash!Refuse, SnapshotFresh
  <2> QED
    BY <2>1, <2>2, <2>3
<1>2. ASSUME NEW next \in {"seed", "create", "delete", "watch"}, NEW n \in Names,
             NEW r \in Hash!Roles, NEW fn \in {"none", "role", "password"},
             Hash!Proceed(p, next, n, r, fn)
      PROVE HashInv'
  <2>0. rarg'[p] \in Hash!Arg /\ rarg'[p].pw = rops'
    BY <1>0, <1>2 DEF Hash!TypeOK, Hash!Proceed, Hash!Arg
  <2>1. Hash!TypeOK'
    <3>1. \A m \in DOMAIN users : users[m].pw <= rops'
      BY <1>0 DEF Hash!TypeOK, Hash!IsUserSet, Hash!User
    <3> QED
      BY <1>0, <1>2, <2>0, <3>1 DEF Hash!TypeOK, Hash!Proceed
  <2>2. PasswordsStarted'
    BY <1>0, <1>2, <2>0
    DEF Hash!TypeOK, Hash!Proceed, PasswordsStarted, Hash!Arg, Hash!User
  <2>3. SnapshotFresh'
    BY <1>2 DEF Hash!TypeOK, Hash!Proceed, SnapshotFresh
  <2> QED
    BY <2>1, <2>2, <2>3
<1> QED
  BY <1>1, <1>2

(* fn(&u) on a record of a started operation.                              *)
LEMMA ApplyTyped ==
    ASSUME HashInv, NEW p \in Procs
    PROVE  /\ Hash!Apply(rarg[p], snap[p]) \in Hash!User
           /\ Hash!Apply(rarg[p], snap[p]).pw <= rops
BY DEF HashInv, Hash!TypeOK, PasswordsStarted, Hash!Apply, Hash!WithRole,
       Hash!WithPassword, Hash!Arg, Hash!User

LEMMA HashInitially == StoreInit => HashInv
<1> SUFFICES ASSUME Hash!Init PROVE HashInv
  BY DEF StoreInit
<1>1. Hash!NoArg \in Hash!Arg /\ Hash!NewUser(0, "viewer") \in Hash!User
  BY NamesAssumption
  DEF Hash!NoArg, Hash!Arg, Hash!Roles, Hash!NewUser, Hash!User
<1>2. Hash!IsUserSet(users) /\ \A n \in DOMAIN users : users[n].pw <= 0
  BY HashAssumption
  DEF Hash!Init, Hash!IsUserSet, Hash!Established, Hash!User, Hash!Roles
<1>3. Hash!TypeOK
  BY <1>1, <1>2, HashAssumption DEF Hash!Init, Hash!TypeOK
<1>4. PasswordsStarted /\ SnapshotFresh
  BY DEF Hash!Init, PasswordsStarted, SnapshotFresh, Hash!NoArg, Hash!NewUser
<1> QED
  BY <1>3, <1>4 DEF HashInv

(* Every command keeps the invariant.                                      *)
LEMMA HashStep == HashInv /\ [Hash!Next]_hashVars => HashInv'
<1> SUFFICES ASSUME HashInv, [Hash!Next]_hashVars PROVE HashInv'
  OBVIOUS
<1>1. ASSUME NEW p \in Procs, Hash!Step(p) PROVE HashInv'
  <2>1. CASE Hash!SeedStart(p)
    BY <2>1, StartStep, NamesAssumption DEF Hash!SeedStart, Hash!Roles
  <2>2. ASSUME NEW n \in Names, NEW r \in Hash!Roles, Hash!CreateStart(p, n, r)
        PROVE HashInv'
    BY <2>2, StartStep DEF Hash!CreateStart
  <2>3. ASSUME NEW n \in Names, Hash!DeleteStart(p, n) PROVE HashInv'
    BY <2>3, StartStep DEF Hash!DeleteStart, Hash!Roles
  <2>4. ASSUME NEW n \in Names, Hash!ToggleStart(p, n) PROVE HashInv'
    <3>1. Hash!OtherRole(users[n].role) \in Hash!Roles
      BY DEF Hash!OtherRole, Hash!Roles
    <3> QED
      BY <2>4, <3>1, StartStep DEF Hash!ToggleStart
  <2>5. ASSUME NEW n \in Names, Hash!PasswordStart(p, n) PROVE HashInv'
    BY <2>5, StartStep DEF Hash!PasswordStart, Hash!Roles
  <2>6. CASE Hash!SeedWrite(p)
    <3>1. /\ Hash!NewUser(rarg[p].pw, "admin") \in Hash!User
          /\ Hash!NewUser(rarg[p].pw, "admin").pw <= rops
      BY DEF HashInv, Hash!TypeOK, PasswordsStarted, Hash!Arg, Hash!NewUser,
             Hash!User, Hash!Roles
    <3> QED
      BY <2>6, <3>1, HSetStep DEF Hash!SeedWrite
  <2>7. CASE Hash!CreateWrite(p)
    <3>1. /\ Hash!NewUser(rarg[p].pw, rarg[p].role) \in Hash!User
          /\ Hash!NewUser(rarg[p].pw, rarg[p].role).pw <= rops
      BY DEF HashInv, Hash!TypeOK, PasswordsStarted, Hash!Arg, Hash!NewUser,
             Hash!User
    <3> QED
      BY <2>7, <3>1, HSetStep DEF Hash!CreateWrite
  <2>8. CASE Hash!DeleteWrite(p)
    <3>1. CASE rarg[p].name \in DOMAIN users
      <4>1. Hash!IsUserSet(users') /\ \A n \in DOMAIN users' : users'[n].pw <= rops
        BY <2>8 DEF Hash!DeleteWrite, Hash!Without, HashInv, Hash!TypeOK,
                    Hash!IsUserSet
      <4> QED
        BY <2>8, <3>1, <4>1, HashWrites DEF Hash!DeleteWrite
    <3>2. CASE rarg[p].name \notin DOMAIN users
      <4>1. users' = users
        BY <2>8, <3>2 DEF Hash!DeleteWrite, Hash!Without, HashInv, Hash!TypeOK,
                          Hash!IsUserSet
      <4>2. version' = version
        BY <2>8, <3>2 DEF Hash!DeleteWrite, HashInv, Hash!TypeOK
      <4> QED
        BY <2>8, <4>1, <4>2, HashAnswers DEF Hash!DeleteWrite
    <3> QED
      BY <3>1, <3>2
  <2>9. CASE Hash!MutateWatch(p)
    <3>1. CASE Hash!Return(p)
      BY <2>9, <3>1, HashAnswers DEF Hash!MutateWatch
    <3>2. CASE /\ rarg[p].name \in DOMAIN users
               /\ snap' = [snap EXCEPT ![p] = users[rarg[p].name]]
               /\ seen' = [seen EXCEPT ![p] = version]
               /\ rpc' = [rpc EXCEPT ![p] = "exec"]
               /\ UNCHANGED <<rarg, rops, users, version>>
      <4>1. users[rarg[p].name] \in Hash!User /\ users[rarg[p].name].pw <= rops
        BY <3>2 DEF HashInv, Hash!TypeOK, Hash!IsUserSet
      <4>2. Hash!TypeOK'
        BY <3>2, <4>1 DEF HashInv, Hash!TypeOK
      <4>3. PasswordsStarted'
        BY <3>2, <4>1 DEF HashInv, Hash!TypeOK, PasswordsStarted
      <4>4. SnapshotFresh'
        BY <3>2 DEF HashInv, Hash!TypeOK, SnapshotFresh
      <4> QED
        BY <4>2, <4>3, <4>4 DEF HashInv
    <3> QED
      BY <2>9, <3>1, <3>2 DEF Hash!MutateWatch
  <2>10. CASE Hash!MutateExec(p)
    BY <2>10, ApplyTyped, HSetStep, HashAnswers DEF Hash!MutateExec
  <2>11. CASE Hash!GiveUp(p)
    BY <2>11, HashAnswers DEF Hash!GiveUp
  <2> QED
    BY <1>1, <2>1, <2>2, <2>3, <2>4, <2>5, <2>6, <2>7, <2>8, <2>9, <2>10, <2>11
    DEF Hash!Step
<1>2. CASE UNCHANGED hashVars
  BY <1>2 DEF hashVars, HashInv, Hash!TypeOK, PasswordsStarted, SnapshotFresh
<1> QED
  BY <1>1, <1>2 DEF Hash!Next

LEMMA StoreStepOfHash ==
    [StoreNext]_<<redis, vars, hashVars>> => [Hash!Next]_hashVars
BY DEF StoreNext

(* The hash of users is type correct, and the record an EXEC is about to   *)
(* write back is stale only when the version says so.                      *)
THEOREM HashWatched == StoreSpec => []HashInv
BY HashInitially, StoreStepOfHash, HashStep, PTL DEF StoreSpec

(* RedisStore.mutate: an update that goes through is applied to the record *)
(* as it is at that moment, whatever the other nodes have written since    *)
(* the request read it.                                                    *)
THEOREM HashMutatesAtomically == StoreSpec => MutateAtomic
<1> DEFINE Atomic(p) ==
        rpc[p] = "exec" /\ rpc'[p] = "idle" /\ users' # users =>
            /\ rarg[p].name \in DOMAIN users
            /\ users' = Hash!Put(users, rarg[p].name,
                                 Hash!Apply(rarg[p], users[rarg[p].name]))
<1>1. HashInv /\ [Hash!Next]_hashVars => [\A p \in Procs : Atomic(p)]_hashVars
  <2> SUFFICES ASSUME HashInv, NEW q \in Procs, Hash!Step(q), NEW p \in Procs,
                      rpc[p] = "exec", rpc'[p] = "idle", users' # users
               PROVE  /\ rarg[p].name \in DOMAIN users
                      /\ users' = Hash!Put(users, rarg[p].name,
                                      Hash!Apply(rarg[p], users[rarg[p].name]))
    BY DEF Hash!Next
  <2>1. p = q
    <3> SUFFICES ASSUME p # q PROVE rpc'[p] = rpc[p]
      OBVIOUS
    <3> QED
      BY DEF HashInv, Hash!TypeOK, Hash!Step, Hash!SeedStart, Hash!CreateStart,
             Hash!DeleteStart, Hash!ToggleStart, Hash!PasswordStart, Hash!Refuse,
             Hash!Proceed, Hash!SeedWrite, Hash!CreateWrite, Hash!DeleteWrite,
             Hash!MutateWatch, Hash!MutateExec, Hash!GiveUp, Hash!Return
  <2>2. Hash!MutateExec(p)
    BY <2>1 DEF Hash!Step, Hash!SeedStart, Hash!CreateStart, Hash!DeleteStart,
             Hash!ToggleStart, Hash!PasswordStart, Hash!Start, Hash!SeedWrite,
             Hash!CreateWrite, Hash!DeleteWrite, Hash!MutateWatch, Hash!GiveUp
  <2>3. version = seen[p] /\ Hash!HSet(p, Hash!Apply(rarg[p], snap[p]))
    BY <2>2 DEF Hash!MutateExec
  <2>4. rarg[p].name \in DOMAIN users /\ snap[p] = users[rarg[p].name]
    BY <2>3 DEF HashInv, SnapshotFresh
  <2> QED
    BY <2>3, <2>4 DEF Hash!HSet
<1> QED
  BY <1>1, HashWatched, StoreStepOfHash, PTL
  DEF StoreSpec, MutateAtomic, Hash!MutateAtomic, Hash!vars, hashVars
============================================================================
