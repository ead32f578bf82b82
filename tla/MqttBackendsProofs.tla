------------------------- MODULE MqttBackendsProofs ------------------------
(***************************************************************************)
(* Proofs about MqttBackends.tla, for any subjects, topics and accounts to *)
(* start from, and any number of requests, failures, crashes and edits.    *)
(***************************************************************************)
EXTENDS MqttBackends, TLAPS

----------------------------------------------------------------------------
(* The ledger file.                                                        *)

(* An account is a user with a password and a set of rules.                *)
LEMMA EmptyRules == <<>> \in RuleSet(Topics)
<1>1. <<>> \in [{} -> Access]
  OBVIOUS
<1> QED
  BY <1>1 DEF RuleSet

(* What the writing operations make of a set of accounts is one again.     *)
LEMMA WithAccount ==
    ASSUME NEW as, IsAccounts(as, Subjects, Topics), NEW s \in Subjects,
           NEW a \in Account(Topics)
    PROVE  IsAccounts(With(as, s, a), Subjects, Topics)
<1> PICK S \in SUBSET Subjects : as \in [S -> Account(Topics)]
  BY DEF IsAccounts
<1>1. With(as, s, a) \in [S \cup {s} -> Account(Topics)]
  BY DEF With
<1> QED
  BY <1>1 DEF IsAccounts

LEMMA PutUserTyped ==
    ASSUME NEW as, IsAccounts(as, Subjects, Topics), NEW s \in Subjects,
           NEW allow \in BOOLEAN, NEW pw \in Nat, s \in DOMAIN as \/ pw # NoPassword
    PROVE  IsAccounts(PutUser(as, s, allow, pw), Subjects, Topics)
<1> DEFINE a == [allow |-> allow,
                 pw    |-> IF pw = NoPassword THEN as[s].pw ELSE pw,
                 acl   |-> IF s \in DOMAIN as THEN as[s].acl ELSE <<>>]
<1>1. s \in DOMAIN as => as[s] \in Account(Topics)
  BY DEF IsAccounts
<1>2. a \in Account(Topics)
  BY <1>1, EmptyRules DEF Account
<1> QED
  BY <1>2, WithAccount DEF PutUser

LEMMA WithoutTyped ==
    ASSUME NEW as, IsAccounts(as, Subjects, Topics), NEW s
    PROVE  IsAccounts(Without(as, s), Subjects, Topics)
<1> PICK S \in SUBSET Subjects : as \in [S -> Account(Topics)]
  BY DEF IsAccounts
<1>1. Without(as, s) \in [S \ {s} -> Account(Topics)]
  BY DEF Without
<1> QED
  BY <1>1 DEF IsAccounts

LEMMA RulesTyped ==
    ASSUME NEW as, IsAccounts(as, Subjects, Topics), NEW s \in DOMAIN as,
           NEW rs \in RuleSet(Topics)
    PROVE  IsAccounts([as EXCEPT ![s].acl = rs], Subjects, Topics)
<1> PICK S \in SUBSET Subjects : as \in [S -> Account(Topics)]
  BY DEF IsAccounts
<1>1. as[s] \in Account(Topics)
  OBVIOUS
<1>2. [as[s] EXCEPT !.acl = rs] \in Account(Topics)
  BY <1>1 DEF Account
<1>3. [as EXCEPT ![s].acl = rs] \in [S -> Account(Topics)]
  BY <1>2
<1> QED
  BY <1>3 DEF IsAccounts

LEMMA PutRuleTyped ==
    ASSUME NEW as, IsAccounts(as, Subjects, Topics), NEW s \in DOMAIN as,
           NEW t \in Topics, NEW access \in Access
    PROVE  IsAccounts(PutRule(as, s, t, access), Subjects, Topics)
<1>1. as[s].acl \in RuleSet(Topics)
  BY DEF IsAccounts, Account
<1> PICK T \in SUBSET Topics : as[s].acl \in [T -> Access]
  BY <1>1 DEF RuleSet
<1>2. With(as[s].acl, t, access) \in [T \cup {t} -> Access]
  BY DEF With
<1>3. With(as[s].acl, t, access) \in RuleSet(Topics)
  BY <1>2 DEF RuleSet
<1> QED
  BY <1>3, RulesTyped DEF PutRule

LEMMA DeleteRuleTyped ==
    ASSUME NEW as, IsAccounts(as, Subjects, Topics), NEW s \in DOMAIN as, NEW t
    PROVE  IsAccounts(DeleteRule(as, s, t), Subjects, Topics)
<1>1. as[s].acl \in RuleSet(Topics)
  BY DEF IsAccounts, Account
<1> PICK T \in SUBSET Topics : as[s].acl \in [T -> Access]
  BY <1>1 DEF RuleSet
<1>2. Without(as[s].acl, t) \in [T \ {t} -> Access]
  BY DEF Without
<1>3. Without(as[s].acl, t) \in RuleSet(Topics)
  BY <1>2 DEF RuleSet
<1> QED
  BY <1>3, RulesTyped DEF DeleteRule

(* A ledger is accounts and a version of the operator's lists.             *)
LEMMA LedgerParts ==
    ASSUME NEW l, IsLedger(l)
    PROVE  /\ IsAccounts(l.users, Subjects, Topics)
           /\ l.lists \in Nat
           /\ l = [users |-> l.users, lists |-> l.lists]
BY DEF IsLedger, IsAccounts

LEMMA LedgerOf ==
    ASSUME NEW us, IsAccounts(us, Subjects, Topics), NEW n \in Nat
    PROVE  IsLedger([users |-> us, lists |-> n])
BY DEF IsLedger, IsAccounts

LEMMA EmptyLedger == IsLedger(Empty)
<1>1. <<>> \in [{} -> Account(Topics)]
  OBVIOUS
<1>2. IsAccounts(<<>>, Subjects, Topics)
  BY <1>1 DEF IsAccounts
<1> QED
  BY <1>2, LedgerOf DEF Empty

(* The arguments a handler hands to a method.                              *)
ArgMeant(a) == a.op # "none" /\ a.pw \in 0..MaxOps

(* The ledger a method is going to save.                                   *)
LEMMA ResultIsLedger ==
    ASSUME NEW a \in Arg, a.op # "none", NEW l, IsLedger(l), ~Refused(a, l.users)
    PROVE  /\ IsLedger(Result(a, l))
           /\ Result(a, l).users = ResultUsers(a, l.users)
           /\ Result(a, l).lists = l.lists
<1> USE DEF Arg
<1>0. IsAccounts(l.users, Subjects, Topics) /\ l.lists \in Nat
  BY LedgerParts
<1>1. IsAccounts(ResultUsers(a, l.users), Subjects, Topics)
  <2>1. CASE a.op = "put"
    BY <1>0, <2>1, PutUserTyped DEF Refused, ResultUsers
  <2>2. CASE a.op = "delete"
    BY <1>0, <2>2, WithoutTyped DEF ResultUsers
  <2>3. CASE a.op = "rule"
    BY <1>0, <2>3, PutRuleTyped DEF Refused, ResultUsers
  <2>4. CASE a.op = "unrule"
    BY <1>0, <2>4, DeleteRuleTyped DEF Refused, ResultUsers
  <2> QED
    BY <2>1, <2>2, <2>3, <2>4
<1>2. Result(a, l) = [users |-> ResultUsers(a, l.users), lists |-> l.lists]
  BY LedgerParts DEF Result
<1> QED
  BY <1>0, <1>1, <1>2, LedgerOf

(* Whoever holds b.mu is saving what his operation makes of the accounts   *)
(* in the file; what he is about to rename is all of it; and the lists in  *)
(* his hands are the operator's last, unless an edit came in between.      *)
Holding(p) ==
    /\ ~Refused(arg[p], disk.users)
    /\ pending.users = ResultUsers(arg[p], disk.users)
    /\ pc[p] = "rename" => temp = pending
    /\ ~raced => pending.lists = edits

LockInv ==
    /\ \A p \in Procs : pc[p] # "idle" => ArgMeant(arg[p])
    /\ \A p \in Procs : mu = p => Holding(p)

LedgerInv == TypeOK /\ LockInv /\ ListsPreserved

LEMMA SomeChosen ==
    /\ (CHOOSE s \in Subjects : TRUE) \in Subjects
    /\ (CHOOSE t \in Topics : TRUE) \in Topics
<1>1. (\E s \in Subjects : TRUE) /\ (\E t \in Topics : TRUE)
  BY LedgerAssumption
<1> QED
  BY <1>1, Zenon

LEMMA NoArgTyped == NoArg \in Arg /\ NoArg.pw = 0
BY SomeChosen DEF NoArg, Arg, Access

LEMMA LedgerInitially == Init => LedgerInv
<1> SUFFICES ASSUME Init PROVE LedgerInv
  OBVIOUS
<1>1. IsLedger(disk) /\ disk # Partial
  BY LedgerOf, LedgerAssumption DEF Init
<1>2. TypeOK
  <2>1. IsLedger(pending) /\ temp = NoFile
    BY EmptyLedger DEF Init
  <2>2. /\ pc \in [Procs -> {"idle", "lock", "create", "write", "rename"}]
        /\ arg \in [Procs -> Arg]
        /\ \A p \in Procs : pc[p] = "idle" /\ mu # p
    BY NoArgTyped, LedgerAssumption DEF Init
  <2>3. /\ ops \in 0..MaxOps /\ faults \in 0..MaxFaults
        /\ crashes \in 0..MaxCrashes /\ edits \in 0..MaxEdits
        /\ stray \in 0..crashes
    BY LedgerAssumption DEF Init
  <2> QED
    BY <1>1, <2>1, <2>2, <2>3 DEF Init, TypeOK
<1>3. LockInv /\ ListsPreserved
  BY LedgerAssumption DEF Init, LockInv, ListsPreserved
<1> QED
  BY <1>2, <1>3 DEF LedgerInv

(* A handler passes its request on to the backend.                         *)
LEMMA RequestStep ==
    ASSUME LedgerInv, NEW p \in Procs, NEW a \in Arg, Request(p, a),
           a.op # "none", a.pw \in 0..MaxOps
    PROVE  LedgerInv'
<1> USE DEF LedgerInv
<1>1. TypeOK'
  BY LedgerAssumption DEF TypeOK, Request
<1>2. LockInv'
  BY DEF TypeOK, LockInv, ArgMeant, Holding, Request
<1>3. ListsPreserved'
  BY DEF ListsPreserved, Request
<1> QED
  BY <1>1, <1>2, <1>3

(* A method that returns without having changed the ledger.                *)
LEMMA ReturnStep ==
    ASSUME LedgerInv, NEW p \in Procs, mu \in {NoProc, p}, pc[p] # "idle", Return(p),
           disk' = disk \/ (disk'.lists = disk.lists /\ IsLedger(disk')),
           faults' \in 0..MaxFaults,
           UNCHANGED <<stray, ops, crashes, edits, raced>>
    PROVE  LedgerInv'
<1> USE DEF LedgerInv
<1>1. IsLedger(disk') /\ disk' # Partial
  BY LedgerAssumption DEF TypeOK
<1>2. \A q \in Procs : pc'[q] \in {"idle", "lock"}
  BY LedgerAssumption DEF TypeOK, Return
<1>3. TypeOK'
  BY <1>1, <1>2, EmptyLedger, NoArgTyped, LedgerAssumption DEF TypeOK, Return
<1>4. LockInv'
  BY LedgerAssumption DEF TypeOK, LockInv, Return
<1>5. ListsPreserved'
  BY DEF ListsPreserved
<1> QED
  BY <1>3, <1>4, <1>5

(* Every handler, every step of a save, a crash and an edit keep it.       *)
LEMMA LedgerStep == LedgerInv /\ [Next]_vars => LedgerInv'
<1> SUFFICES ASSUME LedgerInv, [Next]_vars PROVE LedgerInv'
  OBVIOUS
<1> USE DEF LedgerInv
<1>1. ASSUME NEW p \in Procs, Handler(p) PROVE LedgerInv'
  <2> PICK s \in Subjects :
        \/ \E allow \in BOOLEAN : AuthCreate(p, s, allow)
        \/ AuthToggle(p, s) \/ AuthDelete(p, s)
        \/ \E t \in Topics :
            ACLDelete(p, s, t) \/ \E a \in Accesses : ACLCreate(p, s, t, a)
    BY <1>1 DEF Handler
  <2>0. MaxOps \in Nat /\ 0 \in 0..MaxOps /\ Accesses \subseteq Access
    BY LedgerAssumption
  <2>1. ASSUME NEW allow \in BOOLEAN, AuthCreate(p, s, allow) PROVE LedgerInv'
    <3> DEFINE a == [NoArg EXCEPT !.op = "put", !.s = s, !.allow = allow,
                                  !.pw = ops + 1]
    <3>1. Request(p, a)
      BY <2>1 DEF AuthCreate
    <3>2. ops < MaxOps /\ ops \in 0..MaxOps
      BY <3>1 DEF Request, TypeOK
    <3>3. ops + 1 \in 0..MaxOps /\ ops + 1 \in Nat
      BY <2>0, <3>2
    <3>4. a \in Arg /\ a.op = "put" /\ a.pw = ops + 1
      BY <3>3, NoArgTyped DEF Arg
    <3> QED
      BY <3>1, <3>3, <3>4, RequestStep
  <2>2. CASE AuthToggle(p, s)
    <3> DEFINE a == [NoArg EXCEPT !.op = "put", !.s = s,
                                  !.allow = ~disk.users[s].allow,
                                  !.pw = NoPassword]
    <3>1. Request(p, a)
      BY <2>2 DEF AuthToggle
    <3>2. a \in Arg /\ a.op = "put" /\ a.pw = 0
      BY NoArgTyped DEF Arg, NoPassword
    <3> QED
      BY <2>0, <3>1, <3>2, RequestStep
  <2>3. CASE AuthDelete(p, s)
    <3> DEFINE a == [NoArg EXCEPT !.op = "delete", !.s = s]
    <3>1. a \in Arg /\ a.op = "delete" /\ a.pw = 0
      BY NoArgTyped DEF Arg
    <3> QED
      BY <2>0, <2>3, <3>1, RequestStep DEF AuthDelete
  <2>4. ASSUME NEW t \in Topics, ACLDelete(p, s, t) PROVE LedgerInv'
    <3> DEFINE a == [NoArg EXCEPT !.op = "unrule", !.s = s, !.t = t]
    <3>1. a \in Arg /\ a.op = "unrule" /\ a.pw = 0
      BY NoArgTyped DEF Arg
    <3> QED
      BY <2>0, <2>4, <3>1, RequestStep DEF ACLDelete
  <2>5. ASSUME NEW t \in Topics, NEW access \in Accesses, ACLCreate(p, s, t, access)
        PROVE LedgerInv'
    <3> DEFINE a == [NoArg EXCEPT !.op = "rule", !.s = s, !.t = t,
                                  !.access = access]
    <3>1. a \in Arg /\ a.op = "rule" /\ a.pw = 0
      BY <2>0, NoArgTyped DEF Arg
    <3> QED
      BY <2>0, <2>5, <3>1, RequestStep DEF ACLCreate
  <2> QED
    BY <2>1, <2>2, <2>3, <2>4, <2>5
<1>2. ASSUME NEW p \in Procs, Load(p) PROVE LedgerInv'
  <2>1. CASE Return(p)
    BY <1>2, <2>1, ReturnStep DEF Load, counts, TypeOK
  <2>2. CASE /\ ~Refused(arg[p], disk.users)
             /\ mu' = p
             /\ pending' = Result(arg[p], disk)
             /\ pc' = [pc EXCEPT ![p] = "create"]
             /\ UNCHANGED <<temp, arg>>
    <3>1. /\ pc[p] = "lock" /\ mu = NoProc
          /\ UNCHANGED <<disk, stray, ops, faults, crashes, edits, raced>>
      BY <1>2 DEF Load, counts
    <3>2. arg[p] \in Arg /\ ArgMeant(arg[p]) /\ IsLedger(disk)
      BY <3>1 DEF TypeOK, LockInv
    <3>3. /\ IsLedger(pending')
          /\ pending'.users = ResultUsers(arg[p], disk.users)
          /\ pending'.lists = disk.lists
      BY <2>2, <3>2, ResultIsLedger DEF ArgMeant
    <3>4. \A q \in Procs : q # p => pc'[q] = pc[q] /\ pc[q] \in {"idle", "lock"}
      BY <2>2, <3>1, LedgerAssumption DEF TypeOK
    <3>5. TypeOK'
      BY <2>2, <3>1, <3>3, <3>4 DEF TypeOK
    <3>6. LockInv'
      BY <2>2, <3>1, <3>3 DEF TypeOK, LockInv, Holding, ListsPreserved
    <3> QED
      BY <3>1, <3>5, <3>6 DEF ListsPreserved
  <2> QED
    BY <1>2, <2>1, <2>2 DEF Load
<1>3. ASSUME NEW p \in Procs, SaveCreateTemp(p) PROVE LedgerInv'
  <2>1. TypeOK'
    BY <1>3 DEF TypeOK, SaveCreateTemp, counts
  <2>2. LockInv'
    BY <1>3 DEF TypeOK, LockInv, Holding, SaveCreateTemp, counts
  <2> QED
    BY <1>3, <2>1, <2>2 DEF ListsPreserved, SaveCreateTemp, counts
<1>4. ASSUME NEW p \in Procs, SaveWrite(p) PROVE LedgerInv'
  <2>1. TypeOK'
    BY <1>4 DEF TypeOK, SaveWrite, counts
  <2>2. LockInv'
    BY <1>4 DEF TypeOK, LockInv, Holding, SaveWrite, counts
  <2> QED
    BY <1>4, <2>1, <2>2 DEF ListsPreserved, SaveWrite, counts
<1>5. ASSUME NEW p \in Procs, SaveRename(p) PROVE LedgerInv'
  <2>1. mu = p /\ pc[p] = "rename" /\ disk' = pending /\ IsLedger(disk')
    BY <1>5 DEF SaveRename, TypeOK, LockInv, Holding
  <2>2. /\ Return(p)
        /\ UNCHANGED <<stray, ops, faults, crashes, edits, raced>>
    BY <1>5 DEF SaveRename, counts
  <2>3. ~raced => disk'.lists = edits
    BY <2>1 DEF LockInv, Holding
  <2>4. \A q \in Procs : pc'[q] \in {"idle", "lock"}
    BY <2>1, <2>2 DEF TypeOK, Return
  <2>5. TypeOK'
    BY <2>1, <2>2, <2>4, EmptyLedger, NoArgTyped, LedgerAssumption DEF TypeOK, Return
  <2>6. LockInv'
    BY <2>2, LedgerAssumption DEF TypeOK, LockInv, Return
  <2> QED
    BY <2>2, <2>3, <2>5, <2>6 DEF ListsPreserved
<1>6. ASSUME NEW p \in Procs, SaveFails(p) PROVE LedgerInv'
  <2>1. mu = p /\ faults' \in 0..MaxFaults
    BY <1>6, LedgerAssumption DEF SaveFails, TypeOK
  <2> QED
    BY <1>6, <2>1, ReturnStep DEF SaveFails
<1>7. CASE Crash
  <2>1. stray' \in 0..crashes'
    BY <1>7, LedgerAssumption DEF Crash, TypeOK
  <2>2. TypeOK'
    BY <1>7, <2>1, EmptyLedger, NoArgTyped, LedgerAssumption DEF TypeOK, Crash
  <2>3. LockInv' /\ ListsPreserved'
    BY <1>7, LedgerAssumption DEF LockInv, ListsPreserved, Crash
  <2> QED
    BY <2>2, <2>3
<1>8. CASE OperatorEdit
  <2>1. disk' = [users |-> disk.users, lists |-> edits + 1]
    BY <1>8, LedgerParts DEF OperatorEdit, TypeOK
  <2>2. IsLedger(disk') /\ disk' # Partial
    BY <2>1, LedgerParts, LedgerOf, LedgerAssumption DEF TypeOK
  <2>3. TypeOK'
    BY <1>8, <2>2, LedgerAssumption DEF TypeOK, OperatorEdit
  <2>4. LockInv'
    BY <1>8, <2>1, LedgerAssumption DEF TypeOK, LockInv, Holding, OperatorEdit
  <2>5. ListsPreserved'
    BY <1>8, <2>1 DEF ListsPreserved, OperatorEdit
  <2> QED
    BY <2>3, <2>4, <2>5
<1>9. CASE UNCHANGED vars
  BY <1>9 DEF vars, counts, TypeOK, LockInv, Holding, ListsPreserved
<1> QED
  BY <1>1, <1>2, <1>3, <1>4, <1>5, <1>6, <1>7, <1>8, <1>9 DEF Next, StoreStep

(* The steps of BackendSpec are steps of the ledger or leave it alone.     *)
LEMMA BackendStepOfLedger ==
    [BackendNext]_<<kind, vars, tableVars>> => [Next]_vars
BY DEF BackendNext

(* The broker never reads a partial ledger, temporary files stay behind    *)
(* only after crashes, and the holder of b.mu saves exactly his operation. *)
THEOREM LedgerLocked == BackendSpec => []LedgerInv
<1>1. BackendInit => LedgerInv
  BY LedgerInitially DEF BackendInit
<1> QED
  BY <1>1, BackendStepOfLedger, LedgerStep, PTL DEF BackendSpec

(* "The top-level Auth and ACL slices ... are preserved verbatim on        *)
(* write", unless the operator edits them during a save.                   *)
THEOREM LedgerKeepsLists == BackendSpec => []ListsPreserved
BY LedgerLocked, PTL DEF LedgerInv

(* What the rename publishes is one operation of the interface on the      *)
(* accounts that were in the file.                                         *)
LEMMA RenameIsOperation ==
    ASSUME NEW a \in Arg, ArgMeant(a), ~Refused(a, disk.users),
           disk'.users = ResultUsers(a, disk.users)
    PROVE  Backend!Next
<1> USE DEF Arg, ArgMeant
<1>1. CASE a.op = "put" /\ a.pw # NoPassword
  <2>1. disk'.users = Backend!PutUser(disk.users, a.s, a.allow, a.pw)
    BY <1>1 DEF ResultUsers, PutUser, Backend!PutUser, With, Backend!With,
                NoPassword, Backend!NoPassword
  <2>2. a.pw \in 1..MaxOps
    BY <1>1 DEF NoPassword
  <2>3. Backend!PutWithPassword(a.s)
    BY <2>1, <2>2 DEF Backend!PutWithPassword
  <2> QED
    BY <2>3 DEF Backend!Next
<1>2. CASE a.op = "put" /\ a.pw = NoPassword
  <2>1. disk'.users = Backend!PutUser(disk.users, a.s, a.allow, Backend!NoPassword)
    BY <1>2 DEF ResultUsers, PutUser, Backend!PutUser, With, Backend!With,
                NoPassword, Backend!NoPassword
  <2>2. a.s \in DOMAIN disk.users
    BY <1>2 DEF Refused
  <2>3. Backend!PutKeepingPassword(a.s)
    BY <2>1, <2>2 DEF Backend!PutKeepingPassword
  <2> QED
    BY <2>3 DEF Backend!Next
<1>3. CASE a.op = "delete"
  <2>1. /\ a.s \in DOMAIN disk.users
        /\ disk'.users = Backend!Without(disk.users, a.s)
    BY <1>3 DEF Refused, ResultUsers, Without, Backend!Without
  <2>2. Backend!DeleteUser(a.s)
    BY <2>1 DEF Backend!DeleteUser
  <2> QED
    BY <2>2 DEF Backend!Next
<1>4. CASE a.op = "rule"
  <2>1. /\ a.s \in DOMAIN disk.users
        /\ disk'.users = Backend!PutRule(disk.users, a.s, a.t, a.access)
    BY <1>4 DEF Refused, ResultUsers, PutRule, Backend!PutRule, With, Backend!With
  <2>2. Backend!SetRule(a.s, a.t)
    BY <2>1 DEF Backend!SetRule, Access, Backend!Access
  <2> QED
    BY <2>2 DEF Backend!Next
<1>5. CASE a.op = "unrule"
  <2>1. /\ a.s \in DOMAIN disk.users /\ a.t \in DOMAIN disk.users[a.s].acl
        /\ disk'.users = Backend!DeleteRule(disk.users, a.s, a.t)
    BY <1>5 DEF Refused, ResultUsers, DeleteRule, Backend!DeleteRule, Without,
                Backend!Without
  <2>2. Backend!RemoveRule(a.s, a.t)
    BY <2>1 DEF Backend!RemoveRule
  <2> QED
    BY <2>2 DEF Backend!Next
<1> QED
  BY <1>1, <1>2, <1>3, <1>4, <1>5

(* Only the rename shows: requests, the other steps of a save, failures,   *)
(* crashes and edits of the lists leave the accounts as they were.         *)
LEMMA LedgerStepShows ==
    LedgerInv /\ [Next]_vars => [Backend!Next]_(disk.users)
<1> SUFFICES ASSUME LedgerInv, [Next]_vars PROVE [Backend!Next]_(disk.users)
  OBVIOUS
<1>1. ASSUME NEW p \in Procs, Handler(p) PROVE UNCHANGED disk
  BY <1>1 DEF Handler, AuthCreate, AuthToggle, AuthDelete, ACLCreate, ACLDelete,
              Request
<1>2. ASSUME NEW p \in Procs,
             Load(p) \/ SaveCreateTemp(p) \/ SaveWrite(p) \/ SaveFails(p)
      PROVE UNCHANGED disk
  BY <1>2 DEF Load, SaveCreateTemp, SaveWrite, SaveFails
<1>3. ASSUME NEW p \in Procs, SaveRename(p) PROVE Backend!Next
  <2>1. /\ arg[p] \in Arg /\ ArgMeant(arg[p])
        /\ ~Refused(arg[p], disk.users)
        /\ disk'.users = ResultUsers(arg[p], disk.users)
    BY <1>3 DEF SaveRename, LedgerInv, TypeOK, LockInv, Holding
  <2> QED
    BY <2>1, RenameIsOperation
<1>4. CASE Crash
  BY <1>4 DEF Crash
<1>5. CASE OperatorEdit
  <2>1. disk = [users |-> disk.users, lists |-> disk.lists]
    BY LedgerParts DEF LedgerInv, TypeOK
  <2> QED
    BY <1>5, <2>1 DEF OperatorEdit
<1>6. CASE UNCHANGED vars
  BY <1>6 DEF vars
<1> QED
  BY <1>1, <1>2, <1>3, <1>4, <1>5, <1>6 DEF Next, StoreStep

(* The ledger file implements mqttauth.Backend: whatever overlaps, fails   *)
(* or dies, the accounts change by one operation at a time, each applied   *)
(* to the newest accounts.                                                 *)
THEOREM LedgerImplementsBackend == BackendSpec => ImplementsBackend
<1>1. BackendInit => Backend!Init
  BY DEF BackendInit, Init, Backend!Init
<1>2. LedgerInv /\ [BackendNext]_<<kind, vars, tableVars>>
        => [Backend!Next]_(disk.users)
  BY BackendStepOfLedger, LedgerStepShows
<1> QED
  BY <1>1, <1>2, LedgerLocked, PTL DEF BackendSpec, ImplementsBackend, Backend!Spec

----------------------------------------------------------------------------
(* Redis and SQL.                                                          *)

TableTyped ==
    /\ DOMAIN users \subseteq TableSubjects
    /\ users \in [DOMAIN users -> Tables!User]
    /\ gone \in [TableSubjects -> Nat]
    /\ tpc \in [Procs -> {"idle", "get", "set", "delete", "cascade", "rule",
                          "unrule"}]
    /\ targ \in [Procs -> Tables!Arg]
    /\ snap \in [Procs -> Nat]
    /\ tops \in 0..MaxTableOps /\ tfaults \in 0..MaxFaults

RuleTyped(r) ==
    /\ r.s \in TableSubjects /\ r.t \in TableTopics
    /\ r.n \in 1..MaxTableOps
    /\ r.gen \in 0..gone[r.s]
    /\ r.id = Tables!RuleId(r.n, r.s, r.t)

RuleIds ==
    /\ \A r \in rules : RuleTyped(r)
    /\ \A q, r \in rules : q.id = r.id => q = r

(* A request that is going to write a user has a password for him, and one *)
(* that is going to make a rule a number for it.                           *)
Prepared ==
    \A p \in Procs :
        /\ tpc[p] = "set" => Tables!StoredPassword(p) # 0
        /\ tpc[p] = "rule" => targ[p].pw \in 1..MaxTableOps

TableInv ==
    /\ TableTyped /\ RuleIds /\ Prepared
    /\ UsersHavePasswords /\ NoInheritedRules

LEMMA TableNoArg == Tables!NoArg \in Tables!Arg /\ Tables!NoArg.pw = 0
<1>1. (\E s \in TableSubjects : TRUE) /\ (\E t \in TableTopics : TRUE)
  BY TableAssumption
<1>2. /\ (CHOOSE s \in TableSubjects : TRUE) \in TableSubjects
      /\ (CHOOSE t \in TableTopics : TRUE) \in TableTopics
  BY <1>1, Zenon
<1> QED
  BY <1>2 DEF Tables!NoArg, Tables!Arg, Tables!NoPassword

LEMMA TablesInitially == BackendInit => TableInv
<1> SUFFICES ASSUME Tables!TableInit PROVE TableInv
  BY DEF BackendInit
<1>1. DOMAIN users = {} /\ users \in [{} -> Tables!User]
  BY DEF Tables!TableInit
<1>2. TableTyped
  BY <1>1, TableNoArg, TableAssumption, LedgerAssumption
  DEF Tables!TableInit, TableTyped, Tables!NoPassword
<1>3. RuleIds /\ Prepared
  BY DEF Tables!TableInit, RuleIds, Prepared
<1>4. UsersHavePasswords /\ NoInheritedRules
  BY <1>1 DEF Tables!TableInit, UsersHavePasswords, Tables!UsersHavePasswords,
              NoInheritedRules, Tables!NoInheritedRules
<1> QED
  BY <1>2, <1>3, <1>4 DEF TableInv

(* A handler's request, before its first statement.                        *)
LEMMA TableRequest ==
    ASSUME TableInv, NEW p \in Procs, NEW a \in Tables!Arg,
           NEW next \in {"get", "delete", "rule", "unrule"},
           Tables!Request(p, next, a), next = "rule" => a.pw \in 1..MaxTableOps
    PROVE  TableInv'
<1> USE DEF TableInv, Tables!Request, Tables!dbVars
<1>1. TableTyped'
  BY TableAssumption DEF TableTyped
<1>2. RuleIds'
  BY DEF RuleIds, RuleTyped, Tables!RuleId
<1>3. Prepared'
  BY DEF TableTyped, Prepared, Tables!StoredPassword
<1>4. UsersHavePasswords'
  BY DEF UsersHavePasswords, Tables!UsersHavePasswords
<1>5. NoInheritedRules'
  BY DEF TableTyped, NoInheritedRules, Tables!NoInheritedRules
<1> QED
  BY <1>1, <1>2, <1>3, <1>4, <1>5

(* A request that ends: the others are where they were.                    *)
LEMMA TableReturn ==
    ASSUME TableInv, NEW p \in Procs, Tables!Return(p), tfaults' \in 0..MaxFaults,
           UNCHANGED gone,
           DOMAIN users' \subseteq TableSubjects,
           users' \in [DOMAIN users' -> Tables!User]
    PROVE  /\ TableTyped' /\ Prepared'
           /\ \A q \in Procs : q # p => tpc'[q] = tpc[q] /\ targ'[q] = targ[q]
<1> USE DEF TableInv, Tables!Return
<1>1. TableTyped'
  BY TableNoArg DEF TableTyped, Tables!NoPassword
<1>2. \A q \in Procs : q # p =>
        tpc'[q] = tpc[q] /\ targ'[q] = targ[q] /\ snap'[q] = snap[q]
  BY DEF TableTyped
<1>3. tpc'[p] = "idle"
  BY DEF TableTyped
<1>4. Prepared'
  BY <1>2, <1>3 DEF Prepared, Tables!StoredPassword
<1> QED
  BY <1>1, <1>2, <1>4

(* Every statement of every request keeps the invariant.                   *)
LEMMA TableStep == TableInv /\ [Tables!Next]_<<kind, tableVars>> => TableInv'
<1> SUFFICES ASSUME TableInv, [Tables!Next]_<<kind, tableVars>> PROVE TableInv'
  OBVIOUS
<1> USE DEF TableInv
<1>1. ASSUME NEW p \in Procs, NEW s \in TableSubjects, NEW allow \in BOOLEAN,
             Tables!AuthCreate(p, s, allow)
      PROVE TableInv'
  <2> DEFINE a == [Tables!NoArg EXCEPT !.s = s, !.allow = allow, !.pw = tops + 1]
  <2>1. Tables!Request(p, "get", a)
    BY <1>1 DEF Tables!AuthCreate
  <2>2. tops + 1 \in Nat
    BY TableAssumption DEF TableTyped
  <2>3. a \in Tables!Arg
    BY <2>2, TableNoArg DEF Tables!Arg
  <2> QED
    BY <2>1, <2>3, TableRequest
<1>2. ASSUME NEW p \in Procs, NEW s \in TableSubjects, Tables!AuthToggle(p, s)
      PROVE TableInv'
  <2> DEFINE a == [Tables!NoArg EXCEPT !.s = s, !.allow = ~users[s].allow]
  <2>1. Tables!Request(p, "get", a)
    BY <1>2 DEF Tables!AuthToggle
  <2>2. a \in Tables!Arg
    BY TableNoArg DEF Tables!Arg
  <2> QED
    BY <2>1, <2>2, TableRequest
<1>3. ASSUME NEW p \in Procs, NEW s \in TableSubjects, Tables!AuthDelete(p, s)
      PROVE TableInv'
  <2> DEFINE a == [Tables!NoArg EXCEPT !.s = s]
  <2>1. a \in Tables!Arg
    BY TableNoArg DEF Tables!Arg
  <2> QED
    BY <1>3, <2>1, TableRequest DEF Tables!AuthDelete
<1>4. ASSUME NEW p \in Procs, NEW s \in TableSubjects, NEW t \in TableTopics,
             Tables!ACLCreate(p, s, t)
      PROVE TableInv'
  <2> DEFINE a == [Tables!NoArg EXCEPT !.s = s, !.t = t, !.pw = tops + 1]
  <2>1. Tables!Request(p, "rule", a)
    BY <1>4 DEF Tables!ACLCreate
  <2>2. tops + 1 \in Nat /\ tops + 1 \in 1..MaxTableOps
    BY <2>1, TableAssumption DEF TableTyped, Tables!Request
  <2>3. a \in Tables!Arg /\ a.pw = tops + 1
    BY <2>2, TableNoArg DEF Tables!Arg
  <2> QED
    BY <2>1, <2>2, <2>3, TableRequest
<1>5. ASSUME NEW p \in Procs, NEW r \in rules, Tables!ACLDelete(p, r)
      PROVE TableInv'
  <2> DEFINE a == [Tables!NoArg EXCEPT !.s = r.s, !.t = r.t, !.pw = r.n]
  <2>1. r.s \in TableSubjects /\ r.t \in TableTopics /\ r.n \in Nat
    BY DEF RuleIds, RuleTyped
  <2>2. a \in Tables!Arg
    BY <2>1, TableNoArg DEF Tables!Arg
  <2> QED
    BY <1>5, <2>2, TableRequest DEF Tables!ACLDelete
<1>6. ASSUME NEW p \in Procs, Tables!PutGet(p) PROVE TableInv'
  <2>1. CASE Tables!Return(p)
    <3>1. tpc[p] = "get" /\ UNCHANGED <<kind, users, rules, gone, tfaults>>
      BY <1>6, <2>1 DEF Tables!PutGet, Tables!dbVars, Tables!Return
    <3>2. TableTyped' /\ Prepared' /\ \A q \in Procs : q # p =>
            tpc'[q] = tpc[q] /\ targ'[q] = targ[q]
      BY <2>1, <3>1, TableReturn DEF TableTyped
    <3>3. RuleIds'
      BY <3>1 DEF RuleIds, RuleTyped, Tables!RuleId
    <3>4. UsersHavePasswords' /\ NoInheritedRules'
      BY <3>1, <3>2 DEF UsersHavePasswords, Tables!UsersHavePasswords,
                        NoInheritedRules, Tables!NoInheritedRules
    <3> QED
      BY <3>2, <3>3, <3>4
  <2>2. CASE /\ targ[p].s \in DOMAIN users \/ targ[p].pw # 0
             /\ snap' = [snap EXCEPT ![p] =
                   IF targ[p].s \in DOMAIN users THEN users[targ[p].s].pw ELSE 0]
             /\ tpc' = [tpc EXCEPT ![p] = "set"]
             /\ UNCHANGED <<kind, targ, tops>>
    <3>1. tpc[p] = "get" /\ UNCHANGED <<users, rules, gone, tfaults>>
      BY <1>6 DEF Tables!PutGet, Tables!dbVars
    <3>2. targ[p].s \in DOMAIN users =>
            users[targ[p].s].pw \in Nat /\ users[targ[p].s].pw # 0
      BY DEF TableTyped, Tables!User, UsersHavePasswords, Tables!UsersHavePasswords,
             Tables!NoPassword
    <3>3. TableTyped'
      BY <2>2, <3>1, <3>2 DEF TableTyped
    <3>4. RuleIds'
      BY <2>2, <3>1 DEF RuleIds, RuleTyped, Tables!RuleId
    <3>5. Prepared'
      BY <2>2, <3>1, <3>2
      DEF TableTyped, Prepared, Tables!StoredPassword, Tables!NoPassword
    <3>6. UsersHavePasswords' /\ NoInheritedRules'
      BY <2>2, <3>1
      DEF TableTyped, UsersHavePasswords, Tables!UsersHavePasswords,
          NoInheritedRules, Tables!NoInheritedRules
    <3> QED
      BY <3>3, <3>4, <3>5, <3>6
  <2> QED
    BY <1>6, <2>1, <2>2 DEF Tables!PutGet, Tables!NoPassword
<1>7. ASSUME NEW p \in Procs, Tables!PutSet(p) PROVE TableInv'
  <2>1. tpc[p] = "set" /\ Tables!Return(p) /\ UNCHANGED <<kind, rules, gone, tfaults>>
    BY <1>7 DEF Tables!PutSet, Tables!Return
  <2>2. /\ targ[p].s \in TableSubjects /\ targ[p].allow \in BOOLEAN
        /\ Tables!StoredPassword(p) \in Nat /\ Tables!StoredPassword(p) # 0
    BY <2>1 DEF TableTyped, Tables!Arg, Prepared, Tables!StoredPassword
  <2>3. [allow |-> targ[p].allow, pw |-> Tables!StoredPassword(p)] \in Tables!User
    BY <2>2 DEF Tables!User
  <2>4. users' = [x \in DOMAIN users \cup {targ[p].s} |->
                    IF x = targ[p].s
                      THEN [allow |-> targ[p].allow, pw |-> Tables!StoredPassword(p)]
                      ELSE users[x]]
    BY <1>7 DEF Tables!PutSet, Tables!UpsertUser
  <2>5. DOMAIN users' \subseteq TableSubjects /\ users' \in [DOMAIN users' -> Tables!User]
    BY <2>2, <2>3, <2>4 DEF TableTyped
  <2>6. TableTyped' /\ Prepared' /\ \A q \in Procs : q # p =>
          tpc'[q] = tpc[q] /\ targ'[q] = targ[q]
    BY <2>1, <2>5, TableReturn DEF TableTyped
  <2>7. RuleIds'
    BY <2>1 DEF RuleIds, RuleTyped, Tables!RuleId
  <2>8. UsersHavePasswords'
    BY <2>2, <2>4 DEF UsersHavePasswords, Tables!UsersHavePasswords, Tables!NoPassword
  <2>9. NoInheritedRules'
    BY <2>1, <2>6 DEF NoInheritedRules, Tables!NoInheritedRules
  <2> QED
    BY <2>6, <2>7, <2>8, <2>9
<1>8. ASSUME NEW p \in Procs, Tables!DeleteUser(p) PROVE TableInv'
  <2>0. tpc[p] = "delete" /\ UNCHANGED <<rules, tfaults>>
    BY <1>8 DEF Tables!DeleteUser
  <2>1. CASE Tables!Return(p) /\ UNCHANGED <<users, gone>>
    <3>1. UNCHANGED kind
      BY <2>1 DEF Tables!Return
    <3>2. TableTyped' /\ Prepared' /\ \A q \in Procs : q # p =>
            tpc'[q] = tpc[q] /\ targ'[q] = targ[q]
      BY <2>0, <2>1, TableReturn DEF TableTyped
    <3>3. RuleIds'
      BY <2>0, <2>1, <3>1 DEF RuleIds, RuleTyped, Tables!RuleId
    <3>4. UsersHavePasswords' /\ NoInheritedRules'
      BY <2>0, <2>1, <3>2 DEF UsersHavePasswords, Tables!UsersHavePasswords,
                              NoInheritedRules, Tables!NoInheritedRules
    <3> QED
      BY <3>2, <3>3, <3>4
  <2>2. CASE /\ users' = [x \in DOMAIN users \ {targ[p].s} |-> users[x]]
             /\ gone' = [gone EXCEPT ![targ[p].s] = @ + 1]
             /\ tpc' = [tpc EXCEPT ![p] = "cascade"]
             /\ UNCHANGED <<kind, targ, snap, tops>>
    <3>1. targ[p].s \in TableSubjects
      BY DEF TableTyped, Tables!Arg
    <3>2. TableTyped'
      BY <2>0, <2>2, <3>1 DEF TableTyped
    <3>3. RuleIds'
      <4>1. ASSUME NEW r \in rules PROVE r.gen \in 0..gone'[r.s]
        <5>1. r.s \in TableSubjects /\ r.gen \in 0..gone[r.s] /\ gone[r.s] \in Nat
          BY DEF RuleIds, RuleTyped, TableTyped
        <5>2. gone'[r.s] \in {gone[r.s], gone[r.s] + 1}
          BY <2>2, <5>1 DEF TableTyped
        <5> QED
          BY <5>1, <5>2
      <4> QED
        BY <2>0, <2>2, <4>1 DEF RuleIds, RuleTyped, Tables!RuleId
    <3>4. Prepared'
      BY <2>2 DEF TableTyped, Prepared, Tables!StoredPassword
    <3>5. UsersHavePasswords'
      BY <2>2 DEF UsersHavePasswords, Tables!UsersHavePasswords
    <3>6. NoInheritedRules'
      <4> SUFFICES ASSUME NEW r \in rules, r.gen < gone'[r.s], ~(tfaults > 0)
                   PROVE  \E q \in Procs : tpc'[q] = "cascade" /\ targ'[q].s = r.s
        BY <2>0 DEF NoInheritedRules, Tables!NoInheritedRules
      <4>1. CASE r.s = targ[p].s
        BY <2>2, <4>1 DEF TableTyped
      <4>2. CASE r.s # targ[p].s
        <5>1. gone'[r.s] = gone[r.s]
          BY <2>2, <4>2 DEF TableTyped, RuleIds, RuleTyped
        <5>2. PICK q \in Procs : tpc[q] = "cascade" /\ targ[q].s = r.s
          BY <5>1 DEF NoInheritedRules, Tables!NoInheritedRules
        <5> QED
          BY <2>0, <2>2, <5>2 DEF TableTyped
      <4> QED
        BY <4>1, <4>2
    <3> QED
      BY <3>2, <3>3, <3>4, <3>5, <3>6
  <2> QED
    BY <1>8, <2>1, <2>2 DEF Tables!DeleteUser
<1>9. ASSUME NEW p \in Procs, Tables!Cascade(p) PROVE TableInv'
  <2>1. /\ Tables!Return(p) /\ UNCHANGED <<kind, users, gone, tfaults>>
        /\ rules' = {r \in rules : r.s # targ[p].s}
    BY <1>9 DEF Tables!Cascade, Tables!Return
  <2>2. TableTyped' /\ Prepared' /\ \A q \in Procs : q # p =>
          tpc'[q] = tpc[q] /\ targ'[q] = targ[q]
    BY <2>1, TableReturn DEF TableTyped
  <2>3. RuleIds'
    BY <2>1 DEF RuleIds, RuleTyped, Tables!RuleId
  <2>4. UsersHavePasswords'
    BY <2>1 DEF UsersHavePasswords, Tables!UsersHavePasswords
  <2>5. NoInheritedRules'
    BY <2>1, <2>2 DEF NoInheritedRules, Tables!NoInheritedRules
  <2> QED
    BY <2>2, <2>3, <2>4, <2>5
<1>10. ASSUME NEW p \in Procs, Tables!PutRule(p) PROVE TableInv'
  <2> DEFINE id == Tables!RuleId(targ[p].pw, targ[p].s, targ[p].t)
             new == [id |-> id, n |-> targ[p].pw, s |-> targ[p].s, t |-> targ[p].t,
                     gen |-> gone[targ[p].s]]
  <2>1. /\ tpc[p] = "rule"
        /\ Tables!Return(p) /\ UNCHANGED <<kind, users, gone, tfaults>>
        /\ rules' = {r \in rules : r.id # id} \cup {new}
    BY <1>10 DEF Tables!PutRule, Tables!Return, Tables!Insert
  <2>2. TableTyped' /\ Prepared' /\ \A q \in Procs : q # p =>
          tpc'[q] = tpc[q] /\ targ'[q] = targ[q]
    BY <2>1, TableReturn DEF TableTyped
  <2>3. /\ targ[p].s \in TableSubjects /\ targ[p].t \in TableTopics
        /\ targ[p].pw \in 1..MaxTableOps /\ gone[targ[p].s] \in Nat
    BY <2>1 DEF TableTyped, Tables!Arg, Prepared
  <2>4. RuleIds'
    <3>1. ASSUME NEW r \in rules' PROVE RuleTyped(r)'
      <4>1. CASE r \in rules
        BY <2>1, <4>1 DEF RuleIds, RuleTyped, Tables!RuleId
      <4>2. CASE r = new
        <5>1. new.gen \in 0..gone[new.s]
          BY <2>3
        <5>2. RuleTyped(new)
          BY <2>3, <5>1 DEF RuleTyped
        <5> QED
          BY <2>1, <4>2, <5>2 DEF RuleTyped, Tables!RuleId
      <4> QED
        BY <2>1, <4>1, <4>2
    <3>2. \A q, r \in rules' : q.id = r.id => q = r
      BY <2>1 DEF RuleIds
    <3> QED
      BY <3>1, <3>2 DEF RuleIds
  <2>5. UsersHavePasswords'
    BY <2>1 DEF UsersHavePasswords, Tables!UsersHavePasswords
  <2>6. NoInheritedRules'
    <3>1. ~(new.gen < gone[new.s])
      BY <2>3
    <3> QED
      BY <2>1, <2>2, <3>1 DEF NoInheritedRules, Tables!NoInheritedRules
  <2> QED
    BY <2>2, <2>4, <2>5, <2>6
<1>11. ASSUME NEW p \in Procs, Tables!DeleteRule(p) PROVE TableInv'
  <2>1. /\ tpc[p] = "unrule" /\ rules' \subseteq rules
        /\ Tables!Return(p) /\ UNCHANGED <<kind, users, gone, tfaults>>
    BY <1>11 DEF Tables!DeleteRule, Tables!Return
  <2>2. TableTyped' /\ Prepared' /\ \A q \in Procs : q # p =>
          tpc'[q] = tpc[q] /\ targ'[q] = targ[q]
    BY <2>1, TableReturn DEF TableTyped
  <2>3. RuleIds'
    BY <2>1 DEF RuleIds, RuleTyped, Tables!RuleId
  <2>4. UsersHavePasswords' /\ NoInheritedRules'
    BY <2>1, <2>2 DEF UsersHavePasswords, Tables!UsersHavePasswords,
                      NoInheritedRules, Tables!NoInheritedRules
  <2> QED
    BY <2>2, <2>3, <2>4
<1>12. ASSUME NEW p \in Procs, Tables!Fails(p) PROVE TableInv'
  <2>1. /\ Tables!Return(p) /\ UNCHANGED <<kind, users, rules, gone>>
        /\ tfaults' \in 0..MaxFaults /\ tfaults' > 0
    BY <1>12, LedgerAssumption
    DEF Tables!Fails, Tables!Return, Tables!dbVars, TableTyped
  <2>2. TableTyped' /\ Prepared'
    BY <2>1, TableReturn DEF TableTyped
  <2>3. RuleIds'
    BY <2>1 DEF RuleIds, RuleTyped, Tables!RuleId
  <2>4. UsersHavePasswords' /\ NoInheritedRules'
    BY <2>1 DEF UsersHavePasswords, Tables!UsersHavePasswords,
                NoInheritedRules, Tables!NoInheritedRules
  <2> QED
    BY <2>2, <2>3, <2>4
<1>13. CASE UNCHANGED <<kind, tableVars>>
  BY <1>13 DEF tableVars, TableTyped, RuleIds, RuleTyped, Tables!RuleId, Prepared,
     Tables!StoredPassword, UsersHavePasswords, Tables!UsersHavePasswords,
     NoInheritedRules, Tables!NoInheritedRules
<1> QED
  BY <1>1, <1>2, <1>3, <1>4, <1>5, <1>6, <1>7, <1>8, <1>9, <1>10, <1>11, <1>12,
     <1>13 DEF Tables!Next, Tables!Handler, Tables!BackendStep, Tables!ListedRules

(* Throughout the statements of concurrent requests every rule keeps an id *)
(* of its own and every user a password.                                   *)
THEOREM TablesKept == BackendSpec => []TableInv
<1>1. [BackendNext]_<<kind, vars, tableVars>> => [Tables!Next]_<<kind, tableVars>>
  BY DEF BackendNext
<1> QED
  BY <1>1, TablesInitially, TableStep, PTL DEF BackendSpec

(* No interleaving of statements stores a user without a password.         *)
THEOREM TableUsersHavePasswords == BackendSpec => []UsersHavePasswords
BY TablesKept, PTL DEF TableInv

(* Without a failing request, and once the cascades are through, nobody    *)
(* inherits the rules of a deleted user.                                   *)
THEOREM TableRulesNotInherited == BackendSpec => []NoInheritedRules
BY TablesKept, PTL DEF TableInv

(* The ledger and the tables are type correct; in it, the ledger on the    *)
(* disk is never partial and temporary files are removed.                  *)
THEOREM BackendsTyped == BackendSpec => []BackendTypeOK
<1> DEFINE KindOK == kind \in {"none", "error", "file", "redis", "sql"}
<1>1. BackendInit => KindOK
  BY DEF BackendInit, Kind, Opened
<1>2. [BackendNext]_<<kind, vars, tableVars>> => UNCHANGED kind
  BY DEF BackendNext, Tables!Next, Tables!Handler, Tables!BackendStep,
     Tables!AuthCreate, Tables!AuthToggle, Tables!AuthDelete, Tables!ACLCreate,
     Tables!ACLDelete, Tables!Request, Tables!PutGet, Tables!PutSet,
     Tables!DeleteUser, Tables!Cascade, Tables!PutRule, Tables!DeleteRule,
     Tables!Fails, Tables!Return
<1>3. KindOK /\ [BackendNext]_<<kind, vars, tableVars>> => KindOK'
  BY <1>2
<1>4. BackendSpec => []KindOK
  BY <1>1, <1>3, PTL DEF BackendSpec
<1>5. KindOK /\ LedgerInv /\ TableInv => BackendTypeOK
  BY DEF LedgerInv, TableInv, TableTyped, RuleIds, RuleTyped, BackendTypeOK,
     Tables!TypeOK
<1> QED
  BY <1>4, <1>5, LedgerLocked, TablesKept, PTL
============================================================================
