----------------------------- MODULE LoginProofs ---------------------------
(***************************************************************************)
(* Proofs about Login.tla, for any users, any number of concurrent login   *)
(* requests, and any lockout, session and expiry settings.                 *)
(***************************************************************************)
EXTENDS Login, FiniteSetTheorems, SequenceTheorems, WellFoundedInduction, TLAPS

Answers == {"none", "login", "must_change", "expired", "form", "served"}

(* The types of all that the lock, the requests and RequireAuth go by.     *)
LoginTyped ==
    /\ now \in 0..MaxTime
    /\ until \in [Users -> Nat]
    /\ password \in [Users -> Nat]
    /\ mustChange \in [Users -> BOOLEAN]
    /\ pc \in [Requests -> {"idle", "auth", "record", "reset"}]
    /\ who \in [Requests -> Users]
    /\ cookies \subseteq Cookie
    /\ answer \in [Users -> Answers]
    /\ late \in [Users -> Nat]
    /\ chosen \subseteq Users

(* No lock reaches further than Duration from now.                         *)
LockShort == \A u \in Users : until[u] <= now + Duration

(* MustChange is cleared only by a change of the password, to another one  *)
(* or to the same.                                                         *)
Replaced ==
    \A u \in Users :
        /\ ~mustChange[u] => password[u] # 1 \/ u \in chosen
        /\ answer[u] = "served" => password[u] # 1 \/ u \in chosen

(* The requests for a user that are past the lockout check and have not    *)
(* had their password checked.                                             *)
Checking(u) == {r \in Requests : who[r] = u /\ pc[r] = "auth"}

(* During a lock, the guesses made and those still to come.                *)
GuessesLeft ==
    \A u \in Users :
        /\ late[u] <= Cardinality(Requests) - 1
        /\ IsLocked(u) =>
             late[u] + Cardinality(Checking(u)) <= Cardinality(Requests) - 1

LoginInv == LoginTyped /\ LockShort /\ Replaced /\ GuessesLeft

(* Only requests are counted.                                              *)
LEMMA CheckingFinite ==
    ASSUME NEW u
    PROVE  /\ IsFiniteSet(Checking(u)) /\ Cardinality(Checking(u)) \in Nat
           /\ Cardinality(Requests) \in Nat /\ Cardinality(Requests) >= 1
<1>1. IsFiniteSet(Checking(u)) /\ Checking(u) \subseteq Requests
  BY ConfigAssumption, FS_Subset DEF Checking
<1>2. Cardinality(Requests) # 0
  BY ConfigAssumption, FS_EmptySet
<1> QED
  BY <1>1, <1>2, ConfigAssumption, FS_CardinalityType

LEMMA LoginInitially == Init => LoginInv
<1> SUFFICES ASSUME Init PROVE LoginInv
  OBVIOUS
<1>1. (CHOOSE u \in Users : TRUE) \in Users
  <2>1. \E u \in Users : TRUE
    BY ConfigAssumption
  <2> QED
    BY <2>1, Zenon
<1>2. LoginTyped
  <2>1. now \in 0..MaxTime /\ cookies \subseteq Cookie /\ chosen \subseteq Users
    BY ConfigAssumption DEF Init
  <2>2. /\ until \in [Users -> Nat] /\ password \in [Users -> Nat]
        /\ late \in [Users -> Nat]
    BY DEF Init
  <2>5. mustChange \in [Users -> BOOLEAN]
    BY Zenon DEF Init
  <2>6. answer \in [Users -> Answers]
    BY DEF Init, Answers
  <2>3. pc \in [Requests -> {"idle", "auth", "record", "reset"}]
    BY DEF Init
  <2>4. who \in [Requests -> Users]
    BY <1>1 DEF Init
  <2> QED
    BY <2>1, <2>2, <2>3, <2>4, <2>5, <2>6 DEF LoginTyped
<1>3. LockShort /\ Replaced
  BY ConfigAssumption DEF Init, LockShort, Replaced
<1>4. GuessesLeft
  BY CheckingFinite DEF Init, GuessesLeft, IsLocked
<1> QED
  BY <1>2, <1>3, <1>4 DEF LoginInv

(* Steps that leave the lock, the requests and the clock alone.            *)
LEMMA GuessesUntouched ==
    ASSUME GuessesLeft, UNCHANGED <<now, until, late, pc, who>>
    PROVE  GuessesLeft'
BY DEF GuessesLeft, IsLocked, Checking

(* A request that ends or goes on to its record or its reset leaves fewer  *)
(* guesses to come, for its own user and for nobody else.                  *)
LEMMA CheckingShrinks ==
    ASSUME LoginTyped, NEW r \in Requests, NEW next \in {"idle", "record", "reset"},
           pc' = [pc EXCEPT ![r] = next], UNCHANGED who, NEW u \in Users
    PROVE  /\ Checking(u)' = Checking(u) \ {r}
           /\ Cardinality(Checking(u)') <= Cardinality(Checking(u))
           /\ r \in Checking(u) =>
                Cardinality(Checking(u)') = Cardinality(Checking(u)) - 1
           /\ Cardinality(Checking(u)') \in Nat
<1>1. Checking(u)' = Checking(u) \ {r}
  BY DEF LoginTyped, Checking
<1>2. IsFiniteSet(Checking(u)) /\ Cardinality(Checking(u)) \in Nat
  BY CheckingFinite
<1>3. CASE r \in Checking(u)
  <2>1. Cardinality(Checking(u) \ {r}) = Cardinality(Checking(u)) - 1
    BY <1>2, <1>3, FS_RemoveElement
  <2>2. IsFiniteSet(Checking(u) \ {r})
    BY <1>2, FS_RemoveElement
  <2>3. Cardinality(Checking(u) \ {r}) \in Nat
    BY <2>2, FS_CardinalityType
  <2> QED
    BY <1>1, <1>2, <2>1, <2>3
<1>4. CASE r \notin Checking(u)
  <2>1. Checking(u)' = Checking(u)
    BY <1>1, <1>4
  <2> QED
    BY <1>1, <1>2, <1>4, <2>1
<1> QED
  BY <1>3, <1>4

(* What RequireAuth serves, it serves to a user who has submitted the      *)
(* password page since his account was made.                               *)
LEMMA ServedIsReplaced ==
    ASSUME NEW c, NEW page, RequireAuth(c, page) = "served"
    PROVE  ~mustChange[c.user]
BY DEF RequireAuth

(* Every handler and the clock keep the invariant.                         *)
LEMMA LoginStep == LoginInv /\ [Next]_vars => LoginInv'
<1> SUFFICES ASSUME LoginInv, [Next]_vars PROVE LoginInv'
  OBVIOUS
<1> USE DEF LoginInv, lockVars, storeVars, reqVars
<1>1. CASE Tick
  <2>1. now' = now + 1 /\ now' \in 0..MaxTime
        /\ UNCHANGED <<until, password, mustChange, pc, who, cookies, answer, late,
                     chosen>>
    BY <1>1, ConfigAssumption DEF Tick, LoginTyped
  <2>2. LoginTyped' /\ Replaced'
    BY <2>1 DEF LoginTyped, Replaced
  <2>3. LockShort'
    BY <2>1, ConfigAssumption DEF LoginTyped, LockShort
  <2>4. \A u \in Users : IsLocked(u)' => IsLocked(u)
    BY <2>1 DEF LoginTyped, IsLocked
  <2>5. GuessesLeft'
    BY <2>1, <2>4 DEF GuessesLeft, Checking
  <2> QED
    BY <2>2, <2>3, <2>5
<1>2. ASSUME NEW r \in Requests, NEW u \in Users, NEW pw, LoginCheck(r, u, pw)
      PROVE LoginInv'
  <2>1. /\ pc' = [pc EXCEPT ![r] = "auth"] /\ who' = [who EXCEPT ![r] = u]
        /\ ~IsLocked(u) /\ pc[r] = "idle"
        /\ UNCHANGED <<now, until, password, mustChange, cookies, answer, late, chosen>>
    BY <1>2 DEF LoginCheck
  <2>2. LoginTyped' /\ Replaced' /\ LockShort'
    BY <2>1 DEF LoginTyped, Replaced, LockShort
  <2>3. \A v \in Users : v # u => Checking(v)' = Checking(v)
    BY <2>1 DEF LoginTyped, Checking
  <2>4. GuessesLeft'
    BY <2>1, <2>3 DEF GuessesLeft, IsLocked
  <2> QED
    BY <2>2, <2>4
<1>3. ASSUME NEW r \in Requests, Authenticate(r) PROVE LoginInv'
  <2>1. PICK next \in {"record", "reset"} : pc' = [pc EXCEPT ![r] = next]
    BY <1>3 DEF Authenticate
  <2>2. /\ pc[r] = "auth"
        /\ late' = [late EXCEPT ![who[r]] = IF IsLocked(who[r]) THEN @ + 1 ELSE @]
        /\ UNCHANGED <<now, until, password, mustChange, who, cookies, answer, chosen>>
    BY <1>3 DEF Authenticate
  <2>3. who[r] \in Users /\ r \in Checking(who[r])
    BY <2>2 DEF LoginTyped, Checking
  <2>4. LoginTyped' /\ Replaced' /\ LockShort'
    BY <2>1, <2>2, <2>3 DEF LoginTyped, Replaced, LockShort
  <2>5. ASSUME NEW u \in Users
        PROVE  /\ late'[u] <= Cardinality(Requests) - 1
               /\ IsLocked(u)' =>
                    late'[u] + Cardinality(Checking(u)') <= Cardinality(Requests) - 1
    <3>1. /\ IsLocked(u)' = IsLocked(u)
          /\ late[u] \in Nat /\ late[u] <= Cardinality(Requests) - 1
          /\ IsLocked(u) => late[u] + Cardinality(Checking(u)) <= Cardinality(Requests) - 1
          /\ Cardinality(Requests) \in Nat /\ Cardinality(Checking(u)) \in Nat
      BY <2>2, CheckingFinite DEF IsLocked, LoginTyped, GuessesLeft
    <3>2. /\ Cardinality(Checking(u)') <= Cardinality(Checking(u))
          /\ r \in Checking(u) =>
                Cardinality(Checking(u)') = Cardinality(Checking(u)) - 1
          /\ Cardinality(Checking(u)') \in Nat
      BY <2>1, <2>2, CheckingShrinks
    <3>3. CASE u = who[r] /\ IsLocked(u)
      <4>1. late'[u] = late[u] + 1
        BY <2>2, <3>3 DEF LoginTyped
      <4> QED
        BY <2>3, <3>1, <3>2, <3>3, <4>1
    <3>4. CASE ~(u = who[r] /\ IsLocked(u))
      <4>1. late'[u] = late[u]
        BY <2>2, <3>4 DEF LoginTyped
      <4> QED
        BY <3>1, <3>2, <4>1
    <3> QED
      BY <3>3, <3>4
  <2> QED
    BY <2>4, <2>5 DEF GuessesLeft
<1>4. ASSUME NEW r \in Requests, AuthenticateError(r) PROVE LoginInv'
  <2>1. /\ pc' = [pc EXCEPT ![r] = "record"]
        /\ UNCHANGED <<now, until, password, mustChange, who, cookies, answer, late,
                     chosen>>
    BY <1>4 DEF AuthenticateError
  <2>2. LoginTyped' /\ Replaced' /\ LockShort'
    BY <2>1 DEF LoginTyped, Replaced, LockShort
  <2>3. ASSUME NEW u \in Users, IsLocked(u)'
        PROVE late[u] + Cardinality(Checking(u)') <= Cardinality(Requests) - 1
    <3>1. /\ Cardinality(Checking(u)') <= Cardinality(Checking(u))
          /\ Cardinality(Checking(u)') \in Nat
      BY <2>1, CheckingShrinks
    <3>2. /\ late[u] + Cardinality(Checking(u)) <= Cardinality(Requests) - 1
          /\ late[u] \in Nat
          /\ Cardinality(Requests) \in Nat /\ Cardinality(Checking(u)) \in Nat
      BY <2>1, <2>3, CheckingFinite DEF LoginTyped, GuessesLeft, IsLocked
    <3> QED
      BY <3>1, <3>2
  <2> QED
    BY <2>1, <2>2, <2>3 DEF GuessesLeft
<1>5. ASSUME NEW r \in Requests, LoginFailed(r) PROVE LoginInv'
  <2> DEFINE v == who[r]
  <2>0. v \in Users /\ pc[r] = "record"
    BY <1>5 DEF LoginFailed, LoginTyped
  <2>1. PICK locks \in BOOLEAN :
          /\ until' = [until EXCEPT ![v] = IF locks THEN now + Duration ELSE @]
          /\ late' = [late EXCEPT ![v] = IF locks /\ ~IsLocked(v) THEN 0 ELSE @]
    BY <1>5 DEF LoginFailed, Record, RecordEffect
  <2>2. /\ pc' = [pc EXCEPT ![r] = "idle"]
        /\ UNCHANGED <<now, password, mustChange, who, cookies, answer, chosen>>
    BY <1>5 DEF LoginFailed
  <2>3. LoginTyped'
    BY <2>0, <2>1, <2>2, ConfigAssumption DEF LoginTyped
  <2>4. Replaced' /\ LockShort'
    BY <2>0, <2>1, <2>2, ConfigAssumption DEF LoginTyped, Replaced, LockShort
  <2>5. ASSUME NEW u \in Users
        PROVE  /\ late'[u] <= Cardinality(Requests) - 1
               /\ IsLocked(u)' =>
                    late'[u] + Cardinality(Checking(u)') <= Cardinality(Requests) - 1
    <3>1. /\ Cardinality(Requests) \in Nat /\ Cardinality(Requests) >= 1
          /\ Cardinality(Checking(u)) \in Nat
          /\ late[u] \in Nat /\ late[u] <= Cardinality(Requests) - 1
          /\ IsLocked(u) =>
               late[u] + Cardinality(Checking(u)) <= Cardinality(Requests) - 1
      BY CheckingFinite DEF LoginTyped, GuessesLeft
    <3>2. /\ Cardinality(Checking(u)') <= Cardinality(Checking(u))
          /\ Cardinality(Checking(u)') \in Nat
      BY <2>2, CheckingShrinks
    <3>3. CASE u = v /\ locks /\ ~IsLocked(u)
      <4>1. late'[u] = 0
        BY <2>0, <2>1, <3>3 DEF LoginTyped
      <4>2. Checking(u)' \subseteq Requests \ {r}
        BY <2>0, <2>2 DEF LoginTyped, Checking
      <4>3. Cardinality(Requests \ {r}) = Cardinality(Requests) - 1
            /\ IsFiniteSet(Requests \ {r})
        BY ConfigAssumption, FS_RemoveElement
      <4>4. Cardinality(Checking(u)') <= Cardinality(Requests \ {r})
        BY <4>2, <4>3, FS_Subset
      <4> QED
        BY <3>1, <3>2, <4>1, <4>3, <4>4
    <3>4. CASE u = v /\ (~locks \/ IsLocked(u))
      <4>1. late'[u] = late[u] /\ (IsLocked(u)' => IsLocked(u))
        BY <2>0, <2>1, <2>2, <3>4 DEF LoginTyped, IsLocked
      <4> QED
        BY <3>1, <3>2, <4>1
    <3>5. CASE u # v
      <4>1. late'[u] = late[u] /\ (IsLocked(u)' => IsLocked(u))
        BY <2>0, <2>1, <2>2, <3>5 DEF LoginTyped, IsLocked
      <4> QED
        BY <3>1, <3>2, <4>1
    <3> QED
      BY <3>3, <3>4, <3>5
  <2> QED
    BY <2>3, <2>4, <2>5 DEF GuessesLeft
<1>6. ASSUME NEW r \in Requests, LoginSucceeded(r) PROVE LoginInv'
  <2>0. who[r] \in Users
    BY DEF LoginTyped
  <2>1. /\ until' = [until EXCEPT ![who[r]] = 0]
        /\ cookies' = cookies \cup {[user |-> who[r], exp |-> now + SessionTTL]}
        /\ pc' = [pc EXCEPT ![r] = "idle"]
        /\ UNCHANGED <<now, password, mustChange, who, answer, late, chosen>>
    BY <1>6 DEF LoginSucceeded
  <2>2. [user |-> who[r], exp |-> now + SessionTTL] \in Cookie
    BY <2>0, ConfigAssumption DEF LoginTyped, Cookie
  <2>3. LoginTyped'
    BY <2>0, <2>1, <2>2 DEF LoginTyped
  <2>4. Replaced' /\ LockShort'
    BY <2>0, <2>1, ConfigAssumption DEF LoginTyped, Replaced, LockShort
  <2>5. ASSUME NEW u \in Users, IsLocked(u)'
        PROVE late[u] + Cardinality(Checking(u)') <= Cardinality(Requests) - 1
    <3>1. IsLocked(u)
      BY <2>0, <2>1, <2>5 DEF LoginTyped, IsLocked
    <3>2. /\ Cardinality(Checking(u)') <= Cardinality(Checking(u))
          /\ Cardinality(Checking(u)') \in Nat
      BY <2>1, CheckingShrinks
    <3>3. /\ late[u] + Cardinality(Checking(u)) <= Cardinality(Requests) - 1
          /\ late[u] \in Nat
          /\ Cardinality(Requests) \in Nat /\ Cardinality(Checking(u)) \in Nat
      BY <3>1, CheckingFinite DEF LoginTyped, GuessesLeft
    <3> QED
      BY <3>2, <3>3
  <2> QED
    BY <2>1, <2>3, <2>4, <2>5 DEF GuessesLeft
<1>7. ASSUME NEW c \in cookies, NEW page \in BOOLEAN, Visit(c, page) PROVE LoginInv'
  <2>1. /\ c.user \in Users
        /\ answer' = [answer EXCEPT ![c.user] = RequireAuth(c, page)]
        /\ UNCHANGED <<now, until, password, mustChange, pc, who, cookies, late, chosen>>
    BY <1>7 DEF Visit, LoginTyped, Cookie
  <2>2. RequireAuth(c, page) \in Answers
    BY DEF RequireAuth, Answers
  <2>3. LoginTyped' /\ LockShort'
    BY <2>1, <2>2 DEF LoginTyped, LockShort
  <2>4. Replaced'
    BY <2>1, ServedIsReplaced DEF LoginTyped, Replaced
  <2> QED
    BY <2>1, <2>3, <2>4, GuessesUntouched
<1>8. ASSUME NEW c \in cookies, VisitError(c) PROVE LoginInv'
  <2>1. /\ c.user \in Users
        /\ answer' = [answer EXCEPT ![c.user] = "login"]
        /\ UNCHANGED <<now, until, password, mustChange, pc, who, cookies, late, chosen>>
    BY <1>8 DEF VisitError, LoginTyped, Cookie
  <2>2. LoginTyped' /\ LockShort'
    BY <2>1 DEF LoginTyped, LockShort, Answers
  <2>3. Replaced'
    BY <2>1 DEF LoginTyped, Replaced
  <2> QED
    BY <2>1, <2>2, <2>3, GuessesUntouched
<1>9. ASSUME NEW c \in cookies, NEW next \in 1..MaxPassword, ChangePassword(c, next)
      PROVE  LoginInv'
  <2>1. /\ c.user \in Users
        /\ password' = [password EXCEPT ![c.user] = next]
        /\ mustChange' = [mustChange EXCEPT ![c.user] = FALSE]
        /\ answer' = [answer EXCEPT ![c.user] = "form"]
        /\ chosen' = IF next = 1 THEN chosen \cup {c.user} ELSE chosen \ {c.user}
        /\ UNCHANGED <<now, until, pc, who, cookies, late>>
    BY <1>9 DEF ChangePassword, LoginTyped, Cookie
  <2>2. mustChange' \in [Users -> BOOLEAN]
    BY <2>1, Zenon DEF LoginTyped
  <2>3. /\ password' \in [Users -> Nat] /\ answer' \in [Users -> Answers]
        /\ password'[c.user] = next /\ answer'[c.user] = "form"
        /\ chosen' \subseteq Users /\ (next = 1 => c.user \in chosen')
    BY <2>1 DEF LoginTyped, Answers
  <2>4. LoginTyped' /\ LockShort'
    BY <2>1, <2>2, <2>3 DEF LoginTyped, LockShort
  <2>5. ASSUME NEW u \in Users, u # c.user
        PROVE  /\ ~mustChange'[u] => password'[u] # 1 \/ u \in chosen'
               /\ answer'[u] = "served" => password'[u] # 1 \/ u \in chosen'
    <3>1. /\ mustChange'[u] = mustChange[u] /\ password'[u] = password[u]
          /\ answer'[u] = answer[u] /\ (u \in chosen' <=> u \in chosen)
      BY <2>1, <2>5 DEF LoginTyped
    <3> QED
      BY <3>1 DEF Replaced
  <2>6. Replaced'
    BY <2>3, <2>5 DEF Replaced
  <2> QED
    BY <2>1, <2>4, <2>6, GuessesUntouched
<1>10. ASSUME NEW c \in cookies, Logout(c) PROVE LoginInv'
  <2>1. /\ cookies' = cookies \ {c}
        /\ UNCHANGED <<now, until, password, mustChange, pc, who, answer, late, chosen>>
    BY <1>10 DEF Logout
  <2>2. LoginTyped' /\ LockShort' /\ Replaced'
    BY <2>1 DEF LoginTyped, LockShort, Replaced
  <2> QED
    BY <2>1, <2>2, GuessesUntouched
<1>11. CASE UNCHANGED vars
  <2>1. UNCHANGED <<now, until, password, mustChange, pc, who, cookies, answer, late,
                     chosen>>
    BY <1>11 DEF vars
  <2>2. LoginTyped' /\ LockShort' /\ Replaced'
    BY <2>1 DEF LoginTyped, LockShort, Replaced
  <2> QED
    BY <2>1, <2>2, GuessesUntouched
<1> QED
  BY <1>1, <1>2, <1>3, <1>4, <1>5, <1>6, <1>7, <1>8, <1>9, <1>10, <1>11 DEF Next

(* The types, and how far locks, late guesses and first passwords go.      *)
THEOREM LoginKept == Spec => []LoginInv
BY LoginInitially, LoginStep, PTL DEF Spec

(* The password that Seed prints or CreateUser is given opens only the     *)
(* password page, until its owner gives it there as his new one.           *)
THEOREM FirstPasswordOnlyByChoice == Spec => []InitialPasswordOnlyByChoice
<1>1. LoginInv => InitialPasswordOnlyByChoice
  BY DEF LoginInv, Replaced, InitialPasswordOnlyByChoice
<1> QED
  BY <1>1, LoginKept, PTL

(* However LoginPost interleaves with itself, fewer passwords are checked  *)
(* during a lock than there can be requests at a time.                     *)
THEOREM FewLateGuesses == Spec => []LateGuessesBounded
<1>1. LoginInv => LateGuessesBounded
  BY DEF LoginInv, GuessesLeft, LateGuessesBounded
<1> QED
  BY <1>1, LoginKept, PTL

(* A lock ends early only through a login with the right password.         *)
THEOREM LocksHold == Spec => LockHolds
<1> DEFINE Holds == \A u \in Users :
        IsLocked(u) /\ now' < until[u] /\ until'[u] < until[u] =>
            \E r \in Requests : who[r] = u /\ pc[r] = "reset"
<1>1. LoginInv /\ [Next]_vars => [Holds]_vars
  <2> SUFFICES ASSUME LoginInv, Next, NEW u \in Users, until'[u] < until[u]
               PROVE  \E r \in Requests : who[r] = u /\ pc[r] = "reset"
    OBVIOUS
  <2> USE DEF LoginInv, lockVars, storeVars, reqVars
  <2>1. ASSUME NEW r \in Requests, LoginSucceeded(r)
        PROVE  \E q \in Requests : who[q] = u /\ pc[q] = "reset"
    BY <2>1 DEF LoginSucceeded, LoginTyped
  <2>2. ASSUME NEW r \in Requests, LoginFailed(r) PROVE FALSE
    <3>1. \/ until'[u] = until[u]
          \/ until'[u] = now + Duration
      BY <2>2 DEF LoginFailed, Record, RecordEffect, LoginTyped
    <3> QED
      BY <3>1, ConfigAssumption DEF LoginTyped, LockShort
  <2>3. CASE UNCHANGED until
    BY <2>3 DEF LoginTyped
  <2> QED
    BY <2>1, <2>2, <2>3 DEF Next, Tick, LoginCheck, Authenticate,
       AuthenticateError, Visit, VisitError, ChangePassword, Logout
<1> QED
  BY <1>1, LoginKept, PTL DEF Spec, LockHolds

----------------------------------------------------------------------------
(* The threshold.  Record forgets the failures that have left the window,  *)
(* the history does not.                                                   *)

(* Of the failures R since the last lock or login, f is what the lockout   *)
(* still knows at time t: the last of them, and all that are in the window.*)
KnownOf(R, f, t) ==
    /\ R \in Seq(Nat) /\ f \in Seq(Nat) /\ Len(f) <= Len(R)
    /\ \A i \in 1..Len(R) : R[i] <= t
    /\ \A i, j \in 1..Len(R) : i < j => R[i] <= R[j]
    /\ \A i \in 1..Len(f) : f[i] = R[Len(R) - Len(f) + i]
    /\ \A i \in 1..(Len(R) - Len(f)) : R[i] + Window <= t

(* Fewer than Threshold failures of R lie within any one window.           *)
BelowThreshold(R) ==
    \A i \in DOMAIN R :
        Cardinality({j \in i..Len(R) : R[j] - R[i] < Window}) < Threshold

WindowInv ==
    /\ recorded = [u \in Users |-> recorded[u]]
    /\ failures = [u \in Users |-> failures[u]]
    /\ \A u \in Users :
        KnownOf(recorded[u], failures[u], now) /\ BelowThreshold(recorded[u])

(* A set of naturals that is not empty has a least element.                *)
LEMMA LeastNat ==
    ASSUME NEW T \in SUBSET Nat, T # {}
    PROVE  \E x \in T : \A y \in T : x <= y
<1> DEFINE R == OpToRel(<, Nat)
<1>1. IsWellFoundedOn(R, Nat)
  BY NatLessThanWellFounded
<1>2. ASSUME NEW x \in Nat, NEW y \in Nat, y < x
      PROVE  <<y, x>> \in R
  BY <1>2 DEF OpToRel
<1> HIDE DEF R
<1>3. PICK x \in T : \A y \in T : ~ (<<y, x>> \in R)
  BY <1>1, WFMin
<1>4. ASSUME NEW y \in T PROVE x <= y
  <2>1. x \in Nat /\ y \in Nat /\ ~ (y < x)
    BY <1>2, <1>3
  <2> QED
    BY <2>1
<1> QED
  BY <1>4

(* Induction up to n, for a property given by the set of those who have it.*)
LEMMA UpTo ==
    ASSUME NEW n \in Nat, NEW S, 0 \in S,
           \A k \in 1..n : k - 1 \in S => k \in S
    PROVE  0..n \subseteq S
<1> DEFINE T == {k \in 0..n : k \notin S}
<1> SUFFICES ASSUME T # {} PROVE FALSE
  OBVIOUS
<1>1. PICK x \in T : \A y \in T : x <= y
  <2>1. T \in SUBSET Nat
    OBVIOUS
  <2> HIDE DEF T
  <2> QED
    BY <2>1, LeastNat
<1>2. x \in 1..n /\ x - 1 \in 0..n /\ ~ (x <= x - 1)
  BY <1>1
<1> QED
  BY <1>1, <1>2

(* What the loop of Record has kept after each failure.                    *)
KeptSoFar(s, f) ==
    f = [i \in 0..Len(s) |->
            IF i = 0 THEN <<>>
            ELSE IF s[i] + Window > now THEN Append(f[i - 1], s[i])
            ELSE f[i - 1]]

(* The failures are in the order of their times, so those in the window    *)
(* are the last ones.                                                      *)
LEMMA WindowIsSuffix ==
    ASSUME NEW s \in Seq(Nat), now \in Nat,
           \A i, j \in 1..Len(s) : i < j => s[i] <= s[j]
    PROVE  \E m \in 0..Len(s) :
              /\ InWindow(s) = SubSeq(s, m + 1, Len(s))
              /\ \A i \in 1..m : s[i] + Window <= now
              /\ \A i \in (m + 1)..Len(s) : s[i] + Window > now
<1> DEFINE n == Len(s)
           T == {i \in 1..n : s[i] + Window > now}
<1>0. n \in Nat /\ Window \in Nat /\ \A i \in 1..n : s[i] \in Nat
  BY ConfigAssumption
<1>1. PICK m \in 0..n : /\ \A i \in 1..m : s[i] + Window <= now
                        /\ \A i \in (m + 1)..n : s[i] + Window > now
  <2>1. CASE T = {}
    <3>1. n \in 0..n /\ \A i \in 1..n : s[i] + Window <= now
      <4>1. \A i \in 1..n : ~ (s[i] + Window > now)
        BY <2>1
      <4> HIDE DEF n
      <4> QED
        BY <1>0, <4>1
    <3>2. \A i \in (n + 1)..n : s[i] + Window > now
      BY <1>0
    <3> QED
      BY <3>1, <3>2
  <2>2. CASE T # {}
    <3>1. PICK x \in T : \A y \in T : x <= y
      <4>1. T \in SUBSET Nat
        BY <1>0
      <4> HIDE DEF T
      <4> QED
        BY <2>2, <4>1, LeastNat
    <3>2. x \in 1..n /\ s[x] + Window > now /\ x - 1 \in 0..n
      BY <1>0, <3>1
    <3>3. ASSUME NEW i \in 1..(x - 1) PROVE s[i] + Window <= now
      <4>1. i \in 1..n /\ ~ (x <= i)
        BY <1>0, <3>2
      <4>2. ~ (s[i] + Window > now) /\ s[i] \in Nat
        BY <1>0, <3>1, <4>1
      <4> HIDE DEF n
      <4> QED
        BY <1>0, <4>2
    <3>4. ASSUME NEW i \in ((x - 1) + 1)..n PROVE s[i] + Window > now
      <4>1. i \in 1..n /\ (i = x \/ x < i)
        BY <1>0, <3>2
      <4>2. s[x] <= s[i] /\ s[i] \in Nat /\ s[x] \in Nat
        BY <1>0, <3>2, <4>1
      <4> HIDE DEF n
      <4> QED
        BY <1>0, <3>2, <4>2
    <3> QED
      BY <3>2, <3>3, <3>4
  <2> QED
    BY <2>1, <2>2
<1> DEFINE g == [i \in 0..n |-> SubSeq(s, m + 1, i)]
<1>2. /\ SubSeq(s, m + 1, 0) = <<>>
      /\ \A i \in 1..n : i <= m => SubSeq(s, m + 1, i) = SubSeq(s, m + 1, i - 1)
      /\ \A i \in 1..n : i > m =>
            SubSeq(s, m + 1, i) = Append(SubSeq(s, m + 1, i - 1), s[i])
  <2>1. SubSeq(s, m + 1, 0) = <<>>
    BY <1>0
  <2>2. ASSUME NEW i \in 1..n, i <= m
        PROVE  SubSeq(s, m + 1, i) = SubSeq(s, m + 1, i - 1)
    <3>1. SubSeq(s, m + 1, i) = <<>> /\ SubSeq(s, m + 1, i - 1) = <<>>
      BY <1>0, <2>2
    <3> QED
      BY <3>1
  <2>3. ASSUME NEW i \in 1..n, i > m
        PROVE  SubSeq(s, m + 1, i) = Append(SubSeq(s, m + 1, i - 1), s[i])
    BY <1>0, <2>3
  <2> QED
    BY <2>1, <2>2, <2>3
<1>3. KeptSoFar(s, g)
  <2>1. ASSUME NEW i \in 0..n
        PROVE  g[i] = IF i = 0 THEN <<>>
                      ELSE IF s[i] + Window > now THEN Append(g[i - 1], s[i])
                      ELSE g[i - 1]
    <3>1. CASE i = 0
      BY <1>2, <3>1
    <3>2. CASE i # 0 /\ i <= m
      <4>1. i \in 1..n /\ i - 1 \in 0..n /\ ~ (s[i] + Window > now)
        BY <1>0, <1>1, <3>2
      <4> QED
        BY <1>2, <3>2, <4>1
    <3>3. CASE i > m
      <4>1. i \in 1..n /\ i - 1 \in 0..n /\ i # 0 /\ s[i] + Window > now
        BY <1>0, <1>1, <3>3
      <4> QED
        BY <1>2, <3>3, <4>1
    <3>4. i = 0 \/ (i # 0 /\ i <= m) \/ i > m
      BY <1>0
    <3> HIDE DEF g
    <3> QED
      BY <3>1, <3>2, <3>3, <3>4
  <2>2. g = [i \in 0..n |-> g[i]]
    OBVIOUS
  <2> HIDE DEF g
  <2>3. g = [i \in 0..n |-> IF i = 0 THEN <<>>
                            ELSE IF s[i] + Window > now THEN Append(g[i - 1], s[i])
                            ELSE g[i - 1]]
    BY <2>1, <2>2
  <2> QED
    BY <2>3 DEF KeptSoFar
<1> DEFINE f == CHOOSE f : KeptSoFar(s, f)
<1>4. KeptSoFar(s, f)
  <2> HIDE DEF g
  <2> QED
    BY <1>3
<1>5. InWindow(s) = f[n]
  BY DEF InWindow, KeptSoFar
<1> HIDE DEF f
<1> DEFINE S == {i \in 0..n : f[i] = SubSeq(s, m + 1, i)}
<1>6. 0 \in S
  BY <1>0, <1>2, <1>4 DEF KeptSoFar
<1>7. ASSUME NEW i \in 1..n, i - 1 \in S PROVE i \in S
  <2>1. /\ i \in 0..n /\ i # 0
        /\ f[i] = IF s[i] + Window > now THEN Append(f[i - 1], s[i]) ELSE f[i - 1]
    <3>1. f = [j \in 0..n |-> IF j = 0 THEN <<>>
                              ELSE IF s[j] + Window > now THEN Append(f[j - 1], s[j])
                              ELSE f[j - 1]]
      BY <1>4 DEF KeptSoFar
    <3>2. i \in 0..n /\ i # 0
      BY <1>0
    <3> HIDE DEF n
    <3> QED
      BY <3>1, <3>2
  <2>2. f[i - 1] = SubSeq(s, m + 1, i - 1)
    BY <1>7
  <2>3. CASE i <= m
    <3>1. ~ (s[i] + Window > now)
      BY <1>0, <1>1, <2>3
    <3> QED
      BY <1>2, <2>1, <2>2, <2>3, <3>1
  <2>4. CASE i > m
    <3>1. s[i] + Window > now
      BY <1>0, <1>1, <2>4
    <3> QED
      BY <1>2, <2>1, <2>2, <2>4, <3>1
  <2> QED
    BY <1>0, <2>3, <2>4
<1>8. n \in S
  <2>1. 0..n \subseteq S
    <3> HIDE DEF S
    <3> QED
      BY <1>0, <1>6, <1>7, UpTo
  <2> QED
    BY <1>0, <2>1
<1> QED
  BY <1>1, <1>5, <1>8

(* Time alone makes the lockout know no less than the window holds.        *)
LEMMA KnownLater ==
    ASSUME NEW R, NEW f, NEW t \in Nat, NEW later \in Nat, t <= later, KnownOf(R, f, t)
    PROVE  KnownOf(R, f, later)
<1>1. /\ R \in Seq(Nat) /\ f \in Seq(Nat) /\ Len(R) \in Nat /\ Len(f) \in Nat
      /\ \A i \in 1..Len(R) : R[i] \in Nat /\ R[i] <= t
      /\ Len(f) <= Len(R) /\ Window \in Nat
  BY ConfigAssumption DEF KnownOf
<1>2. \A i \in 1..Len(R) : R[i] <= later
  BY <1>1
<1>3. \A i \in 1..(Len(R) - Len(f)) : R[i] + Window <= later
  <2>1. ASSUME NEW i \in 1..(Len(R) - Len(f)) PROVE R[i] + Window <= later
    <3>1. i \in 1..Len(R) /\ R[i] + Window <= t
      BY <1>1 DEF KnownOf
    <3>2. R[i] \in Nat
      BY <1>1, <3>1
    <3> QED
      BY <1>1, <3>1, <3>2
  <2> QED
    BY <2>1
<1> QED
  BY <1>2, <1>3 DEF KnownOf

(* One more failure, as Record enters it.                                  *)
LEMMA KnownNext ==
    ASSUME NEW R, NEW f, now \in Nat, KnownOf(R, f, now)
    PROVE  KnownOf(Append(R, now), Append(InWindow(f), now), now)
<1> DEFINE n == Len(R)
           l == Len(f)
<1>1. /\ R \in Seq(Nat) /\ f \in Seq(Nat) /\ n \in Nat /\ l \in Nat /\ l <= n
      /\ \A i \in 1..n : R[i] \in Nat /\ R[i] <= now
      /\ \A i, j \in 1..n : i < j => R[i] <= R[j]
      /\ \A i \in 1..l : f[i] = R[n - l + i]
      /\ \A i \in 1..(n - l) : R[i] + Window <= now
      /\ Window \in Nat
  BY ConfigAssumption DEF KnownOf
<1>2. \A i, j \in 1..l : i < j => f[i] <= f[j]
  <2> HIDE DEF n, l
  <2>1. ASSUME NEW i \in 1..l, NEW j \in 1..l, i < j PROVE f[i] <= f[j]
    <3>1. n - l + i \in 1..n /\ n - l + j \in 1..n /\ n - l + i < n - l + j
      BY <1>1, <2>1
    <3> QED
      BY <1>1, <3>1
  <2> QED
    BY <2>1
<1>3. PICK m \in 0..l :
        /\ InWindow(f) = SubSeq(f, m + 1, l)
        /\ \A i \in 1..m : f[i] + Window <= now
  BY <1>1, <1>2, WindowIsSuffix
<1> DEFINE w == InWindow(f)
           S == Append(R, now)
           g == Append(w, now)
<1>4. /\ w \in Seq(Nat) /\ Len(w) = l - m
      /\ \A i \in 1..(l - m) : w[i] = f[m + i]
  <2>1. m + 1 \in 1..(l + 1)
    BY <1>1
  <2>2. /\ SubSeq(f, m + 1, l) \in Seq(Nat)
        /\ Len(SubSeq(f, m + 1, l)) = IF m + 1 <= l THEN l - (m + 1) + 1 ELSE 0
        /\ \A i \in 1..(l - (m + 1) + 1) : SubSeq(f, m + 1, l)[i] = f[m + 1 + i - 1]
    <3> HIDE DEF l, n
    <3>1. m + 1 \in Int /\ l \in Int /\ \A i \in (m + 1)..l : f[i] \in Nat
      <4>1. l \in Nat /\ \A i \in 1..l : f[i] \in Nat
        BY <1>1 DEF l
      <4>2. m \in Int /\ m + 1 >= 1
        BY <1>1, <2>1
      <4> QED
        BY <4>1, <4>2
    <3> DEFINE k == m + 1
    <3> HIDE DEF k
    <3>2. k \in Int /\ l \in Int /\ \A i \in k..l : f[i] \in Nat
      BY <3>1 DEF k
    <3>3. /\ SubSeq(f, k, l) \in Seq(Nat)
          /\ Len(SubSeq(f, k, l)) = IF k <= l THEN l - k + 1 ELSE 0
          /\ \A i \in 1..(l - k + 1) : SubSeq(f, k, l)[i] = f[k + i - 1]
      BY <3>2, SubSeqProperties
    <3> QED
      BY <3>3, Zenon DEF k
  <2> HIDE DEF l
  <2> QED
    BY <1>1, <1>3, <2>2
<1> HIDE DEF w, n, l
<1>5. /\ S \in Seq(Nat) /\ Len(S) = n + 1 /\ S[n + 1] = now
      /\ \A i \in 1..n : S[i] = R[i]
      /\ g \in Seq(Nat) /\ Len(g) = l - m + 1 /\ g[l - m + 1] = now
      /\ \A i \in 1..(l - m) : g[i] = w[i]
  <2>1. /\ S \in Seq(Nat) /\ Len(S) = n + 1 /\ S[n + 1] = now
        /\ \A i \in 1..n : S[i] = R[i]
    BY <1>1, AppendProperties DEF n
  <2>2. /\ g \in Seq(Nat) /\ Len(g) = Len(w) + 1 /\ g[Len(w) + 1] = now
        /\ \A i \in 1..Len(w) : g[i] = w[i]
    BY <1>4, AppendProperties
  <2> HIDE DEF S, g
  <2> QED
    BY <1>4, <2>1, <2>2
<1> HIDE DEF S, g
<1>6. \A i \in 1..Len(S) : S[i] <= now
  <2>1. \A i \in 1..Len(S) : i \in 1..n \/ i = n + 1
    BY <1>1, <1>5
  <2>2. now <= now
    OBVIOUS
  <2>3. S[n + 1] = now /\ \A i \in 1..n : S[i] = R[i] /\ R[i] <= now
    BY <1>1, <1>5
  <2> QED
    BY <2>1, <2>2, <2>3, Zenon
<1>7. \A i, j \in 1..Len(S) : i < j => S[i] <= S[j]
  <2>1. ASSUME NEW i \in 1..Len(S), NEW j \in 1..Len(S), i < j PROVE S[i] <= S[j]
    <3>1. i \in 1..n
      BY <1>1, <1>5, <2>1
    <3>2. CASE j = n + 1
      BY <1>5, <1>6, <3>2
    <3>3. CASE j # n + 1
      BY <1>1, <1>5, <2>1, <3>1, <3>3
    <3> QED
      BY <3>2, <3>3
  <2> QED
    BY <2>1
<1>8. \A i \in 1..Len(g) : g[i] = S[Len(S) - Len(g) + i]
  <2>1. ASSUME NEW i \in 1..Len(g) PROVE g[i] = S[Len(S) - Len(g) + i]
    <3>1. Len(S) - Len(g) = n - l + m
      BY <1>1, <1>5
    <3>2. CASE i = l - m + 1
      BY <1>1, <1>5, <3>1, <3>2
    <3>3. CASE i # l - m + 1
      <4>1. i \in 1..(l - m) /\ m + i \in 1..l /\ n - l + (m + i) \in 1..n
        BY <1>1, <1>5, <2>1, <3>3
      <4>2. g[i] = f[m + i] /\ f[m + i] = R[n - l + (m + i)]
        BY <1>1, <1>4, <1>5, <4>1
      <4>3. n - l + m + i = n - l + (m + i)
        BY <1>1
      <4> QED
        BY <1>5, <3>1, <4>1, <4>2, <4>3
    <3> QED
      BY <3>2, <3>3
  <2> QED
    BY <2>1
<1>9. \A i \in 1..(Len(S) - Len(g)) : S[i] + Window <= now
  <2>1. ASSUME NEW i \in 1..(Len(S) - Len(g)) PROVE S[i] + Window <= now
    <3>1. i \in 1..n /\ i \in 1..(n - l + m)
      BY <1>1, <1>5
    <3>2. CASE i \in 1..(n - l)
      BY <1>1, <1>5, <3>1, <3>2
    <3>3. CASE i \notin 1..(n - l)
      <4>1. i - (n - l) \in 1..m /\ i - (n - l) \in 1..l /\ n - l + (i - (n - l)) = i
        BY <1>1, <3>1, <3>3
      <4>2. f[i - (n - l)] = R[i]
        BY <1>1, <4>1
      <4> QED
        BY <1>3, <1>5, <3>1, <4>1, <4>2
    <3> QED
      BY <3>2, <3>3
  <2> QED
    BY <2>1
<1>10. Len(g) <= Len(S)
  BY <1>1, <1>5
<1>11. KnownOf(S, g, now)
  BY <1>5, <1>6, <1>7, <1>8, <1>9, <1>10 DEF KnownOf
<1> QED
  BY <1>11 DEF S, g, w

(* As long as the lockout knows of fewer than Threshold failures, there    *)
(* are not more in the window.                                             *)
LEMMA StaysBelow ==
    ASSUME NEW R, NEW g, now \in Nat, R \in Seq(Nat), BelowThreshold(R),
           KnownOf(Append(R, now), g, now), Len(g) < Threshold
    PROVE  BelowThreshold(Append(R, now))
<1> DEFINE n == Len(R)
           S == Append(R, now)
           C(Q, i) == {j \in i..Len(Q) : Q[j] - Q[i] < Window}
<1>1. /\ n \in Nat /\ S \in Seq(Nat) /\ Len(S) = n + 1 /\ S[n + 1] = now
      /\ \A i \in 1..n : S[i] = R[i] /\ R[i] \in Nat
      /\ Window \in Nat \ {0} /\ Threshold \in Nat \ {0}
  BY AppendProperties, ConfigAssumption
<1>2. /\ g \in Seq(Nat) /\ Len(g) \in Nat /\ Len(g) <= n + 1
      /\ \A i \in 1..(n + 1 - Len(g)) : S[i] + Window <= now
  BY <1>1 DEF KnownOf
<1>3. DOMAIN S = 1..(n + 1) /\ DOMAIN R = 1..n
  BY <1>1
<1> HIDE DEF n, S
<1>4. SUFFICES ASSUME NEW i \in 1..(n + 1) PROVE Cardinality(C(S, i)) < Threshold
  BY <1>3 DEF BelowThreshold, S
<1>5. CASE i \in 1..n /\ now - R[i] >= Window
  <2>1. C(S, i) = C(R, i)
    <3>1. ASSUME NEW j PROVE j \in C(S, i) <=> j \in C(R, i)
      <4>1. CASE j \in i..n
        <5>1. j \in 1..n /\ S[j] = R[j] /\ S[i] = R[i] /\ j \in i..(n + 1)
          BY <1>1, <1>5, <4>1
        <5> QED
          BY <1>1, <4>1, <5>1 DEF n
      <4>2. CASE j = n + 1
        <5>1. ~ (S[j] - S[i] < Window)
          BY <1>1, <1>5, <4>2
        <5>2. j \notin i..Len(R)
          BY <1>1, <1>5, <4>2 DEF n
        <5> QED
          BY <5>1, <5>2
      <4>3. CASE j \notin i..(n + 1)
        <5>1. j \notin i..Len(R) /\ j \notin i..Len(S)
          BY <1>1, <1>5, <4>3 DEF n
        <5> QED
          BY <5>1
      <4>4. j \in i..(n + 1) => j \in i..n \/ j = n + 1
        BY <1>1, <1>5
      <4> QED
        BY <4>1, <4>2, <4>3, <4>4
    <3> QED
      BY <3>1
  <2>2. Cardinality(C(R, i)) < Threshold
    BY <1>3, <1>5 DEF BelowThreshold
  <2> HIDE DEF C
  <2> QED
    BY <2>1, <2>2
<1>6. CASE i = n + 1 \/ now - R[i] < Window
  <2> DEFINE k == n + 1 - Len(g)
  <2>1. i > k
    <3>1. CASE i = n + 1
      <4>1. Len(g) # 0
        <5> SUFFICES ASSUME Len(g) = 0 PROVE FALSE
          OBVIOUS
        <5>1. n + 1 \in 1..(n + 1 - Len(g))
          BY <1>1
        <5> QED
          BY <1>1, <1>2, <5>1
      <4> QED
        BY <1>1, <1>2, <3>1, <4>1
    <3>2. CASE i # n + 1
      <4>1. i \in 1..n /\ S[i] = R[i] /\ R[i] \in Nat /\ ~ (S[i] + Window <= now)
        <5>1. i \in 1..n
          BY <1>1, <3>2
        <5>2. S[i] = R[i] /\ R[i] \in Nat /\ now - R[i] < Window
          BY <1>1, <1>6, <3>2, <5>1
        <5> QED
          BY <1>1, <5>1, <5>2
      <4>2. i \notin 1..(n + 1 - Len(g))
        BY <1>2, <4>1
      <4> QED
        BY <1>1, <1>2, <4>1, <4>2
    <3> QED
      BY <3>1, <3>2
  <2>2. C(S, i) \subseteq (k + 1)..(n + 1)
    BY <1>1, <1>2, <2>1
  <2>3. /\ IsFiniteSet((k + 1)..(n + 1))
        /\ Cardinality((k + 1)..(n + 1)) =
              IF k + 1 > n + 1 THEN 0 ELSE (n + 1) - (k + 1) + 1
    <3>1. k + 1 \in Int /\ n + 1 \in Int
      BY <1>1, <1>2
    <3> HIDE DEF k
    <3> QED
      BY <3>1, FS_Interval
  <2>4. Cardinality((k + 1)..(n + 1)) <= Len(g)
    BY <1>1, <1>2, <2>3
  <2>5. /\ Cardinality(C(S, i)) <= Cardinality((k + 1)..(n + 1))
        /\ IsFiniteSet(C(S, i))
    <3> HIDE DEF C, k
    <3> QED
      BY <2>2, <2>3, FS_Subset
  <2>6. Cardinality(C(S, i)) \in Nat /\ Cardinality((k + 1)..(n + 1)) \in Nat
    <3> HIDE DEF C, k
    <3> QED
      BY <2>3, <2>5, FS_CardinalityType
  <2> HIDE DEF C, k
  <2> QED
    BY <1>1, <1>2, <2>4, <2>5, <2>6
<1>7. i \in 1..n => R[i] \in Nat
  BY <1>1
<1>8. i = n + 1 \/ i \in 1..n
  BY <1>1
<1> HIDE DEF C
<1> QED
  BY <1>1, <1>5, <1>6, <1>7, <1>8

LEMMA NothingKnown ==
    /\ \A t : KnownOf(<<>>, <<>>, t)
    /\ BelowThreshold(<<>>)
BY DEF KnownOf, BelowThreshold

(* What the lockout knows stays right through every handler.               *)
LEMMA WindowStep == LoginInv /\ WindowInv /\ [Next]_vars => WindowInv'
<1> SUFFICES ASSUME LoginInv, WindowInv, [Next]_vars PROVE WindowInv'
  OBVIOUS
<1> DEFINE Good(u) == KnownOf(recorded[u], failures[u], now) /\ BelowThreshold(recorded[u])
<1>0. /\ now \in Nat /\ who \in [Requests -> Users]
      /\ \A u \in Users : Good(u)
      /\ recorded = [u \in Users |-> recorded[u]]
      /\ failures = [u \in Users |-> failures[u]]
  BY DEF LoginInv, LoginTyped, WindowInv
<1>1. CASE Tick
  <2>1. now' = now + 1 /\ recorded' = recorded /\ failures' = failures
    BY <1>1 DEF Tick, lockVars
  <2>2. \A u \in Users : KnownOf(recorded[u], failures[u], now')
    BY <1>0, <2>1, KnownLater
  <2> QED
    BY <1>0, <2>1, <2>2 DEF WindowInv
<1>2. ASSUME NEW r \in Requests, LoginFailed(r) PROVE WindowInv'
  <2> DEFINE v == who[r]
             g == Append(InWindow(failures[v]), now)
             locks == Len(g) >= Threshold
  <2>1. /\ v \in Users /\ now' = now
        /\ failures' = [failures EXCEPT ![v] = IF locks THEN <<>> ELSE g]
        /\ recorded' = [recorded EXCEPT ![v] =
                            IF locks THEN <<>> ELSE Append(recorded[v], now)]
    BY <1>0, <1>2 DEF LoginFailed, Record, RecordEffect
  <2>2. /\ KnownOf(Append(recorded[v], now), g, now)
        /\ recorded[v] \in Seq(Nat) /\ BelowThreshold(recorded[v])
    <3>1. KnownOf(recorded[v], failures[v], now) /\ BelowThreshold(recorded[v])
      BY <1>0, <2>1
    <3>2. recorded[v] \in Seq(Nat)
      BY <3>1 DEF KnownOf
    <3> HIDE DEF v
    <3> QED
      BY <1>0, <3>1, <3>2, KnownNext
  <2>3. ~locks => BelowThreshold(Append(recorded[v], now))
    <3>1. Len(g) \in Nat /\ Threshold \in Nat
      BY <2>2, ConfigAssumption DEF KnownOf
    <3> HIDE DEF g
    <3> QED
      BY <1>0, <2>2, <3>1, StaysBelow
  <2> HIDE DEF locks, g
  <2>4. /\ recorded'[v] = IF locks THEN <<>> ELSE Append(recorded[v], now)
        /\ failures'[v] = IF locks THEN <<>> ELSE g
        /\ \A u \in Users \ {v} : recorded'[u] = recorded[u] /\ failures'[u] = failures[u]
        /\ recorded' = [u \in Users |-> recorded'[u]]
        /\ failures' = [u \in Users |-> failures'[u]]
    BY <1>0, <2>1
  <2>5. KnownOf(<<>>, <<>>, now) /\ BelowThreshold(<<>>)
    BY NothingKnown
  <2> HIDE DEF v
  <2> QED
    BY <1>0, <2>1, <2>2, <2>3, <2>4, <2>5 DEF WindowInv
<1>3. ASSUME NEW r \in Requests, LoginSucceeded(r) PROVE WindowInv'
  <2>1. /\ who[r] \in Users /\ now' = now
        /\ failures' = [failures EXCEPT ![who[r]] = <<>>]
        /\ recorded' = [recorded EXCEPT ![who[r]] = <<>>]
    BY <1>0, <1>3 DEF LoginSucceeded
  <2>2. /\ recorded'[who[r]] = <<>> /\ failures'[who[r]] = <<>>
        /\ \A u \in Users \ {who[r]} :
              recorded'[u] = recorded[u] /\ failures'[u] = failures[u]
        /\ recorded' = [u \in Users |-> recorded'[u]]
        /\ failures' = [u \in Users |-> failures'[u]]
    BY <1>0, <2>1
  <2> QED
    BY <1>0, <2>1, <2>2, NothingKnown DEF WindowInv
<1>4. CASE UNCHANGED <<now, failures, recorded>>
  BY <1>0, <1>4 DEF WindowInv
<1> QED
  BY <1>1, <1>2, <1>3, <1>4 DEF Next, LoginCheck, Authenticate, AuthenticateError,
     Visit, VisitError, ChangePassword, Logout, vars, lockVars

(* The lockout is exact: in spite of the failures it forgets, it locks a   *)
(* user as soon as Threshold of his failures lie within one window.        *)
THEOREM ThresholdIsExact == Spec => []ThresholdLocks
<1>1. Init => WindowInv
  BY NothingKnown DEF Init, WindowInv
<1>2. WindowInv => ThresholdLocks
  BY DEF WindowInv, BelowThreshold, ThresholdLocks
<1> QED
  BY <1>1, <1>2, WindowStep, LoginKept, PTL DEF Spec

----------------------------------------------------------------------------
(* Types.                                                                  *)

(* What TypeOK says beyond the invariants above.  A failure that is kept   *)
(* is one too few to lock.                                                 *)
AccountsTyped ==
    /\ password \in [Users -> 1..MaxPassword]
    /\ setAt \in [Users -> 0..MaxTime]
    /\ typed \in [Requests -> 0..MaxPassword]
    /\ faults \in 0..MaxFaults
    /\ \A u \in Users : Len(failures[u]) < Threshold

(* Every handler keeps it.                                                 *)
LEMMA AccountsStep ==
    LoginInv /\ WindowInv /\ AccountsTyped /\ [Next]_vars => AccountsTyped'
<1> SUFFICES ASSUME LoginInv, WindowInv, AccountsTyped, [Next]_vars
             PROVE  AccountsTyped'
  OBVIOUS
<1>0. /\ now \in 0..MaxTime /\ who \in [Requests -> Users]
      /\ cookies \subseteq Cookie
      /\ failures = [u \in Users |-> failures[u]]
  BY DEF LoginInv, LoginTyped, WindowInv
<1> USE DEF AccountsTyped, storeVars, lockVars, reqVars
<1>1. ASSUME NEW r \in Requests, NEW u \in Users, NEW pw \in {0, password[u]},
             LoginCheck(r, u, pw)
      PROVE  AccountsTyped'
  <2>1. pw \in 0..MaxPassword
    BY ConfigAssumption
  <2>2. typed' = [typed EXCEPT ![r] = pw] /\ UNCHANGED <<failures, storeVars, faults>>
    BY <1>1 DEF LoginCheck
  <2> QED
    BY <2>1, <2>2
<1>2. ASSUME NEW r \in Requests, LoginFailed(r) PROVE AccountsTyped'
  <2> DEFINE v == who[r]
             g == Append(InWindow(failures[v]), now)
             locks == Len(g) >= Threshold
  <2>1. /\ v \in Users /\ UNCHANGED <<storeVars, faults>>
        /\ failures' = [failures EXCEPT ![v] = IF locks THEN <<>> ELSE g]
        /\ typed' = [typed EXCEPT ![r] = 0]
    BY <1>0, <1>2 DEF LoginFailed, Record, RecordEffect
  <2>2. Len(g) \in Nat
    <3>1. /\ KnownOf(recorded[v], failures[v], now) /\ now \in Nat
          /\ BelowThreshold(recorded[v])
      BY <1>0, <2>1 DEF WindowInv
    <3> HIDE DEF v
    <3>2. KnownOf(Append(recorded[v], now), g, now)
      BY <3>1, KnownNext DEF KnownOf
    <3> QED
      BY <3>2 DEF KnownOf
  <2>3. Len(IF locks THEN <<>> ELSE g) < Threshold
    <3> HIDE DEF g
    <3> QED
      BY <2>2, ConfigAssumption
  <2>4. typed' \in [Requests -> 0..MaxPassword]
    BY <2>1, ConfigAssumption
  <2> HIDE DEF locks, g, v
  <2>5. \A u \in Users : Len(failures'[u]) < Threshold
    BY <1>0, <2>1, <2>3
  <2> QED
    BY <2>1, <2>4, <2>5
<1>3. ASSUME NEW r \in Requests, LoginSucceeded(r) PROVE AccountsTyped'
  <2>1. /\ who[r] \in Users /\ UNCHANGED <<storeVars, faults>>
        /\ failures' = [failures EXCEPT ![who[r]] = <<>>]
        /\ typed' = [typed EXCEPT ![r] = 0]
    BY <1>0, <1>3 DEF LoginSucceeded
  <2>2. ASSUME NEW u \in Users PROVE Len(failures'[u]) < Threshold
    <3>1. failures'[u] = IF u = who[r] THEN <<>> ELSE failures[u]
      BY <1>0, <2>1
    <3>2. Len(<<>>) < Threshold
      BY ConfigAssumption
    <3> QED
      BY <3>1, <3>2
  <2> QED
    BY <2>1, <2>2, ConfigAssumption
<1>4. ASSUME NEW c \in cookies, NEW next \in 1..MaxPassword, ChangePassword(c, next)
      PROVE  AccountsTyped'
  <2>1. /\ c.user \in Users
        /\ password' = [password EXCEPT ![c.user] = next]
        /\ setAt' = [setAt EXCEPT ![c.user] = now]
        /\ UNCHANGED <<failures, typed, faults>>
    BY <1>0, <1>4 DEF ChangePassword, Cookie
  <2>2. password' \in [Users -> 1..MaxPassword] /\ setAt' \in [Users -> 0..MaxTime]
    BY <1>0, <2>1
  <2> QED
    BY <2>1, <2>2
<1>5. CASE faults < MaxFaults /\ faults' = faults + 1
           /\ UNCHANGED <<failures, storeVars, typed>>
  BY <1>5, ConfigAssumption
<1>6. CASE UNCHANGED <<failures, storeVars, typed, faults>>
  BY <1>6
<1> QED
  BY <1>1, <1>2, <1>3, <1>4, <1>5, <1>6 DEF Next, Tick, Authenticate,
     AuthenticateError, Visit, VisitError, Logout, vars

(* Every state has its type; in particular the list of failures that       *)
(* Lockout.Record keeps for a user never reaches Threshold, however many   *)
(* requests fail at once.                                                  *)
THEOREM LoginTypes == Spec => []TypeOK
<1>1. Init => WindowInv /\ AccountsTyped
  <2> SUFFICES ASSUME Init PROVE WindowInv /\ AccountsTyped
    OBVIOUS
  <2>1. WindowInv
    BY NothingKnown DEF Init, WindowInv
  <2> QED
    BY <2>1, ConfigAssumption DEF Init, AccountsTyped
<1>2. LoginInv /\ WindowInv /\ AccountsTyped => TypeOK
  <2> SUFFICES ASSUME LoginInv, WindowInv, AccountsTyped PROVE TypeOK
    OBVIOUS
  <2>1. ASSUME NEW u \in Users PROVE failures[u] \in Seq(0..MaxTime)
    <3>1. /\ KnownOf(recorded[u], failures[u], now)
          /\ now \in 0..MaxTime /\ MaxTime \in Nat
      BY ConfigAssumption DEF LoginInv, LoginTyped, WindowInv
    <3> DEFINE f == failures[u]
               R == recorded[u]
    <3>2. /\ f \in Seq(Nat) /\ R \in Seq(Nat) /\ Len(f) <= Len(R)
          /\ \A i \in 1..Len(R) : R[i] <= now
          /\ \A i \in 1..Len(f) : f[i] = R[Len(R) - Len(f) + i]
      BY <3>1 DEF KnownOf
    <3> HIDE DEF f, R
    <3>3. ASSUME NEW i \in 1..Len(f) PROVE f[i] \in 0..MaxTime
      <4> DEFINE j == Len(R) - Len(f) + i
      <4>1. j \in 1..Len(R) /\ f[i] = R[j]
        BY <3>2
      <4> HIDE DEF j
      <4>2. R[j] \in Nat /\ R[j] <= now
        BY <3>2, <4>1
      <4> QED
        BY <3>1, <4>1, <4>2
    <3> DEFINE Times == 0..MaxTime
    <3>4. f \in [1..Len(f) -> Times] /\ Len(f) \in Nat
      BY <3>2, <3>3
    <3> HIDE DEF Times
    <3>5. f \in Seq(Times)
      BY <3>4
    <3> QED
      BY <3>5 DEF f, Times
  <2>2. failures \in [Users -> Seq(0..MaxTime)]
    BY <2>1 DEF WindowInv
  <2> QED
    BY <2>2 DEF LoginInv, LoginTyped, AccountsTyped, TypeOK, Answers
<1> QED
  BY <1>1, <1>2, AccountsStep, WindowStep, LoginKept, PTL DEF Spec
============================================================================
