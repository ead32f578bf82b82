-------------------------------- MODULE Login ------------------------------
(***************************************************************************)
(* Logging in to the dashboard: LoginPost and ChangePasswordPost           *)
(* (dashboard/handlers/account.go), the in-memory Lockout of a node        *)
(* (dashboard/auth/lockout.go), the signed session cookies                 *)
(* (dashboard/auth/session.go) and the RequireAuth middleware              *)
(* (dashboard/auth/middleware.go), against a clock.                        *)
(*                                                                         *)
(* LoginPost takes the lockout's mutex twice with the password check in    *)
(* between, so concurrent logins for one user interleave at three points.  *)
(***************************************************************************)
EXTENDS Integers, Sequences, FiniteSets

CONSTANTS
    Users,
    Requests,            \* concurrent POST /dashboard/login requests
    Threshold,           \* LockoutConfig
    Window,
    Duration,
    SessionTTL,
    PasswordExpiryDays,  \* Options.PasswordExpiryDays, as configured
    DefaultExpiryDays,   \* what applyDefaults puts in its place
    MaxTime,             \* bound: ticks of the clock
    MaxFaults,           \* bound: failures of the credential store
    MaxPassword          \* bound: the passwords a user may choose

ASSUME ConfigAssumption ==
    /\ Users # {} /\ Requests # {} /\ IsFiniteSet(Requests)
    /\ Threshold \in Nat \ {0}
    /\ Window \in Nat \ {0} /\ Duration \in Nat \ {0}
    /\ SessionTTL \in Nat
    /\ PasswordExpiryDays \in Int /\ DefaultExpiryDays \in Nat \ {0}
    /\ MaxTime \in Nat /\ MaxFaults \in Nat /\ MaxPassword \in Nat \ {0}

VARIABLES
    now,         \* the clock
    failures,    \* lockoutState.failures of each user
    until,       \* lockoutState.lockedUntil (0: the zero time)
    password,    \* the stored password, a number
    setAt,       \* User.PasswordSetAt
    mustChange,  \* User.MustChange
    pc, who, typed,   \* each login request, its user and its password
    cookies,     \* session cookies the browsers hold
    answer,      \* history: the last answer RequireAuth gave each user
    faults,
    recorded,    \* history: times of the failures since the user's last
                 \* lock or successful login
    late,        \* history: passwords checked during the user's current lock
    chosen       \* history: users whose last change set their first password

lockVars  == <<failures, until, recorded>>
storeVars == <<password, setAt, mustChange>>
reqVars   == <<pc, who, typed>>
vars == <<now, lockVars, storeVars, reqVars, cookies, answer, faults, late,
          chosen>>

Cookie == [user : Users, exp : Nat]

TypeOK ==
    /\ now \in 0..MaxTime
    /\ failures \in [Users -> Seq(0..MaxTime)]
    /\ until \in [Users -> Nat]
    /\ password \in [Users -> 1..MaxPassword]
    /\ setAt \in [Users -> 0..MaxTime]
    /\ mustChange \in [Users -> BOOLEAN]
    /\ pc \in [Requests -> {"idle", "auth", "record", "reset"}]
    /\ who \in [Requests -> Users]
    /\ typed \in [Requests -> 0..MaxPassword]
    /\ cookies \subseteq Cookie
    /\ answer \in [Users -> {"none", "login", "must_change", "expired",
                            "form", "served"}]
    /\ faults \in 0..MaxFaults
    /\ chosen \subseteq Users
    /\ \A u \in Users : Len(failures[u]) < Threshold

(* Fresh accounts (Seed and CreateUser set MustChange), no failures yet.   *)
Init ==
    /\ now = 0
    /\ failures = [u \in Users |-> <<>>]
    /\ until = [u \in Users |-> 0]
    /\ password = [u \in Users |-> 1]
    /\ setAt = [u \in Users |-> 0]
    /\ mustChange = [u \in Users |-> TRUE]
    /\ pc = [r \in Requests |-> "idle"]
    /\ who = [r \in Requests |-> CHOOSE u \in Users : TRUE]
    /\ typed = [r \in Requests |-> 0]
    /\ cookies = {}
    /\ answer = [u \in Users |-> "none"]
    /\ faults = 0
    /\ recorded = [u \in Users |-> <<>>]
    /\ late = [u \in Users |-> 0]
    /\ chosen = {}

----------------------------------------------------------------------------
Tick ==
    /\ now < MaxTime
    /\ now' = now + 1
    /\ UNCHANGED <<lockVars, storeVars, reqVars, cookies, answer, faults, late,
                   chosen>>

(* Lockout.IsLocked: time.Now().Before(lockedUntil).                       *)
IsLocked(u) == now < until[u]

LoginCheckNever(r, u, pw) ==
    /\ pc[r] = "idle"
    /\ pc' = [pc EXCEPT ![r] = "auth"]
    /\ who' = [who EXCEPT ![r] = u]
    /\ typed' = [typed EXCEPT ![r] = pw]
    /\ UNCHANGED <<now, lockVars, storeVars, cookies, answer, faults, late,
                   chosen>>

(* LoginPost up to the lockout check.  A locked user is turned away.  The  *)
(* password typed is the current one or a wrong one (0).                   *)
LoginCheck(r, u, pw) ==
    /\ pc[r] = "idle"
    /\ ~IsLocked(u)
    /\ pc' = [pc EXCEPT ![r] = "auth"]
    /\ who' = [who EXCEPT ![r] = u]
    /\ typed' = [typed EXCEPT ![r] = pw]
    /\ UNCHANGED <<now, lockVars, storeVars, cookies, answer, faults, late,
                   chosen>>

(* CredStore.Authenticate.                                                 *)
Authenticate(r) ==
    /\ pc[r] = "auth"
    /\ pc' = [pc EXCEPT ![r] =
                IF typed[r] = password[who[r]] THEN "reset" ELSE "record"]
    /\ late' = [late EXCEPT ![who[r]] = IF IsLocked(who[r]) THEN @ + 1 ELSE @]
    /\ UNCHANGED <<now, lockVars, storeVars, who, typed, cookies, answer,
                   faults, chosen>>

(* The store fails or the five seconds are over: any error but ErrLocked   *)
(* counts as a failed attempt.                                             *)
AuthenticateError(r) ==
    /\ pc[r] = "auth"
    /\ faults < MaxFaults
    /\ faults' = faults + 1
    /\ pc' = [pc EXCEPT ![r] = "record"]
    /\ UNCHANGED <<now, lockVars, storeVars, who, typed, cookies, answer, late,
                   chosen>>

(* The failures that are still inside the window: t.After(now - Window).   *)
InWindow(s) ==
    LET kept[i \in 0..Len(s)] ==
            IF i = 0 THEN <<>>
            ELSE IF s[i] + Window > now THEN Append(kept[i - 1], s[i])
            ELSE kept[i - 1]
    IN kept[Len(s)]

RecordEffect(u, fs, locks) ==
    /\ failures' = [failures EXCEPT ![u] = IF locks THEN <<>> ELSE fs]
    /\ until' = [until EXCEPT ![u] = IF locks THEN now + Duration ELSE @]
    /\ recorded' = [recorded EXCEPT ![u] = IF locks THEN <<>> ELSE Append(@, now)]
    /\ late' = [late EXCEPT ![u] = IF locks /\ ~IsLocked(u) THEN 0 ELSE @]

RecordKeepingOnlyLast(u) ==
    RecordEffect(u, <<now>>, Threshold = 1)

RecordUnlocking(u) ==
    LET fs == Append(InWindow(failures[u]), now)
        locks == Len(fs) >= Threshold
    IN  /\ failures' = [failures EXCEPT ![u] = IF locks THEN <<>> ELSE fs]
        /\ until' = [until EXCEPT ![u] = IF locks THEN now + Duration ELSE 0]
        /\ UNCHANGED <<recorded, late>>

(* Lockout.Record.                                                         *)
Record(u) ==
    LET fs == Append(InWindow(failures[u]), now)
    IN  RecordEffect(u, fs, Len(fs) >= Threshold)

LoginFailed(r) ==
    /\ pc[r] = "record"
    /\ Record(who[r])
    /\ pc' = [pc EXCEPT ![r] = "idle"]
    /\ typed' = [typed EXCEPT ![r] = 0]
    /\ UNCHANGED <<now, storeVars, who, cookies, answer, faults, chosen>>

(* Lockout.Reset, Sign and SetCookie.                                      *)
LoginSucceeded(r) ==
    /\ pc[r] = "reset"
    /\ failures' = [failures EXCEPT ![who[r]] = <<>>]
    /\ until' = [until EXCEPT ![who[r]] = 0]
    /\ recorded' = [recorded EXCEPT ![who[r]] = <<>>]
    /\ cookies' = cookies \cup {[user |-> who[r], exp |-> now + SessionTTL]}
    /\ pc' = [pc EXCEPT ![r] = "idle"]
    /\ typed' = [typed EXCEPT ![r] = 0]
    /\ UNCHANGED <<now, storeVars, who, answer, faults, late, chosen>>

----------------------------------------------------------------------------
(* RequireAuth.                                                            *)

(* Options.applyDefaults.                                                  *)
ExpiryDays ==
    IF PasswordExpiryDays = 0 THEN DefaultExpiryDays ELSE PasswordExpiryDays

Verified(c) == now <= c.exp

PasswordExpired(u) == ExpiryDays > 0 /\ now - setAt[u] > ExpiryDays

RequireAuthIgnoringMustChange(c, passwordPage) ==
    CASE ~Verified(c) -> "login"
      [] Verified(c) /\ PasswordExpired(c.user) /\ ~passwordPage -> "expired"
      [] OTHER -> IF passwordPage THEN "form" ELSE "served"

(* A request with cookie c, for the password page or for another one.      *)
RequireAuth(c, passwordPage) ==
    CASE ~Verified(c) -> "login"
      [] Verified(c) /\ mustChange[c.user] /\ ~passwordPage -> "must_change"
      [] Verified(c) /\ ~mustChange[c.user] /\ PasswordExpired(c.user)
           /\ ~passwordPage -> "expired"
      [] OTHER -> IF passwordPage THEN "form" ELSE "served"

Visit(c, passwordPage) ==
    /\ answer' = [answer EXCEPT ![c.user] = RequireAuth(c, passwordPage)]
    /\ UNCHANGED <<now, lockVars, storeVars, reqVars, cookies, faults, late,
                   chosen>>

(* GetUser fails in RequireAuth: back to the login page.                   *)
VisitError(c) ==
    /\ faults < MaxFaults
    /\ faults' = faults + 1
    /\ answer' = [answer EXCEPT ![c.user] = "login"]
    /\ UNCHANGED <<now, lockVars, storeVars, reqVars, cookies, late, chosen>>

(* ChangePasswordPost with the right current password: SetPassword, which  *)
(* clears MustChange.  The new password need only be eight characters, so  *)
(* it may be the current one.  With a wrong password, or a new one that is *)
(* refused, nothing changes: neither the store nor the lockout hears of it.*)
ChangePassword(c, next) ==
    /\ RequireAuth(c, TRUE) = "form"
    /\ password' = [password EXCEPT ![c.user] = next]
    /\ setAt' = [setAt EXCEPT ![c.user] = now]
    /\ mustChange' = [mustChange EXCEPT ![c.user] = FALSE]
    /\ answer' = [answer EXCEPT ![c.user] = "form"]
    /\ chosen' = IF next = 1 THEN chosen \cup {c.user} ELSE chosen \ {c.user}
    /\ UNCHANGED <<now, lockVars, reqVars, cookies, faults, late>>

(* LogoutPost: the browser drops its cookie.                               *)
Logout(c) ==
    /\ cookies' = cookies \ {c}
    /\ UNCHANGED <<now, lockVars, storeVars, reqVars, answer, faults, late,
                   chosen>>

Next ==
    \/ Tick
    \/ \E r \in Requests :
        \/ \E u \in Users : \E pw \in {0, password[u]} : LoginCheck(r, u, pw)
        \/ Authenticate(r) \/ AuthenticateError(r)
        \/ LoginFailed(r) \/ LoginSucceeded(r)
    \/ \E c \in cookies :
        \/ \E page \in BOOLEAN : Visit(c, page)
        \/ VisitError(c)
        \/ \E next \in 1..MaxPassword : ChangePassword(c, next)
        \/ Logout(c)

Spec == Init /\ [][Next]_vars

----------------------------------------------------------------------------
(* Properties.                                                             *)

(* While a user is locked no new guess is made: the passwords checked      *)
(* during a lock, however often it is extended, are those of requests that *)
(* were past the check when the lock fell, one fewer than there can be     *)
(* requests at a time.                                                     *)
LateGuessesBounded == \A u \in Users : late[u] <= Cardinality(Requests) - 1

(* The threshold is exact: as long as a user is neither locked nor logged  *)
(* in, fewer than Threshold of his failures lie within any one window.     *)
ThresholdLocks ==
    \A u \in Users : \A i \in DOMAIN recorded[u] :
        Cardinality({j \in i..Len(recorded[u]) :
                        recorded[u][j] - recorded[u][i] < Window}) < Threshold

(* A lock lasts for its duration: it ends early only because a login with  *)
(* the right password, checked before or during it, succeeds.              *)
LockHolds ==
    [][\A u \in Users :
        IsLocked(u) /\ now' < until[u] /\ until'[u] < until[u] =>
            \E r \in Requests : who[r] = u /\ pc[r] = "reset"]_vars

(* The password that Seed prints or CreateUser is given opens nothing but  *)
(* the password page (RequireAuth), whatever the order of logins, visits   *)
(* and changes, until its owner submits that page: he is served another    *)
(* page under that password only if he has chosen it there himself.        *)
InitialPasswordOnlyByChoice ==
    \A u \in Users : answer[u] = "served" /\ password[u] = 1 => u \in chosen

(* "PasswordExpiryDays. 0 = never expire." (dashboard.go), "0 disables"    *)
(* (README.md): with 0 configured RequireAuth sends nobody to the password *)
(* page because his password is too old.                                   *)
ZeroNeverExpires ==
    PasswordExpiryDays = 0 => \A u \in Users : answer[u] # "expired"
============================================================================
