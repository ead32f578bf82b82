---------------------------- MODULE AccountStore ---------------------------
(***************************************************************************)
(* What the CredStore interface (dashboard/auth/credstore.go) promises its *)
(* callers: every operation takes effect at once on one set of users, Seed *)
(* only fills an empty one, CreateUser does not replace a user, DeleteUser *)
(* keeps the last admin, and the updates change one existing user.  What   *)
(* the interface does not promise is to survive a crash or a failed write: *)
(* the users may be lost as a whole, and then every operation fails, Seed  *)
(* included.                                                               *)
(***************************************************************************)
EXTENDS CredUsers

CONSTANTS
    Passwords,
    InitAdmins,  \* the sets of admins a site may start with
    Lost         \* the store after a crash or an error has destroyed it

VARIABLE users

Init == users \in {Established(A) : A \in InitAdmins}

Seed ==
    /\ users # Lost
    /\ DOMAIN users = {}
    /\ \E pw \in Passwords : users' = Put(users, AdminName, NewUser(pw, "admin"))

CreateUser(n) ==
    /\ users # Lost
    /\ n \notin DOMAIN users
    /\ \E pw \in Passwords, r \in Roles : users' = Put(users, n, NewUser(pw, r))

DeleteUser(n) ==
    /\ users # Lost
    /\ n \in DOMAIN users
    /\ ~IsLastAdmin(users, n)
    /\ users' = Without(users, n)

SetRole(n) ==
    /\ users # Lost
    /\ n \in DOMAIN users
    /\ \E r \in Roles : users' = Put(users, n, WithRole(users[n], r))

SetPassword(n) ==
    /\ users # Lost
    /\ n \in DOMAIN users
    /\ \E pw \in Passwords : users' = Put(users, n, WithPassword(users[n], pw))

(* A crash or an error in the middle of a write.                           *)
Lose == users' = Lost

Next ==
    \/ Seed \/ Lose
    \/ \E n \in Names :
        CreateUser(n) \/ DeleteUser(n) \/ SetRole(n) \/ SetPassword(n)

Spec == Init /\ [][Next]_users
============================================================================
