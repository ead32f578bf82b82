------------------------------ MODULE CredUsers ----------------------------
(***************************************************************************)
(* The dashboard's own users (dashboard/auth/credstore.go) and what the    *)
(* operations of CredStore do to a set of them, without the storage.  A    *)
(* set of users is a function from the names that exist to their records.  *)
(*                                                                         *)
(* Of a User the role, the password behind the hash and MustChange are     *)
(* kept.  FailedAttempts and LockedUntil are left out: no handler calls    *)
(* IncrementFailures or SetLockedUntil, so both stay zero.                 *)
(***************************************************************************)
EXTENDS Naturals

CONSTANTS
    Names,
    AdminName    \* the user Seed creates

ASSUME NamesAssumption == AdminName \in Names

Roles == {"admin", "viewer"}

(* Passwords are numbers: whoever sets one picks a number of his own.      *)
User == [role : Roles, pw : Nat, must : BOOLEAN]

IsUserSet(us) == DOMAIN us \subseteq Names /\ us \in [DOMAIN us -> User]

(* The record Seed and CreateUser write.                                   *)
NewUser(pw, role) == [role |-> role, pw |-> pw, must |-> TRUE]

(* Admins of a site in use: they have changed their first password.        *)
Established(names) ==
    [n \in names |-> [role |-> "admin", pw |-> 0, must |-> FALSE]]

Put(us, n, u) == [m \in DOMAIN us \cup {n} |-> IF m = n THEN u ELSE us[m]]

Without(us, n) == [m \in DOMAIN us \ {n} |-> us[m]]

Admins(us) == {n \in DOMAIN us : us[n].role = "admin"}

(* target.Role == RoleAdmin && admins == 1                                 *)
IsLastAdmin(us, n) == Admins(us) = {n}

(* What UsersToggleRole asks for.                                          *)
OtherRole(role) == IF role = "admin" THEN "viewer" ELSE "admin"

(* The functions handed to mutate by SetRole and SetPassword.              *)
WithRole(u, role) == [u EXCEPT !.role = role]
WithPassword(u, pw) == [u EXCEPT !.pw = pw, !.must = FALSE]

(* RequireAuth and RequireRole let a request through that comes from an    *)
(* admin who need not change his password first.                           *)
SomeAdminActs(us) == \E n \in Admins(us) : ~us[n].must
============================================================================
