-------------------------- MODULE MCDashboardUsers -------------------------
(* DashboardUsers.tla for TLC: a fresh site and one with an admin, and     *)
(* requests that are interchangeable.                                      *)
EXTENDS DashboardUsers, TLC

FreshOrInUse == {{}, {AdminName}}

AllOps == {"seed", "create", "delete", "toggle", "password"}

Symmetry == Permutations(Procs)
============================================================================
