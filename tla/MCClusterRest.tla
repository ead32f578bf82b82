---------------------------- MODULE MCClusterRest --------------------------
(* ClusterRest.tla for TLC: the filters a, a/b and c.                      *)
EXTENDS ClusterRest

SmallPath == [f \in Filters |->
    CASE f = 1 -> <<"a">> [] f = 2 -> <<"a", "b">> [] OTHER -> <<"c">>]

Symmetry == Permutations(Nodes)
============================================================================
