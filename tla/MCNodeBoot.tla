----------------------------- MODULE MCNodeBoot -----------------------------
(* NodeBoot.tla for TLC.  Nodes are interchangeable.                       *)
EXTENDS NodeBoot, TLC

Symmetry == Permutations(Nodes)

NoneOrPreset == {Absent, Preset}
============================================================================
