--------------------------- MODULE MCEventBridge ---------------------------
(* EventBridge.tla for TLC.  Nodes and clients are interchangeable. *)
EXTENDS EventBridge, TLC

Symmetry == Permutations(Nodes) \cup Permutations(Clients)
============================================================================
