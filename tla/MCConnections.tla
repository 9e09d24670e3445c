---------------------------- MODULE MCConnections ----------------------------
(* Small instances of Connections for TLC, and the properties they check. *)
EXTENDS ConnectionProperties, TLC

Symmetry == Permutations(Users) \cup Permutations(RequestIds) \cup Permutations(Calls)
==============================================================================
