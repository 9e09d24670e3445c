------------------------------ MODULE MCRollup -------------------------------
(* Small instances of Rollup for TLC.                                        *)
EXTENDS RollupProperties, TLC

Symmetry == Permutations(LogIds) \cup Permutations(Sessions) \cup Permutations(Workers)
==============================================================================
