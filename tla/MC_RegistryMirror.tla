------------------------- MODULE MC_RegistryMirror -------------------------
EXTENDS RegistryMirror, TLC

CONSTANTS n1, n2, n3, k1, k2

(* Nodes are interchangeable model values: every property is a safety     *)
(* property, so symmetry reduction is sound.                               *)
NodeSymmetry == Permutations({n1, n2, n3})
=============================================================================
