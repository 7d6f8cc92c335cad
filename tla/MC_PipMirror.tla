--------------------------- MODULE MC_PipMirror ---------------------------
EXTENDS PipMirror, TLC

CONSTANTS n1, n2, n3, k1, k2

(* Nodes are interchangeable model values; used for safety runs only.     *)
NodeSymmetry == Permutations({n1, n2, n3})
=============================================================================
