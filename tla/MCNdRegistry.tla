---------------------------- MODULE MCNdRegistry ----------------------------
(* NdRegistry for TLC: callers are alike, and so are providers of a version. *)
EXTENDS NdRegistry, TLC

CONSTANTS t1, t2, p1, p2

Symmetry == Permutations({t1, t2}) \cup Permutations({p1, p2})
==============================================================================
