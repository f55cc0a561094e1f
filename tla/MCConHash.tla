------------------------------ MODULE MCConHash ------------------------------
(***************************************************************************)
(* ConHash for TLC: three servers of at most two virtual nodes each on a   *)
(* ring of four points, so that most placements collide somewhere.         *)
(***************************************************************************)
EXTENDS ConHash, TLC

Symmetry == Permutations(Nodes)
=============================================================================
