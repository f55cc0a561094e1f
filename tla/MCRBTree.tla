------------------------------ MODULE MCRBTree -------------------------------
(***************************************************************************)
(* RBTree for TLC.  Eight keys make trees of three levels of black nodes,  *)
(* where a deletion is mended step by step up to the root.                 *)
(***************************************************************************)
EXTENDS RBTree

(* Two pointers are never followed: the parent of the sentinel between
   operations, left over from the last deletion and set again before it is
   read, and the parent of the root, of which only counts whether it is the
   sentinel.  States that differ in them alone are the same. *)
View ==
  LET t == IF pc = "delete" THEN tree ELSE [tree EXCEPT !.parent[Nil] = NULL]
      root == IF t.root = Nil \/ t.parent[t.root] = Nil THEN t
              ELSE [t EXCEPT !.parent[t.root] = NULL]
  IN <<root, size, keys, node, pc>>
=============================================================================
