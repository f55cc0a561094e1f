------------------------------- MODULE RBTree --------------------------------
(***************************************************************************)
(* The red-black tree of the ring (util_rbtree.c), pointer by pointer.     *)
(*                                                                         *)
(* A node is named by its key, as the keys of the ring are distinct.  The  *)
(* iterations of the loops that fix the tree up are steps; what comes      *)
(* before them is one step.  The code spells out each case for the left    *)
(* and for the right: here a side is a parameter.                          *)
(***************************************************************************)
EXTENDS Integers, Sequences, SequencesExt, FiniteSetsExt

CONSTANT K   \* bound: the number of keys

ASSUME ConstantsAssumption == K \in Nat \ {0}

Keys  == 1..K
Nil   == 0                \* the sentinel &rbtree->null
NULL  == -1               \* the pointer of rbt_clear_node
Cells == Keys \cup {Nil}
Pointers == Cells \cup {NULL}

VARIABLES
  tree,    \* root, the pointers parent, left and right, and the color
  size,    \* rbtree->size
  keys,    \* history: the keys inserted and not deleted since
  node,    \* the variable node of the loop that runs
  pc       \* "idle", the loop that runs, or "lost": freed memory was trusted
vars == <<tree, size, keys, node, pc>>

Other(d) == IF d = "left" THEN "right" ELSE "left"

(* The side n is on, below its parent. *)
SideOf(t, n) == IF t.left[t.parent[n]] = n THEN "left" ELSE "right"

Red(t, n)   == t.color[n] = "red"
Black(t, n) == t.color[n] = "black"
Paint(t, n, color) == [t EXCEPT !.color[n] = color]

(* New takes the place of old below old's parent. *)
Replace(t, old, new) ==
  IF old = t.root THEN [t EXCEPT !.root = new]
  ELSE [t EXCEPT ![SideOf(t, old)][t.parent[old]] = new]

(* n goes below its child c, to side d, and gets the child g of c. *)
Turn(t, d, n, c, g) ==
  [t EXCEPT !.parent[c] = t.parent[n], !.parent[n] = c, ![d][c] = n, ![Other(d)][n] = g]

(* Mutant: the inner grandchild keeps its parent. *)
RotateInnerLost(t, d, n) ==
  LET c == t[Other(d)][n] IN Turn(Replace(t, n, c), d, n, c, t[d][c])

(* rbtree_left_rotate, rbtree_right_rotate: n goes down to side d. *)
Rotate(t, d, n) ==
  LET c == t[Other(d)][n]
      g == t[d][c]
      v == Turn(Replace(t, n, c), d, n, c, g)
  IN IF g = Nil THEN v ELSE [v EXCEPT !.parent[g] = n]

-----------------------------------------------------------------------------
(* Searching *)

(* What the searches compare k with at a node: where they turn left. *)
Above(k)     == {x \in Keys : k < x}
AtOrAbove(k) == {x \in Keys : k <= x}

(* The nodes on the way down from the root, turning left at those of a set. *)
Path(t, lefts) ==
  LET down[x \in Pointers] ==
        IF x \notin Keys THEN <<>>
        ELSE <<x>> \o down[IF x \in lefts THEN t.left[x] ELSE t.right[x]]
  IN down[t.root]

(* util_rbsubtree_min *)
Least(t, n) ==
  LET down[x \in Pointers] ==
        IF x \notin Keys \/ t.left[x] = Nil THEN x ELSE down[t.left[x]]
  IN down[n]

(* The last node the search turned left at, or the least one. *)
LastLeft(t, lefts) ==
  LET last[x \in Pointers] ==
        IF x \notin Keys THEN Nil
        ELSE IF x \notin lefts THEN last[t.right[x]]
        ELSE LET l == last[t.left[x]] IN IF l = Nil THEN x ELSE l
  IN IF last[t.root] = Nil THEN Least(t, t.root) ELSE last[t.root]

(* util_rbtree_eq_key *)
EqKey(t, k) == IF k \in ToSet(Path(t, Above(k))) THEN k ELSE NULL

(* util_rbtree_gt_key *)
GtKey(t, k) == LastLeft(t, Above(k))

(* Mutant: <= written as <. *)
StrictGeqKey(t, k) == LastLeft(t, Above(k))

(* util_rbtree_geq_key *)
GeqKey(t, k) == LastLeft(t, AtOrAbove(k))

-----------------------------------------------------------------------------
(* Inserting *)

(* Mutant: the links of the leaf are not set. *)
LinkRaw(t, k) ==
  LET leaf == [t EXCEPT !.color[k] = "red"]
  IN IF t.root = Nil
     THEN [leaf EXCEPT !.root = k, !.parent[k] = Nil]
     ELSE LET y == Last(Path(t, Above(k))) IN
          [leaf EXCEPT !.parent[k] = y, ![IF k < y THEN "left" ELSE "right"][y] = k]

(* The node k is linked as a red leaf. *)
Link(t, k) ==
  LET leaf == [t EXCEPT !.left[k] = Nil, !.right[k] = Nil, !.color[k] = "red"]
  IN IF t.root = Nil
     THEN [leaf EXCEPT !.root = k, !.parent[k] = Nil]
     ELSE LET y == Last(Path(t, Above(k))) IN
          [leaf EXCEPT !.parent[k] = y, ![IF k < y THEN "left" ELSE "right"][y] = k]

(* util_rbtree_insert, up to rbtree_insert_fixup. *)
Insert(k) ==
  /\ pc = "idle" /\ k \notin keys
  /\ tree' = Link(tree, k)
  /\ keys' = keys \cup {k}
  /\ node' = k /\ pc' = "insert"
  /\ UNCHANGED size

(* The loop has come to a root that kept its pointer to a node that was freed,
   and perhaps allocated again, and looks at the color there. *)
AboveRoot == node = tree.root /\ tree.parent[node] # Nil

(* Case 1: parent and uncle are red. *)
InsertRecolor ==
  LET p == tree.parent[node]
      g == tree.parent[p]
      u == tree[Other(SideOf(tree, p))][g]
  IN
  /\ pc = "insert" /\ ~AboveRoot /\ Red(tree, p) /\ Red(tree, u)
  /\ tree' = Paint(Paint(Paint(tree, u, "black"), p, "black"), g, "red")
  /\ node' = g
  /\ UNCHANGED <<size, keys, pc>>

(* Case 2: an inner child is made an outer one. *)
Outer(t, n) ==
  LET p == t.parent[n]
      d == SideOf(t, p)
  IN IF n = t[Other(d)][p] THEN Rotate(t, d, p) ELSE t

(* Cases 2 and 3: the parent is red, the uncle black. *)
InsertRotate ==
  LET p == tree.parent[node]
      d == SideOf(tree, p)
      g == tree.parent[p]
      t == Outer(tree, node)
      q == t[d][g]
  IN
  /\ pc = "insert" /\ ~AboveRoot /\ Red(tree, p) /\ Black(tree, tree[Other(d)][g])
  /\ tree' = Rotate(Paint(Paint(t, q, "black"), g, "red"), Other(d), g)
  /\ node' = t[d][q]
  /\ UNCHANGED <<size, keys, pc>>

(* Mutant: the loop ends at the root only. *)
EndsAtRoot(t, n) == n = t.root

(* The condition of the loop is false. *)
LoopEnds(t, n) == Black(t, t.parent[n])

(* The loop ends; what a freed parent looks like is anyone's guess. *)
InsertDone ==
  /\ pc = "insert"
  /\ AboveRoot \/ LoopEnds(tree, node)
  /\ tree' = Paint(tree, tree.root, "black")
  /\ size' = size + 1
  /\ pc' = "idle" /\ node' = Nil
  /\ UNCHANGED keys

(* It looks red: the loop goes on from there, and all is undefined. *)
InsertLost ==
  /\ pc = "insert" /\ AboveRoot
  /\ pc' = "lost"
  /\ UNCHANGED <<tree, size, keys, node>>

-----------------------------------------------------------------------------
(* Deleting *)

(* The node that leaves its place, and the child that takes it. *)
Temp(t, k) == IF t.left[k] = Nil \/ t.right[k] = Nil THEN k ELSE Least(t, t.right[k])
Subst(t, temp) == IF t.left[temp] # Nil THEN t.left[temp] ELSE t.right[temp]

(* The node is cleared, and freed by __conhash_del_rbnode: what its color looks
   like afterwards is chosen when it is read. *)
Clear(t, k) ==
  [t EXCEPT !.left[k] = NULL, !.right[k] = NULL, !.parent[k] = NULL, !.color[k] = "black"]

(* Temp leaves its place. *)
Unlink(t, k, temp, subst) ==
  LET p == t.parent[temp] IN
  [t EXCEPT !.parent[subst] = IF p = k THEN temp ELSE p, ![SideOf(t, temp)][p] = subst]

(* Mutant: it does not take its color. *)
TakePlaceUncolored(t, k, temp) ==
  LET u == Replace([t EXCEPT !.parent[temp] = t.parent[k]], k, temp) IN
  [u EXCEPT !.left[temp] = u.left[k], !.right[temp] = u.right[k],
            !.parent = [x \in Cells |->
              IF x # Nil /\ x \in {u.left[k], u.right[k]} THEN temp ELSE u.parent[x]]]

(* Temp takes the place and the color of k. *)
TakePlace(t, k, temp) ==
  LET u == Replace([t EXCEPT !.parent[temp] = t.parent[k]], k, temp) IN
  [u EXCEPT !.left[temp] = u.left[k], !.right[temp] = u.right[k],
            !.color[temp] = u.color[k],
            !.parent = [x \in Cells |->
              IF x # Nil /\ x \in {u.left[k], u.right[k]} THEN temp ELSE u.parent[x]]]

(* util_rbtree_delete, up to rbtree_delete_fixup.  When the root has at most
   one child, that child becomes the root, and keeps its parent pointer. *)
Delete(k) ==
  LET temp  == Temp(tree, k)
      subst == Subst(tree, temp)
      t     == Unlink(tree, k, temp, subst)
  IN
  /\ pc = "idle" /\ k \in keys
  /\ size' = size - 1
  /\ keys' = keys \ {k}
  /\ IF temp = tree.root
     THEN /\ tree' = Clear(Paint([tree EXCEPT !.root = subst], subst, "black"), temp)
          /\ UNCHANGED <<node, pc>>
     ELSE /\ tree' = Clear(IF temp = k THEN t ELSE TakePlace(t, k, temp), k)
          /\ IF Black(tree, temp)
             THEN node' = subst /\ pc' = "delete"
             ELSE UNCHANGED <<node, pc>>

(* An iteration starts at a black node below the root. *)
Fixing == pc = "delete" /\ node # tree.root /\ Black(tree, node)

Sibling(t, n) == t[Other(SideOf(t, n))][t.parent[n]]

(* The sibling is red: the node gets a black one. *)
DeleteRedSibling ==
  LET p == tree.parent[node]
      w == Sibling(tree, node)
  IN
  /\ Fixing /\ Red(tree, w)
  /\ tree' = Rotate(Paint(Paint(tree, w, "black"), p, "red"), SideOf(tree, node), p)
  /\ UNCHANGED <<size, keys, node, pc>>

(* The sibling and its children are black. *)
DeleteRecolor ==
  LET w == Sibling(tree, node) IN
  /\ Fixing /\ Black(tree, w) /\ Black(tree, tree.left[w]) /\ Black(tree, tree.right[w])
  /\ tree' = Paint(tree, w, "red")
  /\ node' = tree.parent[node]
  /\ UNCHANGED <<size, keys, pc>>

(* The sibling is black and has a red child, which is moved outside if it is
   the inner one. *)
DeleteRotate ==
  LET d == SideOf(tree, node)
      p == tree.parent[node]
      v == Sibling(tree, node)
      t == IF Black(tree, tree[Other(d)][v])
           THEN Rotate(Paint(Paint(tree, tree[d][v], "black"), v, "red"), Other(d), v)
           ELSE tree
      w == Sibling(t, node)
      u == Paint(Paint(Paint(t, w, t.color[p]), p, "black"), t[Other(d)][w], "black")
  IN
  /\ Fixing /\ Black(tree, v) /\ (Red(tree, tree.left[v]) \/ Red(tree, tree.right[v]))
  /\ tree' = Rotate(u, d, p)
  /\ node' = tree'.root
  /\ UNCHANGED <<size, keys, pc>>

DeleteDone ==
  /\ pc = "delete" /\ ~Fixing
  /\ tree' = Paint(tree, node, "black")
  /\ pc' = "idle" /\ node' = Nil
  /\ UNCHANGED <<size, keys>>

Init ==
  /\ tree = [root   |-> Nil,
             parent |-> [c \in Cells |-> NULL],
             left   |-> [c \in Cells |-> NULL],
             right  |-> [c \in Cells |-> NULL],
             color  |-> [c \in Cells |-> "black"]]
  /\ size = 0 /\ keys = {} /\ node = Nil /\ pc = "idle"

Next ==
  \/ \E k \in Keys : Insert(k) \/ Delete(k)
  \/ InsertRecolor \/ InsertRotate \/ InsertDone \/ InsertLost
  \/ DeleteRedSibling \/ DeleteRecolor \/ DeleteRotate \/ DeleteDone

Spec == Init /\ [][Next]_vars

(* The loops of the fix-up run to their end. *)
FairSpec ==
  /\ Spec
  /\ WF_vars(InsertRecolor \/ InsertRotate \/ InsertDone)
  /\ WF_vars(DeleteRedSibling \/ DeleteRecolor \/ DeleteRotate \/ DeleteDone)

-----------------------------------------------------------------------------
(* Properties *)

(* The types of the pointers; those of a node of the tree are not cleared. *)
TypeOK ==
  /\ tree \in [root : Cells, parent : [Cells -> Pointers], left : [Cells -> Pointers],
               right : [Cells -> Pointers], color : [Cells -> {"red", "black"}]]
  /\ \A k \in keys : {tree.left[k], tree.right[k]} \subseteq Cells
  /\ size \in 0..K /\ keys \subseteq Keys /\ node \in Cells
  /\ pc \in {"idle", "insert", "delete", "lost"}

(* The keys below a node from the left to the right. *)
InOrder ==
  LET below[x \in Pointers] ==
        IF x \notin Keys THEN <<>> ELSE below[tree.left[x]] \o <<x>> \o below[tree.right[x]]
  IN below[tree.root]

(* At every step of every operation, also while the tree is being fixed up,
   it holds the keys inserted and not deleted since, each once and in order,
   its size is their number as soon as no insertion runs, and the children of a
   node point back to it. *)
WellFormed ==
  /\ ToSet(InOrder) = keys
  /\ \A i \in 1..(Len(InOrder) - 1) : InOrder[i] < InOrder[i + 1]
  /\ size = Cardinality(keys) - (IF pc \in {"insert", "lost"} THEN 1 ELSE 0)
  /\ \A k \in keys : \A c \in {tree.left[k], tree.right[k]} \ {Nil} : tree.parent[c] = k

(* The number of black nodes from x down, if it is the same on all ways, or
   -1.  In a deletion the current node counts for one black node more. *)
BlackHeight ==
  LET extra(x, c) ==
        IF pc = "delete" /\ c = node /\ x = tree.parent[node] THEN 1 ELSE 0
      height[x \in Pointers] ==
        IF x \notin Keys THEN 1
        ELSE LET l == height[tree.left[x]] + extra(x, tree.left[x])
                 r == height[tree.right[x]] + extra(x, tree.right[x])
             IN IF height[tree.left[x]] = -1 \/ l # r THEN -1
                ELSE l + (IF Black(tree, x) THEN 1 ELSE 0)
  IN height[tree.root]

(* The rules of red-black trees, weakened by what the loop that runs has still
   to mend: while it inserts, the current node alone may be a red root or have a
   red parent; while it deletes, the current node stands for one more black, and
   if it is red, its parent and its children may be red. *)
Balanced ==
  /\ BlackHeight # -1
  /\ Black(tree, Nil)
  /\ Red(tree, tree.root) => pc # "idle" /\ tree.root = node
  /\ \A k \in keys : Red(tree, k) /\ Red(tree, tree.parent[k]) /\ k # tree.root =>
       \/ pc \in {"insert", "lost"} /\ node = k
       \/ pc = "delete" /\ node \in {k, tree.parent[k]}

(* The searches find what was inserted, and go round the ring: they give the
   first key after k (from k on), or the first of all. *)
SearchesSucceed ==
  pc = "idle" /\ keys # {} => \A k \in Keys :
    LET First(S) == IF S # {} THEN Min(S) ELSE Min(keys) IN
    /\ EqKey(tree, k) = (IF k \in keys THEN k ELSE NULL)
    /\ GtKey(tree, k)  = First({x \in keys : x > k})
    /\ GeqKey(tree, k) = First({x \in keys : x >= k})

(* The fix-up of an insertion or of a deletion ends, or trusts freed memory. *)
FixupEnds == pc \in {"insert", "delete"} ~> pc \in {"idle", "lost"}
=============================================================================
