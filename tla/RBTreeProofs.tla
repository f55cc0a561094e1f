---------------------------- MODULE RBTreeProofs -----------------------------
(***************************************************************************)
(* Proofs about RBTree: at every step of every operation the pointers make *)
(* a search tree of the keys, and a red-black tree but for what the loop   *)
(* that runs has still to mend.                                            *)
(***************************************************************************)
EXTENDS RBTree, FiniteSetTheorems, FunctionTheorems, WellFoundedInduction, TLAPS

Sides == {"left", "right"}

Colors == {"red", "black"}

Trees == [root : Cells, parent : [Cells -> Pointers], left : [Cells -> Pointers],
          right : [Cells -> Pointers], color : [Cells -> Colors]]

(* y lies on side d of x. *)
Beyond(d, x, y) == IF d = "left" THEN y < x ELSE x < y

(* The pointers of the nodes S of the tree t agree with each other, and those
   of the other nodes are cleared. *)
Linked(t, S) ==
  /\ t \in Trees /\ S \subseteq Keys
  /\ t.root \in S \cup {Nil}
  /\ \A x \in S : x # t.root =>
       t.parent[x] \in S /\ \E d \in Sides : t[d][t.parent[x]] = x
  /\ \A x \in S : \A d \in Sides :
       /\ t[d][x] \in S \cup {Nil}
       /\ t[d][x] # Nil => t.parent[t[d][x]] = x /\ t[d][x] # t.root
  /\ \A x \in Cells \ S : \A d \in Sides : t[d][x] = NULL

(* Below the node x are the keys sub[x], each on its side of x. *)
Spans(t, S, sub) ==
  /\ sub \in [Cells -> SUBSET S]
  /\ sub[Nil] = {} /\ sub[t.root] = S
  /\ \A x \in S : sub[x] = {x} \cup sub[t["left"][x]] \cup sub[t["right"][x]]
  /\ \A x \in S : \A d \in Sides : \A y \in sub[t[d][x]] : Beyond(d, x, y)

Shape(t, S, sub) == Linked(t, S) /\ Spans(t, S, sub)

-----------------------------------------------------------------------------
(* What an assignment to a field changes *)

LEMMA CellFacts ==
  /\ Keys \subseteq Cells /\ Cells \subseteq Pointers /\ Nil \in Cells /\ Nil \notin Keys
  /\ NULL \in Pointers /\ NULL \notin Cells /\ Keys \subseteq Int
  /\ \A x \in Cells : x # Nil => x \in Keys
BY DEF Cells, Pointers, Keys, Nil, NULL

LEMMA TwoSides ==
  ASSUME NEW d \in Sides
  PROVE  /\ Other(d) \in Sides /\ Other(d) # d /\ Other(Other(d)) = d
         /\ \A e \in Sides : e = d \/ e = Other(d)
BY DEF Sides, Other

LEMMA Fields ==
  ASSUME NEW t \in Trees
  PROVE  /\ t.root \in Cells /\ t.parent \in [Cells -> Pointers]
         /\ t.color \in [Cells -> Colors]
         /\ \A d \in Sides : t[d] \in [Cells -> Pointers]
         /\ t["left"] = t.left /\ t["right"] = t.right
BY DEF Trees, Sides

SetsRoot(r, t, y)       == r = [t EXCEPT !.root = y]
WithParent(t, x, y)     == [t EXCEPT !.parent[x] = y]
SetsParent(r, t, x, y)  == r = WithParent(t, x, y)
SetsLink(r, t, d, x, y) == r = [t EXCEPT ![d][x] = y]
Paints(r, t, x, col)    == r = Paint(t, x, col)
Replaces(r, t, old, new) == r = Replace(t, old, new)
Rotates(r, t, d, n)     == r = Rotate(t, d, n)

LEMMA RootSet ==
  ASSUME NEW t \in Trees, NEW y \in Cells, NEW r, SetsRoot(r, t, y)
  PROVE  /\ r \in Trees
         /\ r.root = y /\ r.parent = t.parent /\ r.color = t.color
         /\ \A d \in Sides : r[d] = t[d]
BY DEF Trees, Sides, SetsRoot

LEMMA ParentSet ==
  ASSUME NEW t \in Trees, NEW x \in Cells, NEW y \in Pointers,
         NEW r, SetsParent(r, t, x, y)
  PROVE  /\ r \in Trees
         /\ r.root = t.root /\ r.color = t.color
         /\ \A z \in Cells : r.parent[z] = IF z = x THEN y ELSE t.parent[z]
         /\ \A d \in Sides : r[d] = t[d]
BY DEF Trees, Sides, SetsParent, WithParent

LEMMA LinkSet ==
  ASSUME NEW t \in Trees, NEW d \in Sides, NEW x \in Cells, NEW y \in Pointers,
         NEW r, SetsLink(r, t, d, x, y)
  PROVE  /\ r \in Trees
         /\ r.root = t.root /\ r.parent = t.parent /\ r.color = t.color
         /\ \A z \in Cells : r[d][z] = IF z = x THEN y ELSE t[d][z]
         /\ r[Other(d)] = t[Other(d)]
<1>1. CASE d = "left"
  BY <1>1 DEF Trees, Sides, Other, SetsLink
<1>2. CASE d = "right"
  BY <1>2 DEF Trees, Sides, Other, SetsLink
<1> QED
  BY <1>1, <1>2 DEF Sides

LEMMA Painted ==
  ASSUME NEW t \in Trees, NEW x \in Cells, NEW col \in Colors, NEW r, Paints(r, t, x, col)
  PROVE  /\ r \in Trees
         /\ r.root = t.root /\ r.parent = t.parent
         /\ \A z \in Cells : r.color[z] = IF z = x THEN col ELSE t.color[z]
         /\ \A d \in Sides : r[d] = t[d]
BY DEF Trees, Sides, Paints, Paint

(* The four assignments of a rotation, after the parent of n has its new child. *)
Turns(r, t, d, n, c, g) == r = Turn(t, d, n, c, g)

LEMMA RotationSet ==
  ASSUME NEW t \in Trees, NEW d \in Sides, NEW n \in Cells, NEW c \in Cells,
         NEW g \in Pointers, NEW r, Turns(r, t, d, n, c, g)
  PROVE  /\ r \in Trees
         /\ r.root = t.root /\ r.color = t.color
         /\ \A z \in Cells :
              /\ r.parent[z] = IF z = n THEN c ELSE IF z = c THEN t.parent[n] ELSE t.parent[z]
              /\ r[d][z] = IF z = c THEN n ELSE t[d][z]
              /\ r[Other(d)][z] = IF z = n THEN g ELSE t[Other(d)][z]
<1>1. PICK ps, ds, es : /\ ps = [t.parent EXCEPT ![c] = t.parent[n], ![n] = c]
                       /\ ds = [t[d] EXCEPT ![c] = n]
                       /\ es = [t[Other(d)] EXCEPT ![n] = g]
  OBVIOUS
<1>2. n \in Pointers /\ c \in Pointers
  BY CellFacts
<1>3. /\ ps \in [Cells -> Pointers] /\ ds \in [Cells -> Pointers] /\ es \in [Cells -> Pointers]
      /\ \A z \in Cells : /\ ps[z] = IF z = n THEN c ELSE IF z = c THEN t.parent[n] ELSE t.parent[z]
                          /\ ds[z] = IF z = c THEN n ELSE t[d][z]
                          /\ es[z] = IF z = n THEN g ELSE t[Other(d)][z]
  BY <1>1, <1>2, Fields, TwoSides
<1>4. CASE d = "left"
  <2>1. Other(d) = "right"
    BY <1>4 DEF Other
  <2>2. r = [t EXCEPT !.parent = ps, !.left = ds, !.right = es]
    BY <1>1, <1>2, <1>4, <2>1 DEF Trees, Turn, Turns
  <2> QED
    BY <1>3, <1>4, <2>1, <2>2 DEF Trees
<1>5. CASE d = "right"
  <2>1. Other(d) = "left"
    BY <1>5 DEF Other
  <2>2. r = [t EXCEPT !.parent = ps, !.right = ds, !.left = es]
    BY <1>1, <1>2, <1>5, <2>1 DEF Trees, Turn, Turns
  <2> QED
    BY <1>3, <1>5, <2>1, <2>2 DEF Trees
<1> QED
  BY <1>4, <1>5 DEF Sides

-----------------------------------------------------------------------------
(* What lies below a node *)

LEMMA Child ==
  ASSUME NEW t, NEW S, NEW sub, Shape(t, S, sub), NEW d \in Sides, NEW x \in S
  PROVE  /\ S \subseteq Keys /\ x # Nil /\ x \in Cells
         /\ t[d][x] \in S \cup {Nil} /\ x \in sub[x] /\ sub[x] \subseteq S
         /\ sub[x] = {x} \cup sub[t[d][x]] \cup sub[t[Other(d)][x]]
         /\ x \notin sub[t[d][x]]
         /\ sub[t[d][x]] \cap sub[t[Other(d)][x]] = {}
         /\ t[d][x] # Nil => t[d][x] # x /\ t[d][x] \in sub[t[d][x]] /\ t[d][x] # t[Other(d)][x]
<1>0. S \subseteq Keys /\ x \in Keys /\ Nil \notin S
  BY CellFacts DEF Shape, Linked
<1>1. x \in Cells /\ \A y \in S : y \in Int /\ y \in sub[y] /\ y \in Cells
  BY <1>0, CellFacts DEF Shape, Spans
<1>6. \A e \in Sides : t[e][x] \in S \cup {Nil}
  BY DEF Shape, Linked
<1>2. \A e \in Sides : sub[t[e][x]] \subseteq S /\ t[e][x] \in S \cup {Nil}
  BY <1>0, <1>1, <1>6, CellFacts DEF Shape, Spans
<1>3. sub[x] = {x} \cup sub[t[d][x]] \cup sub[t[Other(d)][x]]
  BY DEF Shape, Spans, Sides, Other
<1>4. \A e \in Sides : x \notin sub[t[e][x]]
  BY <1>1, <1>2 DEF Shape, Spans, Beyond
<1>5. sub[t[d][x]] \cap sub[t[Other(d)][x]] = {}
  BY <1>1, <1>2 DEF Shape, Spans, Beyond, Sides, Other
<1>7. sub[x] \subseteq S
  BY <1>1 DEF Shape, Spans
<1>8. t[d][x] # Nil => t[d][x] # x /\ t[d][x] \in sub[t[d][x]] /\ t[d][x] # t[Other(d)][x]
  BY <1>1, <1>4, <1>5, <1>6
<1> QED
  BY <1>0, <1>1, <1>3, <1>4, <1>5, <1>6, <1>7, <1>8

(* A node and its grandchild: the nodes a rotation moves are different ones. *)
LEMMA Turning ==
  ASSUME NEW t, NEW S, NEW sub, Shape(t, S, sub), NEW d \in Sides,
         NEW n \in S, NEW c \in S, c = t[Other(d)][n],
         NEW g, g = t[d][c], NEW p, p = t.parent[n]
  PROVE  /\ c # n /\ g # n /\ g # c /\ g \in S \cup {Nil}
         /\ n # t.root => p \in S /\ p # n /\ p # c /\ p # g
<1>1. c # n /\ c \in sub[c] /\ n \notin sub[c] /\ n \in sub[n]
  <2>1. Other(d) \in Sides
    BY TwoSides
  <2> QED
    BY <2>1, Child
<1>2. g \in S \cup {Nil} /\ sub[g] \subseteq sub[c] /\ g # c /\ g # n
  <2>1. g \in S \cup {Nil} /\ sub[c] = {c} \cup sub[g] \cup sub[t[Other(d)][c]]
    BY Child
  <2>2. g # c /\ c # Nil /\ n # Nil
    BY Child
  <2>3. g \in S => g \in sub[g]
    BY Child
  <2> QED
    BY <1>1, <2>1, <2>2, <2>3
<1>3. ASSUME n # t.root
      PROVE  p \in S /\ p # n /\ p # c /\ p # g
  <2>1. p \in S /\ \E e \in Sides : t[e][p] = n
    BY <1>3 DEF Shape, Linked
  <2>2. PICK e \in Sides : t[e][p] = n
    BY <2>1
  <2>3. p # n /\ sub[n] \subseteq sub[p] /\ p \notin sub[n] /\ n # Nil
    BY <2>1, <2>2, Child
  <2>4. c \in sub[n] /\ (g # Nil => g \in sub[n])
    <3>1. sub[n] = {n} \cup sub[t[Other(d)][n]] \cup sub[t[d][n]]
      BY Child
    <3>2. g # Nil => g \in sub[g]
      BY Child
    <3> QED
      BY <1>1, <1>2, <3>1, <3>2
  <2>5. p # Nil
    BY <2>1, Child
  <2> QED
    BY <2>1, <2>3, <2>4, <2>5
<1> QED
  BY <1>1, <1>2, <1>3

(* Only the parent of n has a new child. *)
LEMMA Replaced ==
  ASSUME NEW t, NEW S, NEW sub, Shape(t, S, sub), NEW n \in S, NEW new \in Cells,
         NEW r, Replaces(r, t, n, new)
  PROVE  /\ r \in Trees /\ r.parent = t.parent /\ r.color = t.color
         /\ r.root = IF n = t.root THEN new ELSE t.root
         /\ \A e \in Sides : \A x \in Cells : r[e][x] =
              IF n # t.root /\ x = t.parent[n] /\ t[e][x] = n THEN new ELSE t[e][x]
<1>0. t \in Trees /\ new \in Pointers
  BY CellFacts DEF Shape, Linked
<1>1. CASE n = t.root
  <2>1. SetsRoot(r, t, new)
    BY <1>1 DEF Replaces, Replace, SetsRoot
  <2> QED
    BY <1>0, <1>1, <2>1, RootSet
<1>2. CASE n # t.root
  <2>0. PICK p, d : p = t.parent[n] /\ d = SideOf(t, n)
    OBVIOUS
  <2>1. p \in S /\ p \in Cells /\ \E e \in Sides : t[e][p] = n
    BY <1>2, <2>0, CellFacts DEF Shape, Linked
  <2>2. d \in Sides /\ t[d][p] = n /\ t[Other(d)][p] # n
    <3>1. d \in Sides /\ t[d][p] = n
      BY <2>0, <2>1 DEF SideOf, Sides
    <3> QED
      BY <3>1, <2>1, Child
  <2>3. SetsLink(r, t, d, p, new)
    BY <1>2, <2>0 DEF Replaces, Replace, SetsLink
  <2>4. /\ r \in Trees /\ r.parent = t.parent /\ r.color = t.color /\ r.root = t.root
        /\ (\A z \in Cells : r[d][z] = IF z = p THEN new ELSE t[d][z]) /\ r[Other(d)] = t[Other(d)]
    <3>1. d \in Sides /\ p \in Cells /\ t \in Trees /\ new \in Pointers
      BY <1>0, <2>1, <2>2
    <3> QED
      BY <2>3, <3>1, LinkSet
  <2>5. \A e \in Sides : e = d \/ e = Other(d)
    BY <2>2, TwoSides
  <2>6. t[d] \in [Cells -> Pointers]
    BY <1>0, <2>2, Fields
  <2>7. ASSUME NEW e \in Sides, NEW x \in Cells
        PROVE  r[e][x] = IF x = p /\ t[e][x] = n THEN new ELSE t[e][x]
    <3>1. CASE e = d
      BY <2>2, <2>4, <2>6, <3>1
    <3>2. CASE e = Other(d)
      BY <2>2, <2>4, <3>2
    <3> QED
      BY <2>5, <3>1, <3>2
  <2> QED
    BY <1>2, <2>0, <2>4, <2>7
<1> QED
  BY <1>1, <1>2

(* A rotation takes c to the place of n, n below c, and g from c to n. *)
LEMMA Rotated ==
  ASSUME NEW t, NEW S, NEW sub, Shape(t, S, sub), NEW d \in Sides,
         NEW n \in S, NEW c \in S, c = t[Other(d)][n],
         NEW g, g = t[d][c], NEW r, Rotates(r, t, d, n)
  PROVE  /\ r \in Trees /\ r.color = t.color
         /\ r.root = IF n = t.root THEN c ELSE t.root
         /\ \A x \in Cells : r.parent[x] =
              IF x = n THEN c
              ELSE IF x = c THEN t.parent[n]
              ELSE IF x = g /\ g # Nil THEN n
              ELSE t.parent[x]
         /\ \A e \in Sides : \A x \in Cells : r[e][x] =
              IF x = c /\ e = d THEN n
              ELSE IF x = n /\ e # d THEN g
              ELSE IF n # t.root /\ x = t.parent[n] /\ t[e][x] = n THEN c
              ELSE t[e][x]
<1>1. PICK u, p : Replaces(u, t, n, c) /\ p = t.parent[n]
  BY DEF Replaces
<1>2. PICK v : Turns(v, u, d, n, c, g)
  BY DEF Turns
<1>3. /\ g = Nil => r = v
      /\ g # Nil => SetsParent(r, v, g, n)
  <2>1. v = Turn(Replace(t, n, c), d, n, c, g)
    BY <1>1, <1>2 DEF Turns, Replaces
  <2> QED
    BY <2>1 DEF Rotates, Rotate, SetsParent, WithParent
<1>4. /\ t \in Trees /\ n \in Cells /\ c \in Cells /\ g \in Cells
      /\ n \in Pointers /\ g \in Pointers /\ p \in Pointers
  <2>1. t \in Trees /\ n \in Keys /\ c \in Keys /\ g \in Cells
    BY Turning, CellFacts DEF Shape, Linked
  <2> QED
    BY <1>1, <2>1, Fields, CellFacts
<1>5. /\ c # n /\ g # n /\ g # c
      /\ n # t.root => p # n /\ p # c /\ p # g
  BY <1>1, Turning
<1>6. /\ u \in Trees /\ u.parent[n] = p /\ u.parent = t.parent /\ u.color = t.color
      /\ u.root = IF n = t.root THEN c ELSE t.root
      /\ \A e \in Sides : \A x \in Cells : u[e][x] =
           IF n # t.root /\ x = p /\ t[e][x] = n THEN c ELSE t[e][x]
  BY <1>1, <1>4, Replaced
<1>7. /\ v \in Trees /\ v.root = u.root /\ v.color = u.color
      /\ \A z \in Cells :
           /\ v.parent[z] = IF z = n THEN c ELSE IF z = c THEN p ELSE u.parent[z]
           /\ v[d][z] = IF z = c THEN n ELSE u[d][z]
           /\ v[Other(d)][z] = IF z = n THEN g ELSE u[Other(d)][z]
  <2>1. u \in Trees
    BY <1>6
  <2>2. /\ v \in Trees /\ v.root = u.root /\ v.color = u.color
        /\ \A z \in Cells :
             /\ v.parent[z] = IF z = n THEN c ELSE IF z = c THEN u.parent[n] ELSE u.parent[z]
             /\ v[d][z] = IF z = c THEN n ELSE u[d][z]
             /\ v[Other(d)][z] = IF z = n THEN g ELSE u[Other(d)][z]
    BY <1>2, <1>4, <2>1, RotationSet, SMTT(30)
  <2> QED
    BY <1>6, <2>2
<1>8. /\ r \in Trees /\ r.root = v.root /\ r.color = v.color
      /\ \A z \in Cells : r.parent[z] = IF z = g /\ g # Nil THEN n ELSE v.parent[z]
      /\ \A e \in Sides : r[e] = v[e]
  <2>1. CASE g = Nil
    BY <1>3, <1>7, <2>1
  <2>2. CASE g # Nil
    <3>1. SetsParent(r, v, g, n)
      BY <1>3, <2>2
    <3>2. v \in Trees
      BY <1>7
    <3>3. /\ r \in Trees /\ r.root = v.root /\ r.color = v.color
          /\ \A z \in Cells : r.parent[z] = IF z = g THEN n ELSE v.parent[z]
          /\ \A e \in Sides : r[e] = v[e]
      BY <1>4, <3>1, <3>2, ParentSet
    <3> QED
      BY <2>2, <3>3
  <2> QED
    BY <2>1, <2>2
<1>9. ASSUME NEW x \in Cells, NEW e \in Sides
      PROVE  r[e][x] =
              IF x = c /\ e = d THEN n
              ELSE IF x = n /\ e # d THEN g
              ELSE IF n # t.root /\ x = p /\ t[e][x] = n THEN c
              ELSE t[e][x]
  <2>1. r[e][x] = v[e][x]
    BY <1>8
  <2>2. CASE e = d
    BY <1>5, <1>6, <1>7, <2>1, <2>2
  <2>3. CASE e = Other(d)
    <3>1. e # d /\ r[e][x] = IF x = n THEN g ELSE u[e][x]
      BY <1>7, <2>1, <2>3, TwoSides
    <3> QED
      BY <1>5, <1>6, <3>1
  <2> QED
    BY <2>2, <2>3, TwoSides
<1> QED
  BY <1>1, <1>5, <1>6, <1>7, <1>8, <1>9

LEMMA BeyondOrder ==
  ASSUME NEW d \in Sides, NEW x \in Int, NEW y \in Int, NEW z \in Int
  PROVE  /\ Beyond(d, x, y) <=> Beyond(Other(d), y, x)
         /\ Beyond(d, x, y) /\ Beyond(d, y, z) => Beyond(d, x, z)
BY DEF Sides, Other, Beyond

(* A rotation leaves a search tree of the same keys. *)
LEMMA RotatedLinked ==
  ASSUME NEW t, NEW S, NEW sub, Shape(t, S, sub), NEW d \in Sides,
         NEW n \in S, t[Other(d)][n] # Nil, NEW r, Rotates(r, t, d, n)
  PROVE  Linked(r, S)
<1>1. PICK c, g : c = t[Other(d)][n] /\ g = t[d][c]
  OBVIOUS
<1>2. c \in S /\ Other(d) \in Sides
  BY <1>1, Child, TwoSides
<1>3. /\ r \in Trees
      /\ r.root = IF n = t.root THEN c ELSE t.root
      /\ \A x \in Cells : r.parent[x] =
           IF x = n THEN c
           ELSE IF x = c THEN t.parent[n]
           ELSE IF x = g /\ g # Nil THEN n
           ELSE t.parent[x]
      /\ \A e \in Sides : \A x \in Cells : r[e][x] =
           IF x = c /\ e = d THEN n
           ELSE IF x = n /\ e # d THEN g
           ELSE IF n # t.root /\ x = t.parent[n] /\ t[e][x] = n THEN c
           ELSE t[e][x]
  BY <1>1, <1>2, Rotated
<1>4. /\ S \subseteq Keys /\ S \subseteq Cells /\ Nil \notin S /\ n \in Cells /\ c \in Cells
  BY CellFacts, <1>2 DEF Shape, Linked
<1>5. /\ c # n /\ g # n /\ g # c /\ g \in S \cup {Nil}
      /\ n # t.root => t.parent[n] \in S /\ t.parent[n] # n /\ t.parent[n] # c /\ t.parent[n] # g
  BY <1>1, <1>2, Turning
<1>6. /\ t.root \in S \cup {Nil}
      /\ \A x \in S : x # t.root =>
           t.parent[x] \in S /\ \E e \in Sides : t[e][t.parent[x]] = x
      /\ \A x \in S : \A e \in Sides :
           /\ t[e][x] \in S \cup {Nil}
           /\ t[e][x] # Nil => t.parent[t[e][x]] = x /\ t[e][x] # t.root
      /\ \A x \in Cells \ S : \A e \in Sides : t[e][x] = NULL
  BY DEF Shape, Linked
<1>7. ASSUME NEW x \in S, x # r.root
      PROVE  r.parent[x] \in S /\ \E e \in Sides : r[e][r.parent[x]] = x
  <2>1. CASE x = n
    BY <1>2, <1>3, <1>4, <2>1
  <2>2. CASE x = c
    <3>1. n # t.root /\ r.parent[c] = t.parent[n]
      BY <1>3, <1>4, <1>5, <1>7, <2>2
    <3>2. PICK e \in Sides : t[e][t.parent[n]] = n
      BY <1>6, <3>1
    <3>3. r[e][t.parent[n]] = c
      BY <1>3, <1>4, <1>5, <3>1, <3>2
    <3> QED
      BY <1>5, <2>2, <3>1, <3>3
  <2>3. CASE x = g
    <3>1. r.parent[g] = n /\ r[Other(d)][n] = g
      BY <1>2, <1>3, <1>4, <1>5, <2>3, TwoSides
    <3> QED
      BY <1>2, <2>3, <3>1
  <2>4. CASE x # n /\ x # c /\ x # g
    <3>1. x # t.root
      BY <1>3, <1>7, <2>4
    <3>2. PICK e \in Sides : t[e][t.parent[x]] = x
      BY <1>6, <3>1
    <3>3. r.parent[x] = t.parent[x] /\ t.parent[x] \in S
      BY <1>3, <1>4, <1>6, <2>4, <3>1
    <3>4. r[e][t.parent[x]] = x
      BY <1>1, <1>3, <1>4, <2>4, <3>2, <3>3, TwoSides
    <3> QED
      BY <3>3, <3>4
  <2> QED
    BY <2>1, <2>2, <2>3, <2>4
<1>8. ASSUME NEW x \in S, NEW e \in Sides
      PROVE  /\ r[e][x] \in S \cup {Nil}
             /\ r[e][x] # Nil => r.parent[r[e][x]] = x /\ r[e][x] # r.root
  <2>1. CASE x = c /\ e = d
    BY <1>2, <1>3, <1>4, <1>5, <2>1
  <2>2. CASE x = n /\ e # d
    <3>1. r[e][x] = g
      BY <1>3, <1>4, <1>5, <2>2
    <3>2. g # Nil => g # t.root
      BY <1>1, <1>2, <1>6
    <3> QED
      BY <1>3, <1>4, <1>5, <2>2, <3>1, <3>2
  <2>3. CASE n # t.root /\ x = t.parent[n] /\ t[e][x] = n
    <3>1. r[e][x] = c
      BY <1>3, <1>4, <1>5, <2>3
    <3>2. c # t.root
      BY <1>1, <1>2, <1>4, <1>6
    <3> QED
      BY <1>2, <1>3, <1>4, <1>5, <2>3, <3>1, <3>2
  <2>4. CASE /\ ~(x = c /\ e = d) /\ ~(x = n /\ e # d)
             /\ ~(n # t.root /\ x = t.parent[n] /\ t[e][x] = n)
    <3>1. r[e][x] = t[e][x]
      BY <1>3, <1>4, <2>4
    <3>2. t[e][x] \in S => t[e][x] # n /\ t[e][x] # c /\ t[e][x] # g
      <4>1. t[e][x] # n
        BY <1>4, <1>6, <2>4
      <4>2. ASSUME t[e][x] = c
            PROVE  FALSE
        <5>1. x = n
          BY <1>1, <1>2, <1>4, <1>6, <4>2
        <5>2. e = d /\ t[d][n] # t[Other(d)][n]
          BY <1>1, <1>2, <1>4, <2>4, <4>2, <5>1, Child
        <5> QED
          BY <1>1, <4>2, <5>1, <5>2
      <4>3. ASSUME t[e][x] = g, g \in S
            PROVE  FALSE
        <5>1. x = c
          BY <1>1, <1>2, <1>4, <1>6, <4>3
        <5>2. t[d][c] # t[Other(d)][c]
          BY <1>1, <1>2, <1>4, <4>3, Child
        <5> QED
          BY <1>1, <2>4, <4>3, <5>1, <5>2, TwoSides
      <4> QED
        BY <4>1, <4>2, <4>3
    <3>3. t[e][x] # Nil => t[e][x] # r.root
      BY <1>3, <1>6, <3>2
    <3> QED
      BY <1>3, <1>4, <1>6, <3>1, <3>2, <3>3
  <2> QED
    BY <2>1, <2>2, <2>3, <2>4
<1>9. \A x \in Cells \ S : \A e \in Sides : r[e][x] = NULL
  BY <1>2, <1>3, <1>5, <1>6
<1>10. r.root \in S \cup {Nil}
  BY <1>2, <1>3, <1>6
<1> QED
  BY <1>3, <1>4, <1>7, <1>8, <1>9, <1>10 DEF Linked

LEMMA RotatedShape ==
  ASSUME NEW t, NEW S, NEW sub, Shape(t, S, sub), NEW d \in Sides,
         NEW n \in S, t[Other(d)][n] # Nil, NEW r, Rotates(r, t, d, n)
  PROVE  \E sub2 : Shape(r, S, sub2)
<1>1. PICK c, g, a, f : c = t[Other(d)][n] /\ g = t[d][c] /\ a = t[d][n] /\ f = t[Other(d)][c]
  OBVIOUS
<1>2. c \in S /\ Other(d) \in Sides
  BY <1>1, Child, TwoSides
<1>3. /\ r.root = IF n = t.root THEN c ELSE t.root
      /\ \A e \in Sides : \A x \in Cells : r[e][x] =
           IF x = c /\ e = d THEN n
           ELSE IF x = n /\ e # d THEN g
           ELSE IF n # t.root /\ x = t.parent[n] /\ t[e][x] = n THEN c
           ELSE t[e][x]
  BY <1>1, <1>2, Rotated
<1>4. /\ S \subseteq Keys /\ S \subseteq Cells /\ Nil \notin S /\ Nil \in Cells /\ S \subseteq Int
  BY CellFacts, <1>2 DEF Shape, Linked
<1>5. /\ c # n /\ g # n /\ g # c /\ g \in S \cup {Nil}
      /\ n # t.root => t.parent[n] \in S /\ t.parent[n] # n /\ t.parent[n] # c
  BY <1>1, <1>2, Turning
<1>6. /\ sub[n] = {n} \cup sub[a] \cup sub[c] /\ sub[c] = {c} \cup sub[g] \cup sub[f]
      /\ a # n /\ a # c /\ f # c /\ f # n /\ n \in sub[n] /\ c \in sub[c]
      /\ n \notin sub[c] /\ c \notin sub[a]
      /\ a \in S \cup {Nil} /\ f \in S \cup {Nil}
  <2>1. /\ sub[n] = {n} \cup sub[a] \cup sub[c] /\ a # n /\ n \in sub[n] /\ a \in S \cup {Nil}
        /\ sub[a] \cap sub[c] = {}
    BY <1>1, Child, <1>4
  <2>2. n \notin sub[c] /\ c \in sub[c] /\ a # c
    BY <1>1, <1>2, <1>4, Child
  <2>3. /\ sub[c] = {c} \cup sub[g] \cup sub[f] /\ f # c /\ f \in S \cup {Nil}
        /\ f # Nil => f \in sub[f]
    <3>1. c \in S /\ Other(d) \in Sides
      BY <1>2
    <3> QED
      BY <3>1, <1>1, <1>4, Child
  <2> QED
    BY <1>4, <2>1, <2>2, <2>3
<1>7. PICK sub2 : sub2 = [sub EXCEPT ![c] = sub[n], ![n] = {n} \cup sub[a] \cup sub[g]]
  OBVIOUS
<1>8. sub \in [Cells -> SUBSET S] /\ sub[Nil] = {} /\ sub[t.root] = S /\ t.root \in S \cup {Nil}
  BY DEF Shape, Spans, Linked
<1>9. /\ sub2 \in [Cells -> SUBSET S]
      /\ \A x \in Cells : sub2[x] = IF x = c THEN sub[n]
                                    ELSE IF x = n THEN {n} \cup sub[a] \cup sub[g] ELSE sub[x]
  BY <1>2, <1>4, <1>5, <1>6, <1>7, <1>8, ZenonT(40)
<1>10. sub2[Nil] = {} /\ sub2[r.root] = S
  <2>1. t.root # c
    BY <1>1, <1>2, <1>4 DEF Shape, Linked
  <2> QED
    BY <1>2, <1>3, <1>4, <1>5, <1>8, <1>9, <2>1
<1>11. ASSUME NEW x \in S, NEW e \in Sides, x # n, x # c
       PROVE  sub2[r[e][x]] = sub[t[e][x]]
  <2>1. CASE n # t.root /\ x = t.parent[n] /\ t[e][x] = n
    BY <1>2, <1>3, <1>4, <1>9, <1>11, <2>1
  <2>2. CASE ~(n # t.root /\ x = t.parent[n] /\ t[e][x] = n)
    <3>1. r[e][x] = t[e][x] /\ t[e][x] \in S \cup {Nil}
      BY <1>3, <1>4, <1>11, <2>2 DEF Shape, Linked
    <3>2. t[e][x] # n /\ t[e][x] # c
      <4>1. t.parent[c] = n /\ (t[e][x] # Nil => t.parent[t[e][x]] = x /\ t[e][x] # t.root)
        BY <1>1, <1>2, <1>4 DEF Shape, Linked
      <4> QED
        BY <1>2, <1>4, <1>11, <2>2, <4>1
    <3> QED
      BY <1>4, <1>9, <3>1, <3>2
  <2> QED
    BY <2>1, <2>2
<1>12. /\ r[d][c] = n /\ r[Other(d)][c] = f /\ r[d][n] = a /\ r[Other(d)][n] = g
  BY <1>1, <1>2, <1>3, <1>4, <1>5, TwoSides
<1>13. ASSUME NEW x \in S
       PROVE  sub2[x] = {x} \cup sub2[r["left"][x]] \cup sub2[r["right"][x]]
  <2>1. sub2[x] = {x} \cup sub2[r[d][x]] \cup sub2[r[Other(d)][x]]
    <3>1. CASE x = n
      BY <1>2, <1>4, <1>5, <1>6, <1>9, <1>12, <3>1
    <3>2. CASE x = c
      BY <1>2, <1>4, <1>5, <1>6, <1>9, <1>12, <3>2
    <3>3. CASE x # n /\ x # c
      <4>1. sub[x] = {x} \cup sub[t[d][x]] \cup sub[t[Other(d)][x]]
        BY Child
      <4> QED
        BY <1>2, <1>4, <1>9, <1>11, <3>3, <4>1
    <3> QED
      BY <3>1, <3>2, <3>3
  <2> QED
    BY <2>1 DEF Sides, Other
<1>14. ASSUME NEW x \in S, NEW e \in Sides, NEW y \in sub2[r[e][x]]
       PROVE  Beyond(e, x, y)
  <2>1. \A z \in S : \A s \in Sides : \A w \in sub[t[s][z]] : Beyond(s, z, w)
    BY DEF Shape, Spans
  <2>2. CASE x # n /\ x # c
    BY <1>11, <1>14, <2>1, <2>2
  <2>3. CASE x = n
    <3>1. CASE e = d
      <4>1. r[e][x] = a /\ a \in Cells /\ a # n /\ a # c
        BY <1>4, <1>6, <1>12, <2>3, <3>1
      <4>2. y \in sub[t[d][n]]
        BY <1>1, <1>9, <1>14, <4>1
      <4>3. Beyond(d, n, y)
        BY <2>1, <4>2
      <4> QED
        BY <2>3, <3>1, <4>3
    <3>2. CASE e = Other(d)
      <4>1. r[e][x] = g /\ g \in Cells /\ g # n /\ g # c
        BY <1>4, <1>5, <1>12, <2>3, <3>2
      <4>2. y \in sub[g]
        BY <1>9, <1>14, <4>1
      <4>3. y \in sub[t[Other(d)][n]]
        BY <1>1, <1>6, <4>2
      <4>4. Beyond(Other(d), n, y)
        BY <1>2, <2>1, <4>3
      <4> QED
        BY <2>3, <3>2, <4>4
    <3> QED
      BY <3>1, <3>2, TwoSides
  <2>4. CASE x = c
    <3>1. CASE e = d
      <4>1. y \in {n} \cup sub[a] \cup sub[g]
        BY <1>4, <1>5, <1>9, <1>12, <2>4, <3>1
      <4>2. Beyond(d, c, n)
        BY <1>1, <1>2, <1>4, <1>6, <2>1, BeyondOrder
      <4>3. y \in sub[a] => Beyond(d, n, y)
        BY <1>1, <2>1
      <4>4. y \in sub[g] => Beyond(d, c, y)
        BY <1>1, <1>2, <2>1
      <4>5. y \in S
        BY <1>4, <1>5, <1>6, <1>8, <4>1
      <4> QED
        BY <1>2, <1>4, <2>4, <3>1, <4>1, <4>2, <4>3, <4>4, <4>5, BeyondOrder
    <3>2. CASE e = Other(d)
      <4>1. r[e][x] = f /\ f \in Cells /\ f # n /\ f # c
        BY <1>4, <1>6, <1>12, <2>4, <3>2
      <4>2. y \in sub[t[Other(d)][c]]
        BY <1>1, <1>9, <1>14, <4>1
      <4>3. Beyond(Other(d), c, y)
        BY <1>2, <2>1, <4>2
      <4> QED
        BY <2>4, <3>2, <4>3
    <3> QED
      BY <3>1, <3>2, TwoSides
  <2> QED
    BY <2>2, <2>3, <2>4
<1>15. Spans(r, S, sub2)
  BY <1>9, <1>10, <1>13, <1>14 DEF Spans
<1> QED
  BY <1>15, RotatedLinked DEF Shape

(* The same rotation, told pointer by pointer. *)
LEMMA Around ==
  ASSUME NEW t, NEW S, NEW sub, Shape(t, S, sub), NEW d \in Sides,
         NEW n \in S, NEW c \in S, c = t[Other(d)][n],
         NEW g, g = t[d][c], NEW r, Rotates(r, t, d, n)
  PROVE  /\ r.color = t.color /\ r.root = IF n = t.root THEN c ELSE t.root
         /\ r[d][c] = n /\ r[Other(d)][c] = t[Other(d)][c]
         /\ r[d][n] = t[d][n] /\ r[Other(d)][n] = g
         /\ r.parent[n] = c /\ r.parent[c] = t.parent[n]
         /\ g # Nil => r.parent[g] = n
         /\ \A x \in Cells : x # n /\ x # c /\ (x # g \/ g = Nil) => r.parent[x] = t.parent[x]
         /\ \A x \in S : \A e \in Sides : x # n /\ x # c =>
              r[e][x] = (IF t[e][x] = n THEN c ELSE t[e][x]) /\ t[e][x] # c
<1>1. /\ r.color = t.color
      /\ r.root = IF n = t.root THEN c ELSE t.root
      /\ \A x \in Cells : r.parent[x] =
           IF x = n THEN c
           ELSE IF x = c THEN t.parent[n]
           ELSE IF x = g /\ g # Nil THEN n
           ELSE t.parent[x]
      /\ \A e \in Sides : \A x \in Cells : r[e][x] =
           IF x = c /\ e = d THEN n
           ELSE IF x = n /\ e # d THEN g
           ELSE IF n # t.root /\ x = t.parent[n] /\ t[e][x] = n THEN c
           ELSE t[e][x]
  BY Rotated
<1>2. S \subseteq Cells /\ Nil \notin S /\ Other(d) \in Sides /\ Other(d) # d
  BY CellFacts, TwoSides DEF Shape, Linked
<1>3. /\ c # n /\ g # n /\ g # c /\ g \in S \cup {Nil}
      /\ n # t.root => t.parent[n] \in S /\ t.parent[n] # n /\ t.parent[n] # c /\ t.parent[n] # g
  BY Turning
<1>4. ASSUME NEW x \in S, NEW e \in Sides, x # n, x # c
      PROVE  r[e][x] = (IF t[e][x] = n THEN c ELSE t[e][x]) /\ t[e][x] # c
  <2>1. t.parent[c] = n /\ (t[e][x] # Nil => t.parent[t[e][x]] = x /\ t[e][x] # t.root)
    BY <1>2 DEF Shape, Linked
  <2>2. t[e][x] # c
    BY <1>2, <1>4, <2>1
  <2>3. t[e][x] = n => n # t.root /\ x = t.parent[n]
    BY <1>2, <2>1
  <2> QED
    BY <1>1, <1>2, <1>4, <2>2, <2>3
<1>5. /\ r[d][c] = n /\ r[Other(d)][n] = g
      /\ r.parent[n] = c /\ r.parent[c] = t.parent[n]
      /\ g # Nil => r.parent[g] = n
      /\ \A x \in Cells : x # n /\ x # c /\ (x # g \/ g = Nil) => r.parent[x] = t.parent[x]
  BY <1>1, <1>2, <1>3
<1>6. r[Other(d)][c] = t[Other(d)][c] /\ r[d][n] = t[d][n]
  BY <1>1, <1>2, <1>3
<1> QED
  BY <1>1, <1>4, <1>5, <1>6

(* Colors are not pointers. *)
LEMMA PaintedShape ==
  ASSUME NEW t, NEW S, NEW sub, Shape(t, S, sub), NEW x \in Cells, NEW col \in Colors,
         NEW r, Paints(r, t, x, col)
  PROVE  /\ Shape(r, S, sub)
         /\ r.root = t.root /\ r.parent = t.parent
         /\ \A d \in Sides : r[d] = t[d]
         /\ \A z \in Cells : r.color[z] = IF z = x THEN col ELSE t.color[z]
<1>1. t \in Trees
  BY DEF Shape, Linked
<1>2. /\ r \in Trees /\ r.root = t.root /\ r.parent = t.parent
      /\ \A z \in Cells : r.color[z] = IF z = x THEN col ELSE t.color[z]
      /\ \A d \in Sides : r[d] = t[d]
  BY <1>1, Painted
<1>3. Linked(r, S)
  BY <1>2 DEF Shape, Linked
<1>4. Spans(r, S, sub)
  BY <1>2 DEF Shape, Spans, Sides
<1> QED
  BY <1>2, <1>3, <1>4 DEF Shape

-----------------------------------------------------------------------------
(* The colors *)

(* What a node adds to the black nodes from it down, and what the child c of x
   has too few while the current node nd of a deletion is c. *)
Weight(t, x) == IF t.color[x] = "black" THEN 1 ELSE 0

Owed(t, nd, del, x, c) == IF del /\ c = nd /\ x = t.parent[nd] THEN 1 ELSE 0

(* From the node x down there are bh[x] black nodes, on every way. *)
Heights(t, S, bh, nd, del) ==
  /\ bh \in [Cells -> Nat \ {0}] /\ bh[Nil] = 1
  /\ \A x \in S : \A d \in Sides :
       bh[x] = bh[t[d][x]] + Owed(t, nd, del, x, t[d][x]) + Weight(t, x)

(* A red node other than the root with a red parent. *)
RedPair(t, k) == k # t.root /\ t.color[k] = "red" /\ t.color[t.parent[k]] = "red"

Settled(t, S, bh) ==
  /\ Heights(t, S, bh, Nil, FALSE)
  /\ t.color[Nil] = "black" /\ t.color[t.root] = "black"
  /\ \A k \in S : ~RedPair(t, k)

Inserting(t, S, bh, nd) ==
  /\ Heights(t, S, bh, Nil, FALSE)
  /\ t.color[Nil] = "black"
  /\ nd \in S /\ t.color[nd] = "red"
  /\ t.color[t.root] = "red" => t.root = nd
  /\ \A k \in S : RedPair(t, k) => k = nd

Deleting(t, S, bh, nd) ==
  /\ Heights(t, S, bh, nd, TRUE)
  /\ t.color[Nil] = "black"
  /\ nd \in S \cup {Nil} /\ t.root \in S
  /\ t.color[t.root] = "red" => t.root = nd
  /\ \A k \in S : RedPair(t, k) => nd \in {k, t.parent[k]}
  /\ nd # t.root => /\ t.parent[nd] \in S
                    /\ \E d \in Sides : /\ t[d][t.parent[nd]] = nd
                                        /\ t[Other(d)][t.parent[nd]] # nd

PlainHeights(t, S, bh) ==
  /\ bh \in [Cells -> Nat \ {0}] /\ bh[Nil] = 1
  /\ \A x \in S : \A d \in Sides : bh[x] = bh[t[d][x]] + Weight(t, x)

LEMMA NothingOwed ==
  ASSUME NEW t, NEW S, NEW sub, Shape(t, S, sub), NEW bh, NEW nd
  PROVE  Heights(t, S, bh, nd, FALSE) <=> PlainHeights(t, S, bh)
<1> SUFFICES ASSUME bh \in [Cells -> Nat \ {0}]
             PROVE  Heights(t, S, bh, nd, FALSE) <=> PlainHeights(t, S, bh)
  BY DEF Heights, PlainHeights
<1>1. ASSUME NEW x \in S, NEW d \in Sides
      PROVE  bh[t[d][x]] + Owed(t, nd, FALSE, x, t[d][x]) + Weight(t, x)
               = bh[t[d][x]] + Weight(t, x)
  <2>1. t[d][x] \in Cells
    BY Child, CellFacts
  <2>2. PICK a \in Nat : a = bh[t[d][x]]
    BY <2>1
  <2>3. PICK w \in Nat : w = Weight(t, x)
    BY DEF Weight
  <2>4. Owed(t, nd, FALSE, x, t[d][x]) = 0
    BY DEF Owed
  <2>5. a + 0 + w = a + w
    OBVIOUS
  <2> QED
    BY <2>2, <2>3, <2>4, <2>5, Zenon
<1> QED
  BY <1>1 DEF Heights, PlainHeights

HeightsAt(t, X, bh, nd, del) ==
  \A x \in X : \A d \in Sides :
    bh[x] = bh[t[d][x]] + Owed(t, nd, del, x, t[d][x]) + Weight(t, x)

SameBut(bh2, bh, n, c) == \A x \in Cells : x # n /\ x # c => bh2[x] = bh[x]

(* After a rotation only the heights of the two nodes are left to compare. *)
LEMMA TurnedHeights ==
  ASSUME NEW t, NEW S, NEW sub, Shape(t, S, sub), NEW d \in Sides,
         NEW n \in S, NEW c \in S, c = t[Other(d)][n], NEW r, Rotates(r, t, d, n),
         NEW bh, NEW bh2 \in [Cells -> Nat \ {0}], NEW del, NEW nd \in Cells, nd # n, nd # c,
         bh2[Nil] = 1, bh2[c] = bh[n], SameBut(bh2, bh, n, c),
         HeightsAt(t, S \ {n, c}, bh, nd, del), HeightsAt(r, {n, c}, bh2, nd, del)
  PROVE  Heights(r, S, bh2, nd, del)
<1>0. /\ \A x \in Cells : x # n /\ x # c => bh2[x] = bh[x]
      /\ \A x \in S : \A e \in Sides : x # n /\ x # c =>
           bh[x] = bh[t[e][x]] + Owed(t, nd, del, x, t[e][x]) + Weight(t, x)
      /\ \A x \in {n, c} : \A e \in Sides :
           bh2[x] = bh2[r[e][x]] + Owed(r, nd, del, x, r[e][x]) + Weight(r, x)
  BY DEF SameBut, HeightsAt
<1>1. PICK g : g = t[d][c]
  OBVIOUS
<1>2. /\ r.color = t.color
      /\ r.parent[n] = c /\ r.parent[c] = t.parent[n]
      /\ g # Nil => r.parent[g] = n
      /\ \A x \in Cells : x # n /\ x # c /\ (x # g \/ g = Nil) => r.parent[x] = t.parent[x]
      /\ \A x \in S : \A e \in Sides : x # n /\ x # c =>
           r[e][x] = (IF t[e][x] = n THEN c ELSE t[e][x]) /\ t[e][x] # c
  BY <1>1, Around
<1>3. g # Nil => t.parent[g] = c
  BY <1>1 DEF Shape, Linked
<1>4. ASSUME NEW x \in S, NEW e \in Sides, x # n, x # c
      PROVE  bh2[x] = bh2[r[e][x]] + Owed(r, nd, del, x, r[e][x]) + Weight(r, x)
  <2>1. t[e][x] \in Cells /\ x \in Cells
    BY Child, CellFacts
  <2>2. Weight(r, x) = Weight(t, x) /\ bh2[x] = bh[x]
    BY <1>0, <1>2, <1>4, <2>1 DEF Weight
  <2>3. bh2[r[e][x]] = bh[t[e][x]]
    BY <1>0, <1>2, <1>4, <2>1
  <2>4. Owed(r, nd, del, x, r[e][x]) = Owed(t, nd, del, x, t[e][x])
    <3>1. r.parent[nd] = x <=> t.parent[nd] = x
      BY <1>2, <1>3, <1>4
    <3>2. r[e][x] = nd <=> t[e][x] = nd
      BY <1>2, <1>4
    <3> QED
      BY <3>1, <3>2 DEF Owed
  <2> QED
    BY <1>0, <1>4, <2>2, <2>3, <2>4
<1>5. ASSUME NEW x \in S, NEW e \in Sides
      PROVE  bh2[x] = bh2[r[e][x]] + Owed(r, nd, del, x, r[e][x]) + Weight(r, x)
  BY <1>0, <1>4
<1> QED
  BY <1>5 DEF Heights

-----------------------------------------------------------------------------
(* Inserting *)

LEMMA Under ==
  ASSUME NEW t, NEW S, NEW sub, Shape(t, S, sub), NEW x \in S, x # t.root,
         NEW p, p = t.parent[x], NEW d, d = SideOf(t, x)
  PROVE  /\ p \in S /\ p # x /\ d \in Sides /\ t[d][p] = x /\ t[Other(d)][p] # x
         /\ t[Other(d)][p] \in S \cup {Nil}
<1>1. p \in S /\ \E e \in Sides : t[e][p] = x
  BY DEF Shape, Linked
<1>2. d \in Sides /\ t[d][p] = x
  BY <1>1 DEF SideOf, Sides
<1>3. Other(d) \in Sides /\ Nil \notin S
  BY <1>2, TwoSides, CellFacts DEF Shape, Linked
<1> QED
  BY <1>1, <1>2, <1>3, Child

(* The parent of a red node with a red parent is below a black node. *)
LEMMA RedParent ==
  ASSUME NEW t, NEW S, NEW sub, Shape(t, S, sub), NEW bh, NEW nd, Inserting(t, S, bh, nd),
         nd # t.root, t.color[t.parent[nd]] = "red", NEW p, p = t.parent[nd]
  PROVE  /\ p \in S /\ p # t.root /\ p # nd
         /\ t.parent[p] \in S /\ t.parent[p] # p /\ t.color[t.parent[p]] = "black"
<1>1. p \in S /\ p # nd
  BY Under DEF Inserting
<1>2. p # t.root
  BY <1>1 DEF Inserting
<1>3. t.parent[p] \in S /\ t.parent[p] # p
  BY <1>1, <1>2, Under
<1>4. t.color[t.parent[p]] # "red"
  BY <1>1, <1>2 DEF Inserting, RedPair
<1>5. t.color[t.parent[p]] \in Colors
  <2>1. t \in Trees /\ S \subseteq Cells
    BY CellFacts DEF Shape, Linked
  <2> QED
    BY <1>3, <2>1, Fields
<1> QED
  BY <1>1, <1>2, <1>3, <1>4, <1>5 DEF Colors

(* Case 1: the grandparent is the next node. *)
LEMMA Recolored ==
  ASSUME NEW t, NEW S, NEW sub, Shape(t, S, sub), NEW bh, NEW nd, Inserting(t, S, bh, nd),
         nd # t.root, NEW p, p = t.parent[nd], t.color[p] = "red",
         NEW g, g = t.parent[p], NEW d \in Sides, t[d][g] = p,
         NEW u, u = t[Other(d)][g], t.color[u] = "red",
         NEW t1, Paints(t1, t, u, "black"), NEW t2, Paints(t2, t1, p, "black"),
         NEW r, Paints(r, t2, g, "red")
  PROVE  Shape(r, S, sub) /\ \E bh2 : Inserting(r, S, bh2, g)
<1>1. /\ p \in S /\ p # t.root /\ p # nd /\ g \in S /\ g # p /\ t.color[g] = "black"
  BY RedParent
<1>2. /\ Nil \notin S /\ S \subseteq Cells /\ Other(d) \in Sides /\ Nil \in Cells
      /\ "red" \in Colors /\ "black" \in Colors
  BY CellFacts, TwoSides DEF Shape, Linked, Colors
<1>3. u \in S /\ u # g /\ u # p
  <2>1. u # Nil
    BY DEF Inserting
  <2> QED
    BY <1>1, <1>2, <2>1, Child
<1>4. Shape(t1, S, sub) /\ t1.root = t.root /\ t1.parent = t.parent
      /\ (\A e \in Sides : t1[e] = t[e])
      /\ \A z \in Cells : t1.color[z] = IF z = u THEN "black" ELSE t.color[z]
  BY <1>2, <1>3, PaintedShape
<1>5. Shape(t2, S, sub) /\ t2.root = t1.root /\ t2.parent = t1.parent
      /\ (\A e \in Sides : t2[e] = t1[e])
      /\ \A z \in Cells : t2.color[z] = IF z = p THEN "black" ELSE t1.color[z]
  BY <1>1, <1>2, <1>4, PaintedShape
<1>6. Shape(r, S, sub) /\ r.root = t2.root /\ r.parent = t2.parent
      /\ (\A e \in Sides : r[e] = t2[e])
      /\ \A z \in Cells : r.color[z] = IF z = g THEN "red" ELSE t2.color[z]
  BY <1>1, <1>2, <1>5, PaintedShape
<1>7. /\ r.root = t.root /\ r.parent = t.parent /\ \A e \in Sides : r[e] = t[e]
      /\ \A z \in Cells : r.color[z] = IF z = g THEN "red"
                                       ELSE IF z \in {p, u} THEN "black" ELSE t.color[z]
  BY <1>4, <1>5, <1>6
<1>8. /\ bh \in [Cells -> Nat \ {0}] /\ bh[Nil] = 1
      /\ \A x \in S : \A e \in Sides : t[e][x] \in Cells /\ bh[x] = bh[t[e][x]] + Weight(t, x)
  <2>1. \A x \in S : \A e \in Sides : t[e][x] \in Cells
    BY <1>2, Child, CellFacts
  <2>2. PlainHeights(t, S, bh)
    BY NothingOwed DEF Inserting
  <2> QED
    BY <2>1, <2>2 DEF PlainHeights
<1>9. PICK bh2 : bh2 = [bh EXCEPT ![p] = @ + 1, ![u] = @ + 1]
  OBVIOUS
<1>10. /\ bh2 \in [Cells -> Nat \ {0}] /\ bh2[Nil] = 1
       /\ \A z \in Cells : bh2[z] = IF z \in {p, u} THEN bh[z] + 1 ELSE bh[z]
  <2>1. /\ p \in Cells /\ u \in Cells /\ u # p /\ Nil # p /\ Nil # u
        /\ bh[p] + 1 \in Nat \ {0} /\ bh[u] + 1 \in Nat \ {0}
    <3>1. p \in Cells /\ u \in Cells /\ u # p /\ Nil # p /\ Nil # u
      BY <1>1, <1>2, <1>3
    <3>2. bh[p] \in Nat /\ bh[u] \in Nat
      BY <1>8, <3>1
    <3>3. \A i \in Nat : i + 1 \in Nat \ {0}
      OBVIOUS
    <3> QED
      BY <3>1, <3>2, <3>3, Zenon
  <2> QED
    BY <1>2, <1>8, <1>9, <2>1, Zenon
<1>11. ASSUME NEW x \in S, NEW e \in Sides
       PROVE  bh2[x] = bh2[r[e][x]] + Weight(r, x)
  <2>1. t[e][x] \in Cells /\ (t[e][x] # Nil => t.parent[t[e][x]] = x) /\ x \in Cells
    BY <1>2 DEF Shape, Linked
  <2>2. t.parent[p] = g /\ t.parent[u] = g
    BY <1>1, <1>2, <1>3 DEF Shape, Linked
  <2>3. bh[x] \in Nat /\ bh[t[e][x]] \in Nat
    BY <1>8, <2>1
  <2>4. bh[x] = bh[t[e][x]] + Weight(t, x) /\ r[e][x] = t[e][x]
    BY <1>7, <1>8
  <2>5. CASE x = g
    <3>1. t[e][x] \in {p, u}
      BY <2>5, TwoSides
    <3> QED
      <4>1. bh2[x] = bh[x] /\ bh2[t[e][x]] = bh[t[e][x]] + 1
        BY <1>1, <1>3, <1>10, <2>1, <2>5, <3>1, Zenon
      <4>2. Weight(t, x) = 1 /\ Weight(r, x) = 0
        BY <1>1, <1>7, <2>1, <2>5 DEF Weight
      <4> QED
        BY <2>3, <2>4, <4>1, <4>2
  <2>6. CASE x # g
    <3>1. t[e][x] \notin {p, u}
      BY <1>1, <1>2, <1>3, <2>1, <2>2, <2>6
    <3> QED
      <4>1. bh2[t[e][x]] = bh[t[e][x]]
        BY <1>10, <2>1, <3>1
      <4>2. CASE x \in {p, u}
        <5>1. Weight(t, x) = 0 /\ Weight(r, x) = 1
          BY <1>2, <1>7, <2>1, <2>6, <4>2 DEF Weight
        <5>2. bh2[x] = bh[x] + 1
          BY <1>10, <2>1, <4>2
        <5> QED
          BY <2>3, <2>4, <4>1, <5>1, <5>2
      <4>3. CASE x \notin {p, u}
        <5>1. Weight(r, x) = Weight(t, x)
          BY <1>7, <2>1, <2>6, <4>3 DEF Weight
        <5>2. bh2[x] = bh[x]
          BY <1>10, <2>1, <4>3
        <5> QED
          BY <2>4, <4>1, <5>1, <5>2
      <4> QED
        BY <4>2, <4>3
  <2> QED
    BY <2>5, <2>6
<1>12. Heights(r, S, bh2, Nil, FALSE)
  <2>1. PlainHeights(r, S, bh2)
    BY <1>10, <1>11 DEF PlainHeights
  <2> QED
    BY <1>6, <2>1, NothingOwed
<1>13. ASSUME NEW k \in S, RedPair(r, k)
       PROVE  k = g
  <2>1. k \notin {p, u} /\ t.parent[k] \notin {p, u} /\ k # t.root /\ t.parent[k] \in S
    BY <1>1, <1>2, <1>3, <1>7, <1>13 DEF RedPair, Shape, Linked
  <2>2. CASE k # g /\ t.parent[k] # g
    <3>1. RedPair(t, k)
      BY <1>2, <1>7, <1>13, <2>1, <2>2 DEF RedPair
    <3>2. k = nd
      BY <3>1 DEF Inserting
    <3> QED
      BY <2>1, <3>2
  <2>3. CASE t.parent[k] = g
    <3>1. k \in {p, u}
      <4>1. k = t[d][g] \/ k = t[Other(d)][g]
        BY <2>1, <2>3, TwoSides DEF Shape, Linked
      <4> QED
        BY <4>1
    <3> QED
      BY <2>1, <3>1
  <2> QED
    BY <2>2, <2>3
<1>14. /\ r.color[Nil] = "black" /\ r.color[g] = "red"
       /\ r.color[r.root] = "red" => r.root = g
  <2>1. t.root \in Cells /\ t.color[Nil] = "black"
    BY <1>2 DEF Inserting, Shape, Linked
  <2>2. t.color[t.root] = "red" => t.root = nd
    BY DEF Inserting
  <2> QED
    BY <1>1, <1>2, <1>3, <1>7, <2>1, <2>2
<1> QED
  BY <1>1, <1>6, <1>12, <1>13, <1>14 DEF Inserting

(* Case 2: the node goes above its parent, and the parent is the next node. *)
LEMMA OuterTurned ==
  ASSUME NEW t, NEW S, NEW sub, Shape(t, S, sub), NEW bh, NEW nd, Inserting(t, S, bh, nd),
         nd # t.root, NEW p, p = t.parent[nd], t.color[p] = "red", NEW g, g = t.parent[p],
         NEW d \in Sides, t[d][g] = p, t[Other(d)][p] = nd, NEW r, Rotates(r, t, d, p)
  PROVE  /\ Inserting(r, S, bh, p)
         /\ r.color = t.color /\ r.root = t.root
         /\ r.parent[p] = nd /\ r.parent[nd] = g
         /\ r[d][nd] = p /\ r[d][g] = nd /\ r[Other(d)][g] = t[Other(d)][g]
<1>1. /\ p \in S /\ p # t.root /\ p # nd /\ g \in S /\ g # p /\ t.color[g] = "black"
  BY RedParent
<1>2. PICK i : i = t[d][nd]
  OBVIOUS
<1>3. /\ Nil \notin S /\ S \subseteq Cells /\ Other(d) \in Sides /\ Nil \in Cells
      /\ nd \in S /\ t.color[nd] = "red" /\ t.color[Nil] = "black"
  BY CellFacts, TwoSides DEF Shape, Linked, Inserting
<1>4. /\ r.color = t.color /\ r.root = t.root
      /\ r[d][nd] = p /\ r[Other(d)][nd] = t[Other(d)][nd]
      /\ r[d][p] = t[d][p] /\ r[Other(d)][p] = i
      /\ r.parent[p] = nd /\ r.parent[nd] = t.parent[p]
      /\ i # Nil => r.parent[i] = p
      /\ \A x \in Cells : x # p /\ x # nd /\ (x # i \/ i = Nil) => r.parent[x] = t.parent[x]
      /\ \A x \in S : \A e \in Sides : x # p /\ x # nd =>
           r[e][x] = (IF t[e][x] = p THEN nd ELSE t[e][x]) /\ t[e][x] # nd
  BY <1>1, <1>2, <1>3, Around
<1>5. g # nd /\ t[Other(d)][g] # p
  <2>1. g # nd
    BY <1>1, <1>3, Turning
  <2>2. p # Nil
    BY <1>1, <1>3
  <2> QED
    BY <1>1, <1>3, <2>1, <2>2, Child
<1>6. r[d][g] = nd /\ r[Other(d)][g] = t[Other(d)][g]
  BY <1>1, <1>3, <1>4, <1>5
<1>7. /\ bh \in [Cells -> Nat \ {0}] /\ bh[Nil] = 1
      /\ \A x \in S : \A e \in Sides : t[e][x] \in Cells /\ bh[x] = bh[t[e][x]] + Weight(t, x)
  <2>1. \A x \in S : \A e \in Sides : t[e][x] \in Cells
    BY <1>3, Child, CellFacts
  <2>2. PlainHeights(t, S, bh)
    BY NothingOwed DEF Inserting
  <2> QED
    BY <2>1, <2>2 DEF PlainHeights
<1>8. PICK sub2 : Shape(r, S, sub2)
  BY <1>1, <1>3, RotatedShape
<1>9. PlainHeights(r, S, bh)
  <2>1. bh[p] = bh[nd]
    BY <1>1, <1>3, <1>7 DEF Weight
  <2>2. ASSUME NEW x \in S, NEW e \in Sides
        PROVE  bh[x] = bh[r[e][x]] + Weight(r, x)
    <3>1. bh[x] = bh[t[e][x]] + Weight(t, x) /\ Weight(r, x) = Weight(t, x)
      BY <1>4, <1>7 DEF Weight
    <3>2. CASE x # p /\ x # nd
      BY <1>4, <2>1, <3>1, <3>2
    <3>3. CASE x = p
      <4>1. bh[r[e][x]] = bh[t[e][x]]
        <5>1. e = d \/ e = Other(d)
          BY TwoSides
        <5>2. Weight(t, nd) = 0
          BY <1>3 DEF Weight
        <5>3. bh[i] = bh[nd]
          BY <1>2, <1>3, <1>7, <5>2
        <5> QED
          BY <1>3, <1>4, <2>1, <3>3, <5>1, <5>3
      <4> QED
        BY <3>1, <4>1
    <3>4. CASE x = nd
      <4>1. bh[r[e][x]] = bh[t[e][x]]
        <5>1. e = d \/ e = Other(d)
          BY TwoSides
        <5>2. Weight(t, nd) = 0
          BY <1>3 DEF Weight
        <5>3. bh[i] = bh[nd]
          BY <1>2, <1>3, <1>7, <5>2
        <5> QED
          BY <1>2, <1>3, <1>4, <2>1, <3>4, <5>1, <5>3
      <4> QED
        BY <3>1, <4>1
    <3> QED
      BY <3>2, <3>3, <3>4
  <2> QED
    BY <1>7, <2>2 DEF PlainHeights
<1>10. ASSUME NEW k \in S, RedPair(r, k)
       PROVE  k = p
  <2>1. k # nd
    BY <1>1, <1>4, <1>10 DEF RedPair
  <2>2. CASE k = i
    <3>1. t.parent[i] = nd /\ i # t.root
      BY <1>2, <1>3, <2>2 DEF Shape, Linked
    <3>2. RedPair(t, k)
      BY <1>3, <1>4, <1>10, <2>2, <3>1 DEF RedPair
    <3> QED
      BY <2>1, <3>2 DEF Inserting
  <2>3. CASE k # p /\ k # i
    <3>1. RedPair(t, k)
      BY <1>3, <1>4, <1>10, <2>1, <2>3 DEF RedPair
    <3> QED
      BY <2>1, <3>1 DEF Inserting
  <2> QED
    BY <2>2, <2>3
<1>11. Heights(r, S, bh, Nil, FALSE)
  BY <1>8, <1>9, NothingOwed
<1>12. t.color[t.root] = "red" => t.root = nd
  BY DEF Inserting
<1>13. Inserting(r, S, bh, p)
  BY <1>1, <1>3, <1>4, <1>10, <1>11, <1>12 DEF Inserting
<1> QED
  BY <1>4, <1>6, <1>13

(* A red parent p of nd, its parent g and the black child of g on the other side. *)
Straight(t, d, g, p, nd) ==
  /\ nd # t.root /\ p = t.parent[nd] /\ g = t.parent[p] /\ t[d][g] = p /\ t[d][p] = nd
  /\ t.color[p] = "red" /\ t.color[t[Other(d)][g]] = "black"

(* Case 3: the parent takes the place and the color of the grandparent. *)
LEMMA StraightTurned ==
  ASSUME NEW t, NEW S, NEW sub, Shape(t, S, sub), NEW bh, NEW nd, Inserting(t, S, bh, nd),
         NEW p, NEW g, NEW d \in Sides, Straight(t, d, g, p, nd),
         NEW t1, Paints(t1, t, p, "black"), NEW t2, Paints(t2, t1, g, "red"),
         NEW r, Rotates(r, t2, Other(d), g)
  PROVE  \E sub2, bh2 : Shape(r, S, sub2) /\ Inserting(r, S, bh2, nd)
<1>0. /\ nd # t.root /\ t.parent[nd] = p /\ t.parent[p] = g /\ t[d][g] = p /\ t[d][p] = nd
      /\ t.color[p] = "red" /\ t.color[t[Other(d)][g]] = "black"
  BY DEF Straight
<1>1. /\ p \in S /\ p # t.root /\ p # nd /\ g \in S /\ g # p /\ t.color[g] = "black"
  BY <1>0, RedParent
<1>2. PICK i, u, f : i = t[Other(d)][p] /\ u = t[Other(d)][g] /\ f = Other(d)
  OBVIOUS
<1>3. /\ Nil \notin S /\ S \subseteq Cells /\ f \in Sides /\ Nil \in Cells /\ Other(f) = d
      /\ nd \in S /\ t.color[nd] = "red" /\ t.color[Nil] = "black"
      /\ "red" \in Colors /\ "black" \in Colors /\ (\A e \in Sides : e = d \/ e = f) /\ f # d
  BY <1>2, CellFacts, TwoSides DEF Shape, Linked, Inserting, Colors
<1>4. Shape(t1, S, sub) /\ t1.root = t.root /\ t1.parent = t.parent
      /\ (\A e \in Sides : t1[e] = t[e])
      /\ \A z \in Cells : t1.color[z] = IF z = p THEN "black" ELSE t.color[z]
  BY <1>1, <1>3, PaintedShape
<1>5. Shape(t2, S, sub) /\ t2.root = t1.root /\ t2.parent = t1.parent
      /\ (\A e \in Sides : t2[e] = t1[e])
      /\ \A z \in Cells : t2.color[z] = IF z = g THEN "red" ELSE t1.color[z]
  BY <1>1, <1>3, <1>4, PaintedShape
<1>6. /\ t2.root = t.root /\ t2.parent = t.parent /\ \A e \in Sides : t2[e] = t[e]
      /\ \A z \in Cells : t2.color[z] =
           IF z = g THEN "red" ELSE IF z = p THEN "black" ELSE t.color[z]
  BY <1>4, <1>5
<1>7. p = t2[Other(f)][g] /\ i = t2[f][p] /\ Rotates(r, t2, f, g)
  BY <1>0, <1>2, <1>3, <1>6
<1>8. /\ r.color = t2.color /\ r.root = IF g = t2.root THEN p ELSE t2.root
      /\ r[f][p] = g /\ r[Other(f)][p] = t2[Other(f)][p]
      /\ r[f][g] = t2[f][g] /\ r[Other(f)][g] = i
      /\ r.parent[g] = p /\ r.parent[p] = t2.parent[g]
      /\ i # Nil => r.parent[i] = g
      /\ \A x \in Cells : x # g /\ x # p /\ (x # i \/ i = Nil) => r.parent[x] = t2.parent[x]
  <2>1. Shape(t2, S, sub)
    BY <1>5
  <2>2. f \in Sides /\ g \in S /\ p \in S
    BY <1>1, <1>3
  <2> QED
    BY <1>7, <2>1, <2>2, Around, SMTT(40)
<1>9. /\ r[f][p] = g /\ r[d][p] = nd /\ r[f][g] = u /\ r[d][g] = i
      /\ r.parent[g] = p /\ r.parent[p] = t.parent[g]
      /\ i # Nil => r.parent[i] = g
      /\ \A x \in Cells : x # g /\ x # p /\ (x # i \/ i = Nil) => r.parent[x] = t.parent[x]
      /\ \A z \in Cells : r.color[z] =
           IF z = g THEN "red" ELSE IF z = p THEN "black" ELSE t.color[z]
      /\ r.root = IF g = t.root THEN p ELSE t.root
  BY <1>0, <1>2, <1>3, <1>6, <1>8
<1>10. PICK sub2 : Shape(r, S, sub2)
  <2>1. t2[Other(f)][g] # Nil
    BY <1>1, <1>3, <1>7
  <2> QED
    BY <1>1, <1>3, <1>5, <1>7, <2>1, RotatedShape
<1>11. /\ nd # g /\ i # g /\ u # p /\ u # nd /\ nd # i /\ i # p /\ i \in Cells /\ u \in Cells
  <2>1. nd # g
    BY <1>1, <1>3, Under, Turning
  <2>2. nd # i /\ i # p /\ i \in Cells
    <3>1. i \in S \cup {Nil} /\ t[d][p] # i /\ i # p
      BY <1>0, <1>1, <1>2, <1>3, Child
    <3> QED
      BY <1>0, <1>3, <3>1
  <2>3. i # g
    BY <1>0, <1>1, <1>2, <1>3, Turning
  <2>4. u # p /\ u \in Cells
    <3>1. u \in S \cup {Nil} /\ t[d][g] # u
      BY <1>0, <1>1, <1>2, <1>3, Child
    <3> QED
      BY <1>0, <1>3, <3>1
  <2>5. u # nd
    <3>1. u = nd => t.parent[nd] = g
      BY <1>0, <1>1, <1>2, <1>3 DEF Shape, Linked
    <3> QED
      BY <1>0, <1>1, <3>1
  <2> QED
    BY <2>1, <2>2, <2>3, <2>4, <2>5
<1>12. /\ bh \in [Cells -> Nat \ {0}] /\ bh[Nil] = 1
       /\ \A x \in S : \A e \in Sides : t[e][x] \in Cells /\ bh[x] = bh[t[e][x]] + Weight(t, x)
  <2>1. \A x \in S : \A e \in Sides : t[e][x] \in Cells
    BY <1>3, Child, CellFacts
  <2>2. PlainHeights(t, S, bh)
    BY NothingOwed DEF Inserting
  <2> QED
    BY <2>1, <2>2 DEF PlainHeights
<1>13. PICK h \in Nat \ {0} : h = bh[p]
  BY <1>1, <1>3, <1>12
<1>14. bh[nd] = h /\ bh[i] = h /\ bh[u] = h /\ bh[g] = h + 1
  <2>1. Weight(t, p) = 0 /\ Weight(t, g) = 1
    BY <1>0, <1>1, <1>3 DEF Weight
  <2>2. bh[nd] \in Nat /\ bh[i] \in Nat /\ bh[u] \in Nat
    BY <1>1, <1>3, <1>11, <1>12
  <2>3. /\ bh[p] = bh[nd] + Weight(t, p) /\ bh[p] = bh[i] + Weight(t, p)
        /\ bh[g] = bh[p] + Weight(t, g) /\ bh[g] = bh[u] + Weight(t, g)
    BY <1>0, <1>1, <1>2, <1>3, <1>12
  <2> QED
    BY <1>13, <2>1, <2>2, <2>3
<1>15. PICK bh2 : bh2 = [bh EXCEPT ![p] = h + 1, ![g] = h]
  OBVIOUS
<1>16. /\ bh2 \in [Cells -> Nat \ {0}]
       /\ \A z \in Cells : bh2[z] = IF z = g THEN h ELSE IF z = p THEN h + 1 ELSE bh[z]
  <2>1. h + 1 \in Nat \ {0} /\ p \in Cells /\ g \in Cells
    BY <1>1, <1>3
  <2> QED
    BY <1>12, <1>15, <2>1
<1>17. Heights(r, S, bh2, Nil, FALSE)
  <2>1. bh2[Nil] = 1 /\ bh2[p] = bh[g]
    BY <1>1, <1>3, <1>12, <1>14, <1>16
  <2>2. SameBut(bh2, bh, g, p)
    BY <1>16 DEF SameBut
  <2>3. ASSUME NEW x \in S, NEW e \in Sides, x # g, x # p
        PROVE  bh[x] = bh[t2[e][x]] + Owed(t2, Nil, FALSE, x, t2[e][x]) + Weight(t2, x)
    <3>1. bh[x] = bh[t2[e][x]] + Weight(t2, x) /\ bh[t2[e][x]] \in Nat
      BY <1>3, <1>6, <1>12, <2>3 DEF Weight
    <3> QED
      BY <3>1 DEF Owed, Weight
  <2>4. ASSUME NEW x \in {g, p}, NEW e \in Sides
        PROVE  bh2[x] = bh2[r[e][x]] + Owed(r, Nil, FALSE, x, r[e][x]) + Weight(r, x)
    <3>1. Owed(r, Nil, FALSE, x, r[e][x]) = 0
      BY DEF Owed
    <3>2. /\ Weight(r, g) = 0 /\ Weight(r, p) = 1
      BY <1>1, <1>3, <1>9 DEF Weight
    <3>3. bh2[u] = h /\ bh2[i] = h /\ bh2[nd] = h /\ bh2[g] = h /\ bh2[p] = h + 1
      BY <1>1, <1>3, <1>11, <1>14, <1>16, CellFacts DEF Shape, Linked
    <3>4. bh2[x] = bh2[r[e][x]] + Weight(r, x) /\ bh2[r[e][x]] = h
      BY <1>1, <1>3, <1>9, <3>2, <3>3
    <3>5. h = h + 0 + 0 /\ h + 1 = h + 0 + 1
      OBVIOUS
    <3> QED
      BY <3>1, <3>2, <3>3, <3>4, <3>5
  <2>8. HeightsAt(t2, S \ {g, p}, bh, Nil, FALSE) /\ HeightsAt(r, {g, p}, bh2, Nil, FALSE)
    BY <2>3, <2>4 DEF HeightsAt
  <2>5. Nil # g /\ Nil # p
    BY <1>1, <1>3
  <2>6. Shape(t2, S, sub) /\ bh2 \in [Cells -> Nat \ {0}]
    BY <1>5, <1>16
  <2>7. f \in Sides /\ g \in S /\ p \in S /\ Nil \in Cells
    BY <1>1, <1>3
  <2>9. PICK del : del = FALSE
    OBVIOUS
  <2>10. HeightsAt(t2, S \ {g, p}, bh, Nil, del) /\ HeightsAt(r, {g, p}, bh2, Nil, del)
    BY <2>8, <2>9
  <2>11. Heights(r, S, bh2, Nil, del)
    BY <1>7, <2>1, <2>2, <2>5, <2>6, <2>7, <2>10, TurnedHeights, SMTT(40)
  <2> QED
    BY <2>9, <2>11
<1>18. ASSUME NEW k \in S, RedPair(r, k)
       PROVE  k = nd
  <2>1. k # p
    BY <1>1, <1>3, <1>9, <1>18 DEF RedPair
  <2>2. k # g
    BY <1>1, <1>3, <1>9, <1>18 DEF RedPair
  <2>3. CASE k = i
    <3>1. t.parent[i] = p /\ i # t.root
      BY <1>1, <1>2, <1>3, <2>3 DEF Shape, Linked
    <3>2. RedPair(t, k)
      BY <1>0, <1>3, <1>9, <1>11, <1>18, <2>1, <2>2, <2>3, <3>1 DEF RedPair
    <3> QED
      BY <3>2 DEF Inserting
  <2>4. CASE k # i
    <3>1. /\ r.parent[k] = t.parent[k] /\ k # t.root /\ t.parent[k] \in S
          /\ t.color[k] = "red"
      BY <1>3, <1>9, <1>18, <2>1, <2>2, <2>4 DEF RedPair, Shape, Linked
    <3>2. CASE t.parent[k] = g
      <4>1. k = t[d][g] \/ k = t[f][g]
        BY <1>3, <3>1, <3>2 DEF Shape, Linked
      <4> QED
        BY <1>0, <1>2, <2>1, <3>1, <4>1
    <3>3. CASE t.parent[k] # g
      <4>1. RedPair(t, k)
        BY <1>1, <1>3, <1>9, <1>18, <3>1, <3>3 DEF RedPair
      <4> QED
        BY <4>1 DEF Inserting
    <3> QED
      BY <3>2, <3>3
  <2> QED
    BY <2>3, <2>4
<1>19. /\ r.color[Nil] = "black" /\ r.color[nd] = "red"
       /\ r.color[r.root] = "red" => r.root = nd
  <2>1. t.root \in Cells /\ (t.color[t.root] = "red" => t.root = nd)
    BY <1>3 DEF Inserting, Shape, Linked
  <2> QED
    BY <1>1, <1>3, <1>9, <1>11, <2>1
<1>20. Inserting(r, S, bh2, nd)
  BY <1>3, <1>17, <1>18, <1>19 DEF Inserting
<1> QED
  BY <1>10, <1>20
(* Cases 2 and 3 together. *)
LEMMA InsertRotateKeeps ==
  ASSUME NEW sub, Shape(tree, keys, sub), NEW bh, Inserting(tree, keys, bh, node), InsertRotate
  PROVE  \E sub2, bh2 : Shape(tree', keys, sub2) /\ Inserting(tree', keys, bh2, node')
<1>1. PICK p, d, g, t, q :
        /\ p = tree.parent[node] /\ d = SideOf(tree, p) /\ g = tree.parent[p]
        /\ t = Outer(tree, node) /\ q = t[d][g]
  OBVIOUS
<1>2. /\ ~AboveRoot /\ tree.color[p] = "red" /\ tree.color[tree[Other(d)][g]] = "black"
      /\ tree' = Rotate(Paint(Paint(t, q, "black"), g, "red"), Other(d), g)
      /\ node' = t[d][q]
  BY <1>1 DEF InsertRotate, Red, Black
<1>3. node \in keys /\ tree.color[Nil] = "black" /\ node # Nil
  BY CellFacts DEF Inserting, Shape, Linked
<1>4. node # tree.root
  BY <1>1, <1>2, <1>3 DEF AboveRoot
<1>5. p \in keys /\ p # tree.root /\ g \in keys /\ g # p
  <2>1. /\ node # tree.root /\ tree.color[tree.parent[node]] = "red"
        /\ p = tree.parent[node] /\ g = tree.parent[p]
    BY <1>1, <1>2, <1>4
  <2> QED
    BY <2>1, RedParent
<1>6. d \in Sides /\ tree[d][g] = p /\ tree[Other(d)][g] # p
  BY <1>1, <1>5, Under
<1>7. tree[d][p] = node \/ tree[Other(d)][p] = node
  <2>1. \E e \in Sides : tree[e][p] = node
    BY <1>1, <1>3, <1>4 DEF Shape, Linked
  <2> QED
    BY <1>6, <2>1, TwoSides
<1>8. PICK t1, t2 : Paints(t1, t, q, "black") /\ Paints(t2, t1, g, "red")
  BY DEF Paints
<1>9. Rotates(tree', t2, Other(d), g)
  BY <1>2, <1>8 DEF Paints, Rotates
<1>10. CASE tree[Other(d)][p] = node
  <2>1. Rotates(t, tree, d, p)
    BY <1>1, <1>10 DEF Rotates, Outer
  <2>2. /\ Inserting(t, keys, bh, p)
        /\ t.color = tree.color /\ t.root = tree.root
        /\ t.parent[p] = node /\ t.parent[node] = g
        /\ t[d][node] = p /\ t[d][g] = node /\ t[Other(d)][g] = tree[Other(d)][g]
    <3>1. /\ node # tree.root /\ p = tree.parent[node] /\ tree.color[p] = "red"
          /\ g = tree.parent[p] /\ d \in Sides /\ tree[d][g] = p
          /\ tree[Other(d)][p] = node /\ Rotates(t, tree, d, p)
      BY <1>1, <1>2, <1>4, <1>6, <1>10, <2>1
    <3> QED
      BY <3>1, OuterTurned
  <2>3. PICK sub1 : Shape(t, keys, sub1)
    BY <1>3, <1>5, <1>6, <1>10, <2>1, RotatedShape
  <2>4. q = node /\ node' = p
    BY <1>1, <1>2, <2>2
  <2>5. tree.color[node] = "red"
    BY DEF Inserting
  <2>6. Straight(t, d, g, node, p)
    BY <1>2, <1>5, <2>2, <2>5 DEF Straight
  <2>7. Paints(t1, t, node, "black")
    BY <1>8, <2>4
  <2>8. \E sub2, bh2 : Shape(tree', keys, sub2) /\ Inserting(tree', keys, bh2, p)
    BY <1>6, <1>8, <1>9, <2>2, <2>3, <2>6, <2>7, StraightTurned
  <2> QED
    BY <2>4, <2>8
<1>11. CASE tree[Other(d)][p] # node
  <2>1. t = tree /\ tree[d][p] = node
    BY <1>1, <1>7, <1>11 DEF Outer
  <2>2. q = p /\ node' = node
    BY <1>1, <1>2, <1>6, <2>1
  <2>3. Straight(tree, d, g, p, node)
    BY <1>1, <1>2, <1>4, <1>6, <2>1 DEF Straight
  <2>4. Paints(t1, tree, p, "black")
    BY <1>8, <2>1, <2>2
  <2>5. \E sub2, bh2 : Shape(tree', keys, sub2) /\ Inserting(tree', keys, bh2, node)
    BY <1>6, <1>8, <1>9, <2>3, <2>4, StraightTurned
  <2> QED
    BY <2>2, <2>5
<1> QED
  BY <1>10, <1>11

LEMMA InsertRecolorKeeps ==
  ASSUME NEW sub, Shape(tree, keys, sub), NEW bh, Inserting(tree, keys, bh, node), InsertRecolor
  PROVE  \E sub2, bh2 : Shape(tree', keys, sub2) /\ Inserting(tree', keys, bh2, node')
<1>1. PICK p, d, g, u :
        /\ p = tree.parent[node] /\ d = SideOf(tree, p) /\ g = tree.parent[p]
        /\ u = tree[Other(d)][g]
  OBVIOUS
<1>2. /\ ~AboveRoot /\ tree.color[p] = "red" /\ tree.color[u] = "red"
      /\ tree' = Paint(Paint(Paint(tree, u, "black"), p, "black"), g, "red")
      /\ node' = g
  BY <1>1 DEF InsertRecolor, Red
<1>3. node \in keys /\ tree.color[Nil] = "black" /\ node # Nil
  BY CellFacts DEF Inserting, Shape, Linked
<1>4. node # tree.root
  BY <1>1, <1>2, <1>3 DEF AboveRoot
<1>5. p \in keys /\ p # tree.root /\ g \in keys
  BY <1>1, <1>2, <1>4, RedParent
<1>6. d \in Sides /\ tree[d][g] = p
  BY <1>1, <1>5, Under
<1>7. PICK t1, t2 : Paints(t1, tree, u, "black") /\ Paints(t2, t1, p, "black")
  BY DEF Paints
<1>8. Paints(tree', t2, g, "red")
  BY <1>2, <1>7 DEF Paints
<1>9. Shape(tree', keys, sub) /\ \E bh2 : Inserting(tree', keys, bh2, g)
  BY <1>1, <1>2, <1>4, <1>6, <1>7, <1>8, Recolored, ZenonT(40)
<1> QED
  BY <1>2, <1>9

(* The root is black again at the end. *)
LEMMA InsertDoneKeeps ==
  ASSUME NEW sub, Shape(tree, keys, sub), NEW bh, Inserting(tree, keys, bh, node), InsertDone
  PROVE  \E sub2, bh2 : Shape(tree', keys, sub2) /\ Settled(tree', keys, bh2)
<1>1. /\ tree' = Paint(tree, tree.root, "black")
      /\ node = tree.root \/ tree.color[tree.parent[node]] = "black"
  BY DEF InsertDone, AboveRoot, LoopEnds, Black
<1>2. /\ tree.root \in keys /\ Nil \notin keys /\ keys \subseteq Cells /\ tree \in Trees
      /\ tree.root \in Cells /\ Nil \in Cells /\ "black" \in Colors
  <2>1. tree.root # Nil
    BY CellFacts DEF Inserting, Shape, Linked, Spans
  <2> QED
    BY <2>1, CellFacts DEF Shape, Linked, Colors
<1>3. Paints(tree', tree, tree.root, "black")
  BY <1>1 DEF Paints
<1>4. /\ Shape(tree', keys, sub)
      /\ tree'.root = tree.root /\ tree'.parent = tree.parent
      /\ \A d \in Sides : tree'[d] = tree[d]
      /\ \A z \in Cells : tree'.color[z] = IF z = tree.root THEN "black" ELSE tree.color[z]
  BY <1>2, <1>3, PaintedShape
<1>5. /\ bh \in [Cells -> Nat \ {0}] /\ bh[Nil] = 1
      /\ \A x \in keys : \A e \in Sides :
           bh[x] = bh[tree[e][x]] + Weight(tree, x)
  <2>1. PlainHeights(tree, keys, bh)
    BY NothingOwed DEF Inserting
  <2> QED
    BY <2>1 DEF PlainHeights
<1>6. PICK bh2 : bh2 = [bh EXCEPT ![tree.root] = bh[tree.root] + 1 - Weight(tree, tree.root)]
  OBVIOUS
<1>7. /\ bh2 \in [Cells -> Nat \ {0}]
      /\ bh2[tree.root] = bh[tree.root] + 1 - Weight(tree, tree.root)
      /\ \A z \in Cells : z # tree.root => bh2[z] = bh[z]
  BY <1>2, <1>5, <1>6 DEF Weight
<1>8. ASSUME NEW x \in keys, NEW e \in Sides
      PROVE  bh2[x] = bh2[tree'[e][x]] + Weight(tree', x)
  <2>1. tree[e][x] \in Cells /\ tree[e][x] # tree.root
    BY <1>2, Child DEF Shape, Linked
  <2>2. tree'[e][x] = tree[e][x] /\ bh2[tree'[e][x]] = bh[tree[e][x]] /\ bh[tree[e][x]] \in Nat
    BY <1>4, <1>5, <1>7, <2>1
  <2>3. CASE x = tree.root
    <3>1. Weight(tree', x) = 1
      BY <1>2, <1>4, <2>3 DEF Weight
    <3>2. PICK a \in Nat, w \in {0, 1} : a = bh[tree[e][x]] /\ w = Weight(tree, x)
      BY <2>2 DEF Weight
    <3>3. bh2[x] = (a + w) + 1 - w
      BY <1>5, <1>7, <2>3, <3>2
    <3> QED
      BY <2>2, <3>1, <3>2, <3>3
  <2>4. CASE x # tree.root
    <3>1. Weight(tree', x) = Weight(tree, x)
      BY <1>2, <1>4, <2>4 DEF Weight
    <3> QED
      BY <1>2, <1>5, <1>7, <2>2, <2>4, <3>1
  <2> QED
    BY <2>3, <2>4
<1>9. Heights(tree', keys, bh2, Nil, FALSE)
  <2>1. PlainHeights(tree', keys, bh2)
    BY <1>2, <1>5, <1>7, <1>8 DEF PlainHeights
  <2> QED
    BY <1>4, <2>1, NothingOwed
<1>10. ASSUME NEW k \in keys, RedPair(tree', k)
       PROVE  FALSE
  <2>1. RedPair(tree, k)
    BY <1>2, <1>4, <1>10 DEF RedPair, Shape, Linked
  <2>2. k = node
    BY <2>1 DEF Inserting
  <2> QED
    BY <1>1, <2>1, <2>2 DEF RedPair
<1> QED
  BY <1>2, <1>4, <1>9, <1>10 DEF Settled, Inserting

-----------------------------------------------------------------------------
(* Induction along the links *)

LEMMA FirstNumber ==
  ASSUME NEW S \in SUBSET Nat, S # {}
  PROVE  \E x \in S : \A y \in S : x <= y
<1>1. PICK x \in S : \A y \in S : ~ (<<y, x>> \in OpToRel(<, Nat))
  BY NatLessThanWellFounded, WFMin
<1>2. \A y \in S : ~ (y < x)
  BY <1>1, Zenon DEF OpToRel
<1>3. x \in Nat /\ \A y \in S : y \in Nat
  OBVIOUS
<1>4. \A y \in S : x <= y
  BY <1>2, <1>3
<1> QED
  BY <1>4

LEMMA FiniteKeys ==
  ASSUME NEW T, T \subseteq Keys
  PROVE  IsFiniteSet(T) /\ Cardinality(T) \in Nat /\ Cardinality(T) <= K
<1>1. IsFiniteSet(Keys) /\ Cardinality(Keys) = K
  BY FS_Interval, ConstantsAssumption DEF Keys
<1> QED
  BY <1>1, FS_Subset, FS_CardinalityType

(* Fewer keys are below a child than below its parent. *)
LEMMA FewerBelow ==
  ASSUME NEW t, NEW S, NEW sub, Shape(t, S, sub), NEW d \in Sides, NEW x \in S
  PROVE  /\ Cardinality(sub[x]) \in Nat /\ Cardinality(sub[x]) <= K
         /\ Cardinality(sub[t[d][x]]) \in Nat
         /\ Cardinality(sub[t[d][x]]) < Cardinality(sub[x])
<1>1. PICK B, C : B = sub[x] /\ C = sub[t[d][x]]
  OBVIOUS
<1>2. C \subseteq B /\ x \in B /\ x \notin C /\ B \subseteq Keys
  BY <1>1, Child
<1>3. /\ IsFiniteSet(B) /\ Cardinality(B) \in Nat /\ Cardinality(B) <= K
      /\ Cardinality(C) \in Nat
  BY <1>2, FiniteKeys
<1>4. Cardinality(C) <= Cardinality(B) /\ Cardinality(C) # Cardinality(B)
  BY <1>2, <1>3, FS_Subset
<1> QED
  BY <1>1, <1>3, <1>4

(* Of some nodes one has no child among them. *)
LEMMA Deepest ==
  ASSUME NEW t, NEW S, NEW sub, Shape(t, S, sub), NEW T \in SUBSET S, T # {}
  PROVE  \E x \in T : \A d \in Sides : t[d][x] \notin T
<1>1. PICK N : N = {Cardinality(sub[x]) : x \in T}
  OBVIOUS
<1>2. N \in SUBSET Nat /\ N # {}
  <2>1. \A x \in T : Cardinality(sub[x]) \in Nat
    BY FewerBelow DEF Sides
  <2> QED
    BY <1>1, <2>1
<1>3. PICK m \in N : \A n \in N : m <= n
  BY <1>2, FirstNumber
<1>4. PICK x \in T : m = Cardinality(sub[x])
  BY <1>1, <1>3
<1>5. ASSUME NEW d \in Sides, t[d][x] \in T
      PROVE  FALSE
  <2>1. Cardinality(sub[t[d][x]]) \in N
    BY <1>1, <1>5
  <2>2. /\ Cardinality(sub[t[d][x]]) \in Nat /\ Cardinality(sub[x]) \in Nat
        /\ Cardinality(sub[t[d][x]]) < Cardinality(sub[x])
    BY FewerBelow
  <2>3. Cardinality(sub[x]) <= Cardinality(sub[t[d][x]])
    BY <1>3, <1>4, <2>1
  <2> QED
    BY <2>2, <2>3
<1> QED
  BY <1>5

(* What is below a node is below every node above. *)
LEMMA Within ==
  ASSUME NEW t, NEW S, NEW sub, Shape(t, S, sub), NEW x \in S, NEW z \in sub[x]
  PROVE  z \in S /\ sub[z] \subseteq sub[x]
<1> DEFINE T == {y \in S : \E w \in sub[y] : ~(sub[w] \subseteq sub[y])}
<1>1. T = {}
  <2> SUFFICES ASSUME T # {} PROVE FALSE
    OBVIOUS
  <2>1. PICK y \in T : \A d \in Sides : t[d][y] \notin T
    <3>1. T \in SUBSET S
      OBVIOUS
    <3> HIDE DEF T
    <3> QED
      BY <3>1, Deepest
  <2>2. PICK w \in sub[y] : ~(sub[w] \subseteq sub[y])
    BY <2>1
  <2>3. PICK d \in Sides : w \in sub[t[d][y]]
    <3>1. y \in S /\ "left" \in Sides /\ "right" \in Sides /\ Other("left") = "right"
      BY <2>1 DEF Sides, Other
    <3>2. sub[y] = {y} \cup sub[t["left"][y]] \cup sub[t["right"][y]]
      BY <3>1 DEF Shape, Spans
    <3> QED
      BY <2>2, <3>1, <3>2
  <2>4. y \in S /\ sub[t[d][y]] \subseteq sub[y] /\ t[d][y] \in S \cup {Nil}
    BY <2>1, Child
  <2>5. t[d][y] \in S
    BY <2>3, <2>4 DEF Shape, Spans
  <2>6. sub[w] \subseteq sub[t[d][y]]
    BY <2>1, <2>3, <2>5
  <2> QED
    BY <2>2, <2>4, <2>6
<1>2. sub[x] \subseteq S
  BY Child DEF Sides
<1> QED
  BY <1>1, <1>2

(* A function that is defined from its values at two smaller places. *)
Recurses(f, D, B, base, comb, l, r) ==
  /\ DOMAIN f = D
  /\ \A x \in D : f[x] = IF x \in B THEN comb[<<x, f[l[x]], f[r[x]]>>] ELSE base[x]

LEMMA RecursionExists ==
  ASSUME NEW D, NEW V, NEW B \in SUBSET D, NEW base \in [D -> V],
         NEW comb \in [D \X V \X V -> V], NEW l \in [D -> D], NEW r \in [D -> D],
         NEW N \in Nat, NEW m \in [D -> 0..N],
         \A x \in B : m[l[x]] < m[x] /\ m[r[x]] < m[x]
  PROVE  \E f \in [D -> V] : Recurses(f, D, B, base, comb, l, r)
<1> DEFINE Dom(n) == {x \in D : m[x] < n}
           Good(n) == \E f \in [Dom(n) -> V] : Recurses(f, Dom(n), B, base, comb, l, r)
           T == {n \in 0..(N + 1) : ~ Good(n)}
<1>1. T = {}
  <2> SUFFICES ASSUME T # {} PROVE FALSE
    OBVIOUS
  <2>1. T \in SUBSET Nat
    OBVIOUS
  <2>2. PICK n \in T : \A k \in T : n <= k
    <3> HIDE DEF T
    <3> QED
      BY <2>1, FirstNumber
  <2>3. CASE n = 0
    <3>1. Dom(n) = {}
      BY <2>3
    <3>2. PICK f : f = [x \in Dom(n) |-> base[x]]
      OBVIOUS
    <3>3. f \in [Dom(n) -> V] /\ Recurses(f, Dom(n), B, base, comb, l, r)
      BY <3>1, <3>2 DEF Recurses
    <3> QED
      BY <2>2, <3>3
  <2>4. CASE n # 0
    <3>0. T \subseteq 0..(N + 1)
      OBVIOUS
    <3>1. n - 1 \in 0..(N + 1) /\ n - 1 \notin T /\ n - 1 \in Nat /\ n \in Nat
      <4> HIDE DEF T
      <4> QED
        BY <2>2, <2>4, <3>0
    <3>2. PICK f \in [Dom(n - 1) -> V] : Recurses(f, Dom(n - 1), B, base, comb, l, r)
      BY <3>1
    <3>3. PICK g : g = [x \in Dom(n) |->
                         IF x \in B THEN comb[<<x, f[l[x]], f[r[x]]>>] ELSE base[x]]
      OBVIOUS
    <3>4. \A x \in Dom(n) : x \in D /\
            (x \in B => l[x] \in Dom(n - 1) /\ r[x] \in Dom(n - 1) /\ l[x] \in D /\ r[x] \in D)
      BY <3>1
    <3>5. \A x \in Dom(n - 1) : x \in Dom(n) /\ g[x] = f[x]
      <4>1. \A x \in Dom(n - 1) : x \in Dom(n)
        BY <3>1
      <4>2. \A x \in Dom(n - 1) :
              f[x] = IF x \in B THEN comb[<<x, f[l[x]], f[r[x]]>>] ELSE base[x]
        BY <3>2 DEF Recurses
      <4> HIDE DEF Dom
      <4> QED
        BY <3>3, <4>1, <4>2
    <3>6. ASSUME NEW x \in Dom(n)
          PROVE  /\ g[x] \in V
                 /\ g[x] = IF x \in B THEN comb[<<x, g[l[x]], g[r[x]]>>] ELSE base[x]
      <4>1. CASE x \in B
        <5>1. /\ l[x] \in Dom(n - 1) /\ r[x] \in Dom(n - 1) /\ x \in D
              /\ g[l[x]] = f[l[x]] /\ g[r[x]] = f[r[x]]
          BY <3>4, <3>5, <3>6, <4>1
        <5>2. g[x] = comb[<<x, f[l[x]], f[r[x]]>>]
          BY <3>3, <4>1
        <5>3. f[l[x]] \in V /\ f[r[x]] \in V
          BY <5>1
        <5>4. <<x, f[l[x]], f[r[x]]>> \in D \X V \X V
          BY <5>1, <5>3
        <5> QED
          BY <4>1, <5>1, <5>2, <5>4
      <4>2. CASE x \notin B
        BY <3>3, <3>4, <4>2
      <4> QED
        BY <4>1, <4>2
    <3>7. g \in [Dom(n) -> V] /\ Recurses(g, Dom(n), B, base, comb, l, r)
      <4> HIDE DEF Dom
      <4> QED
        BY <3>3, <3>6, Zenon DEF Recurses
    <3> QED
      BY <2>2, <3>7
  <2> QED
    BY <2>3, <2>4
<1>2. Good(N + 1)
  <2>1. N + 1 \in 0..(N + 1)
    OBVIOUS
  <2> HIDE DEF Good
  <2> QED
    BY <1>1, <2>1
<1>3. Dom(N + 1) = D
  OBVIOUS
<1> QED
  BY <1>2, <1>3

(* What a function of the nodes is made from: at the keys B from its values at
   the children. *)
Combines(V, B, base, comb) ==
  B \subseteq Keys /\ base \in [Pointers -> V] /\ comb \in [Pointers \X V \X V -> V]

LEMMA TreeRecursion ==
  ASSUME NEW t, NEW S, NEW sub, Shape(t, S, sub), NEW V, NEW B, NEW base, NEW comb,
         Combines(V, B, base, comb)
  PROVE  \E f \in [Pointers -> V] : \A x \in Pointers :
           f[x] = IF x \in B THEN comb[<<x, f[t.left[x]], f[t.right[x]]>>] ELSE base[x]
<1>1. PICK l, r, m :
        /\ l = [x \in Pointers |-> IF x \in Keys THEN t.left[x] ELSE Nil]
        /\ r = [x \in Pointers |-> IF x \in Keys THEN t.right[x] ELSE Nil]
        /\ m = [x \in Pointers |-> IF x \in S THEN Cardinality(sub[x]) + 1
                                   ELSE IF x \in Keys THEN 1 ELSE 0]
  OBVIOUS
<1>2. /\ B \in SUBSET Pointers /\ B \subseteq Keys /\ Keys \subseteq Cells /\ Cells \subseteq Pointers
      /\ Nil \notin Keys /\ NULL \notin Keys /\ NULL \in Pointers /\ Nil \in Pointers /\ S \subseteq Keys
      /\ K + 1 \in Nat /\ t \in Trees /\ t["left"] = t.left /\ t["right"] = t.right
  <2>1. t \in Trees
    BY DEF Shape, Linked
  <2> QED
    <3>1. S \subseteq Keys /\ B \subseteq Keys
      BY DEF Shape, Linked, Combines
    <3>2. t["left"] = t.left /\ t["right"] = t.right
      BY <2>1, Fields
    <3> QED
      BY <2>1, <3>1, <3>2, CellFacts, ConstantsAssumption
<1>3. l \in [Pointers -> Pointers] /\ r \in [Pointers -> Pointers]
  BY <1>1, <1>2, Fields DEF Sides
<1>4. ASSUME NEW x \in S, NEW d \in Sides
      PROVE  /\ Cardinality(sub[x]) \in Nat /\ Cardinality(sub[x]) <= K
             /\ m[x] = Cardinality(sub[x]) + 1 /\ m[t[d][x]] < m[x]
  <2>1. /\ Cardinality(sub[x]) \in Nat /\ Cardinality(sub[x]) <= K
        /\ Cardinality(sub[t[d][x]]) \in Nat
        /\ Cardinality(sub[t[d][x]]) < Cardinality(sub[x])
    BY FewerBelow
  <2>2. m[x] = Cardinality(sub[x]) + 1
    BY <1>1, <1>2
  <2>3. t[d][x] \in S \cup {Nil}
    BY Child
  <2>4. m[t[d][x]] = Cardinality(sub[t[d][x]]) + 1 \/ m[t[d][x]] = 0
    BY <1>1, <1>2, <2>3
  <2> QED
    BY <2>1, <2>2, <2>4
<1>5. m \in [Pointers -> 0..(K + 1)]
  <2>1. \A x \in S : Cardinality(sub[x]) + 1 \in 0..(K + 1)
    <3>1. "left" \in Sides
      BY DEF Sides
    <3>2. \A x \in S : Cardinality(sub[x]) \in Nat /\ Cardinality(sub[x]) <= K
      BY <1>4, <3>1
    <3> QED
      BY <3>2, ConstantsAssumption
  <2>2. 0 \in 0..(K + 1) /\ 1 \in 0..(K + 1)
    BY ConstantsAssumption
  <2> QED
    BY <1>1, <2>1, <2>2
<1>6. ASSUME NEW x \in B
      PROVE  m[l[x]] < m[x] /\ m[r[x]] < m[x]
  <2>1. x \in Keys /\ l[x] = t["left"][x] /\ r[x] = t["right"][x]
    BY <1>1, <1>2
  <2>2. CASE x \in S
    BY <1>4, <2>1, <2>2 DEF Sides
  <2>3. CASE x \notin S
    <3>1. x \in Cells \ S
      BY <1>2, <2>1, <2>3
    <3>2. l[x] = NULL /\ r[x] = NULL
      BY <2>1, <3>1 DEF Shape, Linked, Sides
    <3>3. m[NULL] = 0 /\ m[x] = 1
      BY <1>1, <1>2, <2>1, <2>3
    <3> QED
      BY <3>2, <3>3
  <2> QED
    BY <2>2, <2>3
<1>7. PICK f \in [Pointers -> V] : Recurses(f, Pointers, B, base, comb, l, r)
  <2>1. base \in [Pointers -> V] /\ comb \in [Pointers \X V \X V -> V]
    BY DEF Combines
  <2> QED
    BY <1>2, <1>3, <1>5, <1>6, <2>1, RecursionExists
<1>8. \A x \in B : l[x] = t.left[x] /\ r[x] = t.right[x]
  BY <1>1, <1>2
<1> QED
  BY <1>7, <1>8 DEF Recurses

LEMMA PathExists ==
  ASSUME NEW t, NEW S, NEW sub, Shape(t, S, sub), NEW lefts
  PROVE  \E f : /\ f = [x \in Pointers |-> IF x \notin Keys THEN <<>>
                           ELSE <<x>> \o f[IF x \in lefts THEN t.left[x] ELSE t.right[x]]]
                /\ Path(t, lefts) = f[t.root]
<1>1. PICK V, base : V = Seq(Pointers) /\ base = [x \in Pointers |-> <<>>]
  OBVIOUS
<1>2. PICK comb : comb = [a \in Pointers \X V \X V |->
                           <<a[1]>> \o IF a[1] \in lefts THEN a[2] ELSE a[3]]
  OBVIOUS
<1>3. base \in [Pointers -> V] /\ comb \in [Pointers \X V \X V -> V]
  BY <1>1, <1>2
<1>4. PICK f \in [Pointers -> V] : \A x \in Pointers :
        f[x] = IF x \in Keys THEN comb[<<x, f[t.left[x]], f[t.right[x]]>>] ELSE base[x]
  <2>1. Combines(V, Keys, base, comb)
    BY <1>3 DEF Combines
  <2> QED
    BY <2>1, TreeRecursion
<1>5. ASSUME NEW x \in Keys
      PROVE  t.left[x] \in Pointers /\ t.right[x] \in Pointers /\ x \in Pointers
  BY CellFacts, Fields DEF Shape, Linked, Sides
<1>6. ASSUME NEW x \in Pointers
      PROVE  f[x] = IF x \notin Keys THEN <<>>
                    ELSE <<x>> \o f[IF x \in lefts THEN t.left[x] ELSE t.right[x]]
  <2>1. CASE x \in Keys
    <3>1. f[x] = comb[<<x, f[t.left[x]], f[t.right[x]]>>]
      BY <1>4, <2>1
    <3>2. f[t.left[x]] \in V /\ f[t.right[x]] \in V
      BY <1>5, <2>1
    <3>3. PICK a : a = <<x, f[t.left[x]], f[t.right[x]]>>
      OBVIOUS
    <3>4. a \in Pointers \X V \X V /\ a[1] = x /\ a[2] = f[t.left[x]] /\ a[3] = f[t.right[x]]
      BY <3>2, <3>3
    <3>5. comb[a] = <<a[1]>> \o IF a[1] \in lefts THEN a[2] ELSE a[3]
      BY <1>2, <3>4
    <3> QED
      BY <2>1, <3>1, <3>3, <3>4, <3>5, Zenon
  <2>2. CASE x \notin Keys
    BY <1>1, <1>4, <2>2
  <2> QED
    BY <2>1, <2>2
<1>7. \E h : h = [x \in Pointers |-> IF x \notin Keys THEN <<>>
                    ELSE <<x>> \o h[IF x \in lefts THEN t.left[x] ELSE t.right[x]]]
  BY <1>6
<1> QED
  BY <1>7 DEF Path

LEMMA LeastExists ==
  ASSUME NEW t, NEW S, NEW sub, Shape(t, S, sub)
  PROVE  \E f : f = [x \in Pointers |->
                       IF x \notin Keys \/ t.left[x] = Nil THEN x ELSE f[t.left[x]]]
<1>1. PICK V, B, base, comb :
        /\ V = Pointers /\ B = {x \in Keys : t.left[x] # Nil}
        /\ base = [x \in Pointers |-> x] /\ comb = [a \in Pointers \X V \X V |-> a[2]]
  OBVIOUS
<1>2. Combines(V, B, base, comb)
  BY <1>1 DEF Combines
<1>3. PICK f \in [Pointers -> V] : \A x \in Pointers :
        f[x] = IF x \in B THEN comb[<<x, f[t.left[x]], f[t.right[x]]>>] ELSE base[x]
  BY <1>2, TreeRecursion
<1>4. ASSUME NEW x \in Keys
      PROVE  t.left[x] \in Pointers /\ t.right[x] \in Pointers /\ x \in Pointers
  BY CellFacts, Fields DEF Shape, Linked, Sides
<1>5. ASSUME NEW x \in Pointers
      PROVE  f[x] = IF x \notin Keys \/ t.left[x] = Nil THEN x ELSE f[t.left[x]]
  <2>1. CASE x \in B
    <3>1. f[x] = comb[<<x, f[t.left[x]], f[t.right[x]]>>] /\ x \in Keys /\ t.left[x] # Nil
      BY <1>1, <1>3, <2>1
    <3>2. f[t.left[x]] \in V /\ f[t.right[x]] \in V
      BY <1>4, <3>1
    <3>3. PICK a : a = <<x, f[t.left[x]], f[t.right[x]]>>
      OBVIOUS
    <3>4. a \in Pointers \X V \X V /\ a[2] = f[t.left[x]]
      BY <3>2, <3>3
    <3> QED
      BY <1>1, <3>1, <3>3, <3>4
  <2>2. CASE x \notin B
    BY <1>1, <1>3, <2>2
  <2> QED
    BY <2>1, <2>2
<1> QED
  BY <1>1, <1>5

LEMMA LastExists ==
  ASSUME NEW t, NEW S, NEW sub, Shape(t, S, sub), NEW lefts
  PROVE  \E f : /\ f = [x \in Pointers |-> IF x \notin Keys THEN Nil
                           ELSE IF x \notin lefts THEN f[t.right[x]]
                           ELSE IF f[t.left[x]] = Nil THEN x ELSE f[t.left[x]]]
                /\ LastLeft(t, lefts) = IF f[t.root] = Nil THEN Least(t, t.root) ELSE f[t.root]
<1>1. PICK V, base, comb :
        /\ V = Pointers /\ base = [x \in Pointers |-> Nil]
        /\ comb = [a \in Pointers \X V \X V |->
                    IF a[1] \notin lefts THEN a[3] ELSE IF a[2] = Nil THEN a[1] ELSE a[2]]
  OBVIOUS
<1>2. Combines(V, Keys, base, comb)
  BY <1>1, CellFacts DEF Combines
<1>3. PICK f \in [Pointers -> V] : \A x \in Pointers :
        f[x] = IF x \in Keys THEN comb[<<x, f[t.left[x]], f[t.right[x]]>>] ELSE base[x]
  BY <1>2, TreeRecursion
<1>4. ASSUME NEW x \in Keys
      PROVE  t.left[x] \in Pointers /\ t.right[x] \in Pointers /\ x \in Pointers
  BY CellFacts, Fields DEF Shape, Linked, Sides
<1>5. ASSUME NEW x \in Pointers
      PROVE  f[x] = IF x \notin Keys THEN Nil
                    ELSE IF x \notin lefts THEN f[t.right[x]]
                    ELSE IF f[t.left[x]] = Nil THEN x ELSE f[t.left[x]]
  <2>1. CASE x \in Keys
    <3>1. f[x] = comb[<<x, f[t.left[x]], f[t.right[x]]>>]
      BY <1>3, <2>1
    <3>2. f[t.left[x]] \in V /\ f[t.right[x]] \in V
      BY <1>4, <2>1
    <3>3. PICK a : a = <<x, f[t.left[x]], f[t.right[x]]>>
      OBVIOUS
    <3>4. a \in Pointers \X V \X V /\ a[1] = x /\ a[2] = f[t.left[x]] /\ a[3] = f[t.right[x]]
      BY <3>2, <3>3
    <3>5. comb[a] = IF a[1] \notin lefts THEN a[3] ELSE IF a[2] = Nil THEN a[1] ELSE a[2]
      BY <1>1, <3>4
    <3> QED
      BY <2>1, <3>1, <3>3, <3>4, <3>5
  <2>2. CASE x \notin Keys
    BY <1>1, <1>3, <2>2
  <2> QED
    BY <2>1, <2>2
<1>6. \E h : h = [x \in Pointers |-> IF x \notin Keys THEN Nil
                    ELSE IF x \notin lefts THEN h[t.right[x]]
                    ELSE IF h[t.left[x]] = Nil THEN x ELSE h[t.left[x]]]
  BY <1>5
<1> QED
  BY <1>6 DEF LastLeft

LEMMA InOrderExists ==
  ASSUME NEW S, NEW sub, Shape(tree, S, sub)
  PROVE  \E f : f = [x \in Pointers |->
                       IF x \notin Keys THEN <<>> ELSE f[tree.left[x]] \o <<x>> \o f[tree.right[x]]]
<1>1. PICK V, base, comb :
        /\ V = Seq(Pointers) /\ base = [x \in Pointers |-> <<>>]
        /\ comb = [a \in Pointers \X V \X V |-> a[2] \o <<a[1]>> \o a[3]]
  OBVIOUS
<1>2. Combines(V, Keys, base, comb)
  BY <1>1, CellFacts DEF Combines
<1>3. PICK f \in [Pointers -> V] : \A x \in Pointers :
        f[x] = IF x \in Keys THEN comb[<<x, f[tree.left[x]], f[tree.right[x]]>>] ELSE base[x]
  BY <1>2, TreeRecursion
<1>4. ASSUME NEW x \in Keys
      PROVE  tree.left[x] \in Pointers /\ tree.right[x] \in Pointers /\ x \in Pointers
  BY CellFacts, Fields DEF Shape, Linked, Sides
<1>5. ASSUME NEW x \in Pointers
      PROVE  f[x] = IF x \notin Keys THEN <<>> ELSE f[tree.left[x]] \o <<x>> \o f[tree.right[x]]
  <2>1. CASE x \in Keys
    <3>1. f[x] = comb[<<x, f[tree.left[x]], f[tree.right[x]]>>]
      BY <1>3, <2>1
    <3>2. f[tree.left[x]] \in V /\ f[tree.right[x]] \in V
      BY <1>4, <2>1
    <3>3. PICK a : a = <<x, f[tree.left[x]], f[tree.right[x]]>>
      OBVIOUS
    <3>4. /\ a \in Pointers \X V \X V
          /\ a[1] = x /\ a[2] = f[tree.left[x]] /\ a[3] = f[tree.right[x]]
      BY <3>2, <3>3
    <3>5. comb[a] = a[2] \o <<a[1]>> \o a[3]
      BY <1>1, <3>4
    <3> QED
      BY <2>1, <3>1, <3>3, <3>4, <3>5, Zenon
  <2>2. CASE x \notin Keys
    BY <1>1, <1>3, <2>2
  <2> QED
    BY <2>1, <2>2
<1> QED
  BY <1>5

LEMMA HeightExists ==
  ASSUME NEW S, NEW sub, Shape(tree, S, sub)
  PROVE  \E f : f = [x \in Pointers |->
           IF x \notin Keys THEN 1
           ELSE LET l == f[tree.left[x]]
                           + (IF pc = "delete" /\ tree.left[x] = node /\ x = tree.parent[node]
                              THEN 1 ELSE 0)
                    r == f[tree.right[x]]
                           + (IF pc = "delete" /\ tree.right[x] = node /\ x = tree.parent[node]
                              THEN 1 ELSE 0)
                IN IF f[tree.left[x]] = -1 \/ l # r THEN -1
                   ELSE l + (IF Black(tree, x) THEN 1 ELSE 0)]
<1>1. PICK V, base, el, er, w, comb :
        /\ V = Int /\ base = [x \in Pointers |-> 1]
        /\ el = [x \in Pointers |->
                  IF pc = "delete" /\ tree.left[x] = node /\ x = tree.parent[node] THEN 1 ELSE 0]
        /\ er = [x \in Pointers |->
                  IF pc = "delete" /\ tree.right[x] = node /\ x = tree.parent[node] THEN 1 ELSE 0]
        /\ w = [x \in Pointers |-> IF Black(tree, x) THEN 1 ELSE 0]
        /\ comb = [a \in Pointers \X V \X V |->
                    IF a[2] = -1 \/ a[2] + el[a[1]] # a[3] + er[a[1]] THEN -1
                    ELSE a[2] + el[a[1]] + w[a[1]]]
  OBVIOUS
<1>2. \A x \in Pointers : el[x] \in Int /\ er[x] \in Int /\ w[x] \in Int
  BY <1>1
<1>3. Combines(V, Keys, base, comb)
  <2>1. base \in [Pointers -> V]
    BY <1>1
  <2>2. ASSUME NEW a \in Pointers \X V \X V
        PROVE  comb[a] \in V
    <3>1. a[1] \in Pointers /\ a[2] \in Int /\ a[3] \in Int
      BY <1>1
    <3> QED
      BY <1>1, <1>2, <3>1
  <2> QED
    BY <1>1, <2>1, <2>2 DEF Combines
<1>4. PICK f \in [Pointers -> V] : \A x \in Pointers :
        f[x] = IF x \in Keys THEN comb[<<x, f[tree.left[x]], f[tree.right[x]]>>] ELSE base[x]
  BY <1>3, TreeRecursion
<1>5. ASSUME NEW x \in Keys
      PROVE  tree.left[x] \in Pointers /\ tree.right[x] \in Pointers /\ x \in Pointers
  BY CellFacts, Fields DEF Shape, Linked, Sides
<1>6. ASSUME NEW x \in Keys
      PROVE  f[x] = IF f[tree.left[x]] = -1 \/ f[tree.left[x]] + el[x] # f[tree.right[x]] + er[x]
                    THEN -1 ELSE f[tree.left[x]] + el[x] + w[x]
  <2>1. f[x] = comb[<<x, f[tree.left[x]], f[tree.right[x]]>>]
    BY <1>4, <1>5, <1>6
  <2>2. f[tree.left[x]] \in V /\ f[tree.right[x]] \in V
    BY <1>5, <1>6
  <2>3. PICK a : a = <<x, f[tree.left[x]], f[tree.right[x]]>>
    OBVIOUS
  <2>4. /\ a \in Pointers \X V \X V
        /\ a[1] = x /\ a[2] = f[tree.left[x]] /\ a[3] = f[tree.right[x]]
    BY <1>5, <2>2, <2>3
  <2>5. comb[a] = IF a[2] = -1 \/ a[2] + el[a[1]] # a[3] + er[a[1]] THEN -1
                  ELSE a[2] + el[a[1]] + w[a[1]]
    BY <1>1, <2>4
  <2> QED
    BY <2>1, <2>3, <2>4, <2>5
<1>7. \A x \in Pointers : x \notin Keys => f[x] = 1
  BY <1>1, <1>4
<1>8. \A x \in Keys :
        /\ el[x] = IF pc = "delete" /\ tree.left[x] = node /\ x = tree.parent[node] THEN 1 ELSE 0
        /\ er[x] = IF pc = "delete" /\ tree.right[x] = node /\ x = tree.parent[node] THEN 1 ELSE 0
        /\ w[x] = IF Black(tree, x) THEN 1 ELSE 0
  BY <1>1, <1>5
<1> QED
  BY <1>6, <1>7, <1>8

-----------------------------------------------------------------------------
(* What the functions of the nodes give *)

(* The black nodes from the root down. *)
LEMMA BlackHeightIs ==
  ASSUME NEW S, NEW sub, Shape(tree, S, sub), NEW bh, NEW nd, NEW del,
         Heights(tree, S, bh, nd, del),
         IF pc = "delete" THEN del = TRUE /\ nd = node ELSE del = FALSE
  PROVE  BlackHeight = bh[tree.root] /\ BlackHeight # -1
<1>1. PICK f :
        /\ f = [x \in Pointers |->
             IF x \notin Keys THEN 1
             ELSE LET l == f[tree.left[x]]
                             + (IF pc = "delete" /\ tree.left[x] = node /\ x = tree.parent[node]
                                THEN 1 ELSE 0)
                      r == f[tree.right[x]]
                             + (IF pc = "delete" /\ tree.right[x] = node /\ x = tree.parent[node]
                                THEN 1 ELSE 0)
                  IN IF f[tree.left[x]] = -1 \/ l # r THEN -1
                     ELSE l + (IF Black(tree, x) THEN 1 ELSE 0)]
        /\ BlackHeight = f[tree.root]
  BY HeightExists DEF BlackHeight
<1>2. /\ S \subseteq Keys /\ Keys \subseteq Cells /\ Cells \subseteq Pointers /\ Nil \in Cells
      /\ Nil \notin Keys
      /\ tree.root \in S \cup {Nil} /\ "left" \in Sides /\ "right" \in Sides
      /\ tree.left = tree["left"] /\ tree.right = tree["right"]
  BY CellFacts, Fields DEF Shape, Linked, Sides
<1>3. /\ bh \in [Cells -> Nat \ {0}] /\ bh[Nil] = 1
      /\ \A x \in S : \A d \in Sides :
           bh[x] = bh[tree[d][x]] + Owed(tree, nd, del, x, tree[d][x]) + Weight(tree, x)
  BY DEF Heights
<1>4. ASSUME NEW x \in S
      PROVE  f[x] = LET l == f[tree.left[x]] + Owed(tree, nd, del, x, tree.left[x])
                        r == f[tree.right[x]] + Owed(tree, nd, del, x, tree.right[x])
                    IN IF f[tree.left[x]] = -1 \/ l # r THEN -1 ELSE l + Weight(tree, x)
  <2>1. x \in Pointers /\ x \in Keys
    BY <1>2
  <2>2. f[x] = LET l == f[tree.left[x]]
                          + (IF pc = "delete" /\ tree.left[x] = node /\ x = tree.parent[node]
                             THEN 1 ELSE 0)
                   r == f[tree.right[x]]
                          + (IF pc = "delete" /\ tree.right[x] = node /\ x = tree.parent[node]
                             THEN 1 ELSE 0)
               IN IF f[tree.left[x]] = -1 \/ l # r THEN -1
                  ELSE l + (IF Black(tree, x) THEN 1 ELSE 0)
    BY <1>1, <2>1
  <2>3. \A c : Owed(tree, nd, del, x, c)
                 = IF pc = "delete" /\ c = node /\ x = tree.parent[node] THEN 1 ELSE 0
    BY DEF Owed
  <2>4. Weight(tree, x) = IF Black(tree, x) THEN 1 ELSE 0
    BY DEF Weight, Black
  <2> QED
    BY <2>2, <2>3, <2>4
<1>5. f[Nil] = 1
  BY <1>1, <1>2
<1>6. PICK T : T = {x \in S : f[x] # bh[x]}
  OBVIOUS
<1>7. T = {}
  <2> SUFFICES ASSUME T # {} PROVE FALSE
    OBVIOUS
  <2>1. PICK x \in T : \A d \in Sides : tree[d][x] \notin T
    <3>1. T \in SUBSET S
      BY <1>6
    <3> QED
      BY <3>1, Deepest
  <2>2. x \in S /\ f[x] # bh[x]
    BY <1>6
  <2>3. \A d \in Sides : tree[d][x] \in S \cup {Nil}
    BY <2>2, Child
  <2>4. \A d \in Sides : f[tree[d][x]] = bh[tree[d][x]]
    BY <1>3, <1>5, <1>6, <2>1, <2>3
  <2>5. PICK a, b, o1, o2, w :
          /\ a = bh[tree.left[x]] /\ b = bh[tree.right[x]]
          /\ o1 = Owed(tree, nd, del, x, tree.left[x])
          /\ o2 = Owed(tree, nd, del, x, tree.right[x])
          /\ w = Weight(tree, x)
    OBVIOUS
  <2>6. f[x] = IF a = -1 \/ a + o1 # b + o2 THEN -1 ELSE a + o1 + w
    <3>1. f[tree.left[x]] = a /\ f[tree.right[x]] = b
      BY <1>2, <2>4, <2>5
    <3> QED
      BY <1>4, <2>2, <2>5, <3>1
  <2>7. a \in Nat /\ b \in Nat /\ o1 \in Nat /\ o2 \in Nat /\ w \in Nat
    <3>1. tree.left[x] \in Cells /\ tree.right[x] \in Cells
      BY <1>2, <2>3
    <3> QED
      BY <1>3, <2>5, <3>1 DEF Owed, Weight
  <2>8. bh[x] = a + o1 + w /\ bh[x] = b + o2 + w
    BY <1>2, <1>3, <2>2, <2>5
  <2> QED
    BY <2>2, <2>6, <2>7, <2>8
<1>8. f[tree.root] = bh[tree.root]
  BY <1>2, <1>3, <1>5, <1>6, <1>7
<1>9. bh[tree.root] \in Nat
  BY <1>2, <1>3
<1> QED
  BY <1>1, <1>8, <1>9

Sorted(s) == \A i, j \in 1..Len(s) : i < j => s[i] < s[j]

LEMMA Elements ==
  ASSUME NEW s \in Seq(Int)
  PROVE  ToSet(s) = {s[i] : i \in 1..Len(s)}
<1>1. DOMAIN s = 1..Len(s)
  OBVIOUS
<1> QED
  BY <1>1 DEF ToSet

(* The numbers of a before x, and those of b after it. *)
Joins(s, a, x, b) ==
  /\ s = a \o <<x>> \o b
  /\ (\A y \in ToSet(a) : y < x) /\ (\A y \in ToSet(b) : x < y)

LEMMA Joined ==
  ASSUME NEW a \in Seq(Int), NEW b \in Seq(Int), NEW x \in Int, Sorted(a), Sorted(b),
         NEW s, Joins(s, a, x, b)
  PROVE  s \in Seq(Int) /\ Sorted(s) /\ ToSet(s) = {x} \cup ToSet(a) \cup ToSet(b)
<1>0. /\ s = a \o <<x>> \o b
      /\ (\A y \in ToSet(a) : y < x) /\ (\A y \in ToSet(b) : x < y)
  BY DEF Joins
<1>1. PICK m \in Nat, n \in Nat : m = Len(a) /\ n = Len(b)
  OBVIOUS
<1>2. /\ s \in Seq(Int) /\ Len(s) = m + 1 + n
      /\ \A i \in 1..m : s[i] = a[i]
      /\ s[m + 1] = x
      /\ \A i \in 1..n : s[m + 1 + i] = b[i]
  BY <1>0, <1>1
<1>3. /\ \A i \in 1..m : a[i] \in Int /\ a[i] \in ToSet(a) /\ a[i] < x
      /\ \A i \in 1..n : b[i] \in Int /\ b[i] \in ToSet(b) /\ x < b[i]
  <2>1. ToSet(a) = {a[i] : i \in 1..m} /\ ToSet(b) = {b[i] : i \in 1..n}
    BY <1>1, Elements
  <2> QED
    BY <1>0, <1>1, <2>1
<1>9. ToSet(s) = {s[i] : i \in 1..(m + 1 + n)}
  BY <1>2, Elements
<1>4. ASSUME NEW i \in 1..(m + 1 + n), i > m + 1
      PROVE  /\ i - (m + 1) \in 1..n /\ s[i] = b[i - (m + 1)]
             /\ s[i] \in Int /\ s[i] \in ToSet(b) /\ x < s[i]
  <2>1. PICK j \in 1..n : i = m + 1 + j
    <3>1. i - (m + 1) \in 1..n /\ i = m + 1 + (i - (m + 1))
      BY <1>4
    <3> QED
      BY <3>1
  <2>2. i - (m + 1) = j
    BY <2>1
  <2> QED
    BY <1>2, <1>3, <2>1, <2>2
<1>5. ASSUME NEW i \in 1..(m + 1 + n), NEW j \in 1..(m + 1 + n), i < j
      PROVE  s[i] < s[j]
  <2>1. CASE j <= m
    <3>1. i \in 1..m /\ j \in 1..m
      BY <1>5, <2>1
    <3> QED
      BY <1>1, <1>2, <1>5, <3>1 DEF Sorted
  <2>2. CASE j = m + 1
    <3>1. i \in 1..m
      BY <1>5, <2>2
    <3> QED
      BY <1>2, <1>3, <2>2, <3>1
  <2>3. CASE j > m + 1
    <3>1. CASE i <= m
      <4>1. i \in 1..m /\ s[i] = a[i] /\ a[i] \in Int /\ a[i] < x
        BY <1>2, <1>3, <3>1
      <4> QED
        BY <1>1, <1>4, <2>3, <4>1
    <3>2. CASE i = m + 1
      BY <1>2, <1>4, <2>3, <3>2
    <3>3. CASE i > m + 1
      <4>1. /\ i - (m + 1) \in 1..n /\ s[i] = b[i - (m + 1)]
            /\ j - (m + 1) \in 1..n /\ s[j] = b[j - (m + 1)]
        BY <1>4, <2>3, <3>3
      <4>2. i - (m + 1) < j - (m + 1)
        BY <1>5
      <4> QED
        BY <1>1, <4>1, <4>2 DEF Sorted
    <3>4. i <= m \/ i = m + 1 \/ i > m + 1
      BY <1>1
    <3> QED
      BY <3>1, <3>2, <3>3, <3>4
  <2>4. j <= m \/ j = m + 1 \/ j > m + 1
    BY <1>1
  <2> QED
    BY <2>1, <2>2, <2>3, <2>4
<1>6. ToSet(s) \subseteq {x} \cup ToSet(a) \cup ToSet(b)
  <2> SUFFICES ASSUME NEW i \in 1..(m + 1 + n)
               PROVE  s[i] \in {x} \cup ToSet(a) \cup ToSet(b)
    BY <1>9
  <2>1. CASE i <= m
    <3>1. i \in 1..m
      BY <2>1
    <3> QED
      BY <1>2, <1>3, <3>1
  <2>2. CASE i = m + 1
    BY <1>2, <2>2
  <2>3. CASE i > m + 1
    BY <1>4, <2>3
  <2> QED
    BY <1>1, <2>1, <2>2, <2>3
<1>7. {x} \cup ToSet(a) \cup ToSet(b) \subseteq ToSet(s)
  <2>1. x \in ToSet(s)
    <3>1. m + 1 \in 1..(m + 1 + n)
      BY <1>1
    <3> QED
      BY <1>2, <1>9, <3>1
  <2>2. ASSUME NEW i \in 1..m
        PROVE  a[i] \in ToSet(s)
    <3>1. i \in 1..(m + 1 + n)
      BY <1>1
    <3> QED
      BY <1>2, <1>9, <3>1
  <2>3. ASSUME NEW i \in 1..n
        PROVE  b[i] \in ToSet(s)
    <3>1. m + 1 + i \in 1..(m + 1 + n)
      BY <1>1
    <3> QED
      BY <1>2, <1>9, <3>1
  <2> QED
    <3>1. ToSet(a) = {a[i] : i \in 1..m} /\ ToSet(b) = {b[i] : i \in 1..n}
      BY <1>1, Elements
    <3> QED
      BY <2>1, <2>2, <2>3, <3>1
<1> QED
  BY <1>2, <1>5, <1>6, <1>7 DEF Sorted

(* The keys from the left to the right are those of the tree, in order. *)
LEMMA InOrderIs ==
  ASSUME NEW S, NEW sub, Shape(tree, S, sub)
  PROVE  InOrder \in Seq(Int) /\ ToSet(InOrder) = S /\ Sorted(InOrder)
<1>1. PICK f : /\ f = [x \in Pointers |->
                        IF x \notin Keys THEN <<>>
                        ELSE f[tree.left[x]] \o <<x>> \o f[tree.right[x]]]
               /\ InOrder = f[tree.root]
  BY InOrderExists, Zenon DEF InOrder
<1>2. /\ S \subseteq Keys /\ Keys \subseteq Cells /\ Cells \subseteq Pointers /\ Nil \in Cells
      /\ Nil \notin Keys /\ Keys \subseteq Int
      /\ tree.root \in S \cup {Nil} /\ "left" \in Sides /\ "right" \in Sides
      /\ tree.left = tree["left"] /\ tree.right = tree["right"]
      /\ sub[Nil] = {} /\ sub[tree.root] = S
  BY CellFacts, Fields DEF Shape, Linked, Spans, Sides
<1> DEFINE Good(x) == f[x] \in Seq(Int) /\ ToSet(f[x]) = sub[x] /\ Sorted(f[x])
<1>3. Good(Nil)
  <2>1. f[Nil] = <<>>
    BY <1>1, <1>2
  <2>2. <<>> \in Seq(Int) /\ ToSet(<<>>) = {} /\ Sorted(<<>>)
    BY DEF ToSet, Sorted
  <2> QED
    BY <1>2, <2>1, <2>2
<1>4. PICK T : T = {x \in S : ~Good(x)}
  OBVIOUS
<1>5. T = {}
  <2> SUFFICES ASSUME T # {} PROVE FALSE
    OBVIOUS
  <2>1. PICK x \in T : \A d \in Sides : tree[d][x] \notin T
    <3>1. T \in SUBSET S
      BY <1>4
    <3> QED
      BY <3>1, Deepest
  <2>2. x \in S /\ ~Good(x)
    BY <1>4
  <2>3. \A d \in Sides : tree[d][x] \in S \cup {Nil}
    BY <2>2, Child
  <2>4. Good(tree.left[x]) /\ Good(tree.right[x])
    <3> HIDE DEF Good
    <3> QED
      BY <1>2, <1>3, <1>4, <2>1, <2>3
  <2>5. PICK a, b : a = f[tree.left[x]] /\ b = f[tree.right[x]]
    OBVIOUS
  <2>6. /\ \A y \in sub[tree.left[x]] : y < x
        /\ \A y \in sub[tree.right[x]] : x < y
        /\ sub[x] = {x} \cup sub[tree.left[x]] \cup sub[tree.right[x]]
    BY <1>2, <2>2 DEF Shape, Spans, Beyond, Sides
  <2>7. f[x] = a \o <<x>> \o b
    BY <1>1, <1>2, <2>2, <2>5, Zenon
  <2>8. /\ a \in Seq(Int) /\ b \in Seq(Int) /\ x \in Int /\ Sorted(a) /\ Sorted(b)
        /\ ToSet(a) = sub[tree.left[x]] /\ ToSet(b) = sub[tree.right[x]]
    BY <1>2, <2>2, <2>4, <2>5
  <2>9. f[x] \in Seq(Int) /\ Sorted(f[x]) /\ ToSet(f[x]) = {x} \cup ToSet(a) \cup ToSet(b)
    <3>1. Joins(f[x], a, x, b)
      BY <2>6, <2>7, <2>8 DEF Joins
    <3> QED
      BY <2>8, <3>1, Joined
  <2> QED
    BY <2>2, <2>6, <2>8, <2>9
<1>6. Good(tree.root)
  <2> HIDE DEF Good
  <2> QED
    BY <1>2, <1>3, <1>4, <1>5
<1> QED
  BY <1>1, <1>2, <1>6, Zenon

-----------------------------------------------------------------------------
(* The searches *)

(* The side of x that a search for k goes on at. *)
Toward(k, x) == IF k < x THEN "left" ELSE "right"

Begins(r, x, s) == r = <<x>> \o s

LEMMA Begun ==
  ASSUME NEW s \in Seq(Keys), NEW x \in Keys, NEW r, Begins(r, x, s)
  PROVE  /\ r \in Seq(Keys) /\ r # <<>> /\ ToSet(r) = {x} \cup ToSet(s)
         /\ s = <<>> => Last(r) = x
         /\ s # <<>> => Last(r) = Last(s)
<1>1. PICK n \in Nat : n = Len(s)
  OBVIOUS
<1>2. r \in Seq(Keys) /\ Len(r) = n + 1 /\ r[1] = x /\ \A i \in 1..n : r[i + 1] = s[i]
  BY <1>1 DEF Begins
<1>3. DOMAIN r = 1..(n + 1) /\ DOMAIN s = 1..n
  BY <1>1, <1>2
<1>4. ToSet(r) = {x} \cup ToSet(s)
  <2>1. \A i \in 1..(n + 1) : i = 1 \/ i - 1 \in 1..n
    BY <1>1
  <2>2. ASSUME NEW i \in 1..(n + 1)
        PROVE  r[i] = x \/ \E j \in 1..n : r[i] = s[j]
    <3>1. CASE i = 1
      BY <1>2, <3>1
    <3>2. CASE i # 1
      <4>1. PICK j \in 1..n : j + 1 = i
        <5>1. i - 1 \in 1..n /\ (i - 1) + 1 = i
          BY <2>1, <3>2
        <5> QED
          BY <5>1
      <4> QED
        BY <1>2, <4>1
    <3> QED
      BY <3>1, <3>2
  <2>3. \A j \in 1..n : j + 1 \in 1..(n + 1)
    BY <1>1
  <2>4. 1 \in 1..(n + 1)
    BY <1>1
  <2>5. ToSet(r) = {r[i] : i \in 1..(n + 1)} /\ ToSet(s) = {s[j] : j \in 1..n}
    BY <1>3 DEF ToSet
  <2>6. \A j \in 1..n : s[j] \in ToSet(r)
    BY <1>2, <2>3, <2>5
  <2>7. x \in ToSet(r)
    BY <1>2, <2>4, <2>5
  <2> QED
    BY <2>2, <2>5, <2>6, <2>7
<1>5. s = <<>> => Last(r) = x
  BY <1>1, <1>2 DEF Last
<1>6. s # <<>> => Last(r) = Last(s)
  <2>1. s # <<>> => n \in 1..n
    BY <1>1
  <2> QED
    BY <1>1, <1>2, <2>1 DEF Last
<1>7. r # <<>>
  BY <1>1, <1>2
<1> QED
  BY <1>2, <1>4, <1>5, <1>6, <1>7

(* The way down to k: it holds k if the tree does, and it ends at a node that
   has no child toward k and lies toward k from all nodes above it. *)
LEMMA PathIs ==
  ASSUME NEW t, NEW S, NEW sub, Shape(t, S, sub), NEW k \in Keys, NEW s, s = Path(t, Above(k))
  PROVE  /\ k \in ToSet(s) <=> k \in S
         /\ t.root # Nil =>
              /\ Last(s) \in S /\ t[Toward(k, Last(s))][Last(s)] = Nil
              /\ \A z \in S : Last(s) \in sub[z] /\ z # Last(s) =>
                   Last(s) \in sub[t[Toward(k, z)][z]]
<1>1. PICK f : /\ f = [x \in Pointers |-> IF x \notin Keys THEN <<>>
                         ELSE <<x>> \o f[IF x \in Above(k) THEN t.left[x] ELSE t.right[x]]]
               /\ s = f[t.root]
  BY PathExists
<1>2. /\ S \subseteq Keys /\ Keys \subseteq Cells /\ Cells \subseteq Pointers /\ Nil \in Cells
      /\ Nil \notin Keys /\ Keys \subseteq Int
      /\ t.root \in S \cup {Nil}
      /\ t.left = t["left"] /\ t.right = t["right"]
      /\ sub[Nil] = {} /\ sub[t.root] = S
  BY CellFacts, Fields DEF Shape, Linked, Spans
<1>3. \A x \in Int : Toward(k, x) \in Sides
  BY DEF Toward, Sides
<1>4. f[Nil] = <<>> /\ \A x \in S : f[x] = <<x>> \o f[t[Toward(k, x)][x]]
  <2>1. f[Nil] = <<>>
    BY <1>1, <1>2
  <2>2. ASSUME NEW x \in S
        PROVE  f[x] = <<x>> \o f[t[Toward(k, x)][x]]
    <3>1. x \in Pointers /\ x \in Keys
      BY <1>2
    <3>2. f[x] = <<x>> \o f[IF x \in Above(k) THEN t.left[x] ELSE t.right[x]]
      BY <1>1, <3>1, Zenon
    <3>3. t[Toward(k, x)][x] = IF x \in Above(k) THEN t.left[x] ELSE t.right[x]
      BY <1>2, <3>1 DEF Toward, Above
    <3> QED
      BY <3>2, <3>3
  <2> QED
    BY <2>1, <2>2
<1> DEFINE Ends(x, y) ==
             /\ f[x] # <<>> /\ y = Last(f[x]) /\ y \in sub[x]
             /\ t[Toward(k, y)][y] = Nil
             /\ \A z \in sub[x] : y \in sub[z] /\ z # y => y \in sub[t[Toward(k, z)][z]]
           Good(x) == /\ f[x] \in Seq(Keys) /\ ToSet(f[x]) \subseteq sub[x]
                      /\ k \in sub[x] => k \in ToSet(f[x])
                      /\ Ends(x, Last(f[x]))
<1>5. PICK T : T = {x \in S : ~Good(x)}
  OBVIOUS
<1>6. T = {}
  <2> SUFFICES ASSUME T # {} PROVE FALSE
    OBVIOUS
  <2>1. PICK x \in T : \A d \in Sides : t[d][x] \notin T
    <3>1. T \in SUBSET S
      BY <1>5
    <3> QED
      BY <3>1, Deepest
  <2>2. x \in S /\ ~Good(x)
    BY <1>5
  <2>3. PICK d \in Sides, c \in S \cup {Nil} : d = Toward(k, x) /\ c = t[d][x]
    <3>1. Toward(k, x) \in Sides
      BY <1>2, <1>3, <2>2
    <3>2. t[Toward(k, x)][x] \in S \cup {Nil}
      BY <2>2, <3>1, Child
    <3> QED
      BY <3>1, <3>2
  <2>4. /\ c \in S \cup {Nil} /\ sub[x] = {x} \cup sub[c] \cup sub[t[Other(d)][x]]
        /\ x \notin sub[c] /\ sub[c] \cap sub[t[Other(d)][x]] = {} /\ x \in sub[x]
        /\ x \in Keys /\ x \in Int /\ sub[c] \subseteq S
        /\ t[Other(d)][x] \in S \cup {Nil}
    <3>1. /\ sub[x] = {x} \cup sub[t[d][x]] \cup sub[t[Other(d)][x]]
          /\ x \notin sub[t[d][x]] /\ sub[t[d][x]] \cap sub[t[Other(d)][x]] = {}
          /\ x \in sub[x] /\ sub[x] \subseteq S
      BY <2>2, Child
    <3>2. t[Other(d)][x] \in S \cup {Nil}
      BY <2>2, TwoSides, Child
    <3> QED
      BY <1>2, <2>2, <2>3, <3>1, <3>2
  <2>5. f[x] = <<x>> \o f[c]
    BY <1>4, <2>2, <2>3
  <2>6. k \in sub[x] => k = x \/ k \in sub[c]
    <3>1. \A e \in Sides : \A y \in sub[t[e][x]] : Beyond(e, x, y)
      BY <2>2 DEF Shape, Spans
    <3>2. k \in sub[t[Other(d)][x]] => Beyond(Other(d), x, k)
      BY <3>1, TwoSides
    <3>3. ~Beyond(Other(d), x, k)
      BY <1>2, <2>3, <2>4 DEF Beyond, Other, Toward
    <3> QED
      BY <2>4, <3>2, <3>3
  <2>7. ASSUME NEW z \in sub[t[Other(d)][x]]
        PROVE  sub[z] \cap sub[c] = {} /\ x \notin sub[z]
    <3>1. t[Other(d)][x] \in S
      BY <1>2, <2>4, <2>7
    <3>2. sub[z] \subseteq sub[t[Other(d)][x]]
      BY <2>7, <3>1, Within
    <3>3. x \notin sub[t[Other(d)][x]]
      BY <2>2, TwoSides, Child
    <3> QED
      BY <2>4, <3>2, <3>3
  <2>8. CASE c = Nil
    <3>1. f[c] = <<>> /\ sub[c] = {}
      BY <1>2, <1>4, <2>8
    <3>2. f[x] \in Seq(Keys) /\ f[x] # <<>> /\ ToSet(f[x]) = {x} /\ Last(f[x]) = x
      <4>1. PICK e : e = <<>>
        OBVIOUS
      <4>2. e \in Seq(Keys) /\ ToSet(e) = {} /\ Begins(f[x], x, e)
        BY <2>5, <3>1, <4>1 DEF ToSet, Begins
      <4>3. x \in Keys
        BY <2>4
      <4>4. /\ f[x] \in Seq(Keys) /\ f[x] # <<>> /\ ToSet(f[x]) = {x} \cup ToSet(e)
            /\ e = <<>> => Last(f[x]) = x
        BY <4>2, <4>3, Begun
      <4> QED
        BY <4>1, <4>2, <4>4
    <3>3. \A z \in sub[x] : x \in sub[z] => z = x
      BY <2>4, <2>7, <3>1
    <3>4. t[Toward(k, x)][x] = Nil
      BY <2>3, <2>8
    <3> QED
      BY <2>2, <2>4, <2>6, <3>1, <3>2, <3>3, <3>4
  <2>9. CASE c # Nil
    <3>1. c \in S /\ Good(c)
      <4> HIDE DEF Good
      <4> QED
        BY <1>5, <2>1, <2>3, <2>4, <2>9
    <3>2. PICK y : y = Last(f[c])
      OBVIOUS
    <3>3. /\ f[x] \in Seq(Keys) /\ f[x] # <<>> /\ ToSet(f[x]) = {x} \cup ToSet(f[c])
          /\ Last(f[x]) = y
      <4>1. Begins(f[x], x, f[c])
        BY <2>5 DEF Begins
      <4> QED
        BY <2>4, <3>1, <3>2, <4>1, Begun
    <3>4. /\ y \in sub[c] /\ t[Toward(k, y)][y] = Nil
          /\ \A z \in sub[c] : y \in sub[z] /\ z # y => y \in sub[t[Toward(k, z)][z]]
      BY <3>1, <3>2
    <3>5. ASSUME NEW z \in sub[x], y \in sub[z], z # y
          PROVE  y \in sub[t[Toward(k, z)][z]]
      <4>1. CASE z = x
        BY <2>3, <3>4, <4>1
      <4>2. CASE z \in sub[c]
        BY <3>4, <3>5, <4>2
      <4>3. CASE z \in sub[t[Other(d)][x]]
        BY <2>7, <3>4, <3>5, <4>3
      <4> QED
        BY <2>4, <4>1, <4>2, <4>3
    <3>6. Ends(x, Last(f[x]))
      BY <2>4, <3>3, <3>4, <3>5
    <3>7. ToSet(f[x]) \subseteq sub[x] /\ (k \in sub[x] => k \in ToSet(f[x]))
      BY <2>4, <2>6, <3>1, <3>3
    <3> HIDE DEF Ends
    <3> QED
      BY <2>2, <3>3, <3>6, <3>7
  <2> QED
    BY <2>8, <2>9
<1>7. CASE t.root = Nil
  <2>1. S = {} /\ s = <<>>
    BY <1>1, <1>2, <1>4, <1>7, Zenon
  <2>2. ToSet(<<>>) = {}
    BY DEF ToSet
  <2> QED
    BY <1>7, <2>1, <2>2
<1>8. CASE t.root # Nil
  <2>1. Good(t.root)
    <3> HIDE DEF Good
    <3> QED
      BY <1>2, <1>5, <1>6, <1>8
  <2> QED
    BY <1>1, <1>2, <2>1, Zenon
<1> QED
  BY <1>7, <1>8

(* The least key below a node. *)
LEMMA LeastIs ==
  ASSUME NEW t, NEW S, NEW sub, Shape(t, S, sub), NEW n \in S
  PROVE  /\ Least(t, n) \in sub[n] /\ t.left[Least(t, n)] = Nil
         /\ \A y \in sub[n] : Least(t, n) <= y
<1>1. PICK f : /\ f = [x \in Pointers |->
                        IF x \notin Keys \/ t.left[x] = Nil THEN x ELSE f[t.left[x]]]
               /\ Least(t, n) = f[n]
  BY LeastExists DEF Least
<1>2. /\ S \subseteq Keys /\ Keys \subseteq Cells /\ Cells \subseteq Pointers
      /\ Nil \notin Keys /\ Keys \subseteq Int /\ t.left = t["left"]
      /\ "left" \in Sides /\ Other("left") = "right" /\ sub[Nil] = {}
  BY CellFacts, Fields DEF Shape, Linked, Spans, Sides, Other
<1> DEFINE Good(x) == f[x] \in sub[x] /\ t.left[f[x]] = Nil /\ \A y \in sub[x] : f[x] <= y
<1>3. PICK T : T = {x \in S : ~Good(x)}
  OBVIOUS
<1>4. T = {}
  <2> SUFFICES ASSUME T # {} PROVE FALSE
    OBVIOUS
  <2>1. PICK x \in T : \A d \in Sides : t[d][x] \notin T
    <3>1. T \in SUBSET S
      BY <1>3
    <3> QED
      BY <3>1, Deepest
  <2>2. x \in S /\ ~Good(x)
    BY <1>3
  <2>3. PICK c : c = t["left"][x]
    OBVIOUS
  <2>4. /\ c \in S \cup {Nil} /\ x \in sub[x] /\ x \in Int /\ sub[x] \subseteq Int
        /\ sub[x] = {x} \cup sub[c] \cup sub[t["right"][x]]
    <3>1. /\ c \in S \cup {Nil} /\ x \in sub[x] /\ sub[x] \subseteq S
          /\ sub[x] = {x} \cup sub[c] \cup sub[t["right"][x]]
      BY <1>2, <2>2, <2>3, Child
    <3> QED
      BY <1>2, <2>2, <3>1
  <2>5. /\ \A y \in sub[c] : y < x
        /\ \A y \in sub[t["right"][x]] : x < y
    BY <2>2, <2>3 DEF Shape, Spans, Beyond, Sides
  <2>6. f[x] = IF c = Nil THEN x ELSE f[c]
    <3>1. x \in Keys /\ x \in Pointers
      BY <1>2, <2>2
    <3> QED
      BY <1>1, <1>2, <2>3, <3>1
  <2>7. CASE c = Nil
    <3>1. f[x] = x /\ sub[c] = {} /\ t.left[x] = Nil
      BY <1>2, <2>3, <2>6, <2>7
    <3>2. \A y \in sub[x] : x <= y
      BY <2>4, <2>5, <3>1
    <3> QED
      BY <2>2, <2>4, <3>1, <3>2
  <2>8. CASE c # Nil
    <3>1. Good(c)
      <4> HIDE DEF Good
      <4> QED
        BY <1>3, <2>1, <2>3, <2>4, <2>8, <1>2
    <3>2. PICK m : m = f[c]
      OBVIOUS
    <3>3. m \in sub[c] /\ m \in sub[x] /\ t.left[m] = Nil /\ \A y \in sub[c] : m <= y
      BY <2>4, <3>1, <3>2
    <3>4. m < x /\ m \in Int
      BY <2>4, <2>5, <3>3
    <3>5. \A y \in sub[x] : m <= y
      BY <2>4, <2>5, <3>3, <3>4
    <3>6. f[x] = m
      BY <2>6, <2>8, <3>2
    <3> QED
      BY <2>2, <3>3, <3>5, <3>6
  <2> QED
    BY <2>7, <2>8
<1>5. Good(n)
  <2> HIDE DEF Good
  <2> QED
    BY <1>3, <1>4
<1> QED
  BY <1>1, <1>5

(* With a key the set has all the greater ones. *)
Upward(lefts) == \A a \in Keys : \A b \in Keys : a \in lefts /\ a < b => b \in lefts

(* m is the least of M. *)
IsLeast(m, M) == m \in M /\ \A y \in M : m <= y

(* The least key of a set the searches turn left at, or the least of all. *)
LEMMA LastLeftIs ==
  ASSUME NEW t, NEW S, NEW sub, Shape(t, S, sub), S # {}, NEW lefts, Upward(lefts)
  PROVE  /\ S \cap lefts # {} => IsLeast(LastLeft(t, lefts), S \cap lefts)
         /\ S \cap lefts = {} => IsLeast(LastLeft(t, lefts), S)
<1>1. PICK f : /\ f = [x \in Pointers |-> IF x \notin Keys THEN Nil
                         ELSE IF x \notin lefts THEN f[t.right[x]]
                         ELSE IF f[t.left[x]] = Nil THEN x ELSE f[t.left[x]]]
               /\ LastLeft(t, lefts) = IF f[t.root] = Nil THEN Least(t, t.root) ELSE f[t.root]
  BY LastExists
<1>2. /\ S \subseteq Keys /\ Keys \subseteq Cells /\ Cells \subseteq Pointers /\ Nil \in Cells
      /\ Nil \notin Keys /\ Keys \subseteq Int /\ t.left = t["left"] /\ t.right = t["right"]
      /\ "left" \in Sides /\ "right" \in Sides /\ Other("left") = "right"
      /\ sub[Nil] = {} /\ sub[t.root] = S /\ t.root \in S \cup {Nil}
  BY CellFacts, Fields DEF Shape, Linked, Spans, Sides, Other
<1>3. t.root \in S
  BY <1>2
<1> DEFINE Good(x) ==
             /\ sub[x] \cap lefts = {} => f[x] = Nil
             /\ sub[x] \cap lefts # {} => IsLeast(f[x], sub[x] \cap lefts)
<1>4. f[Nil] = Nil /\ Good(Nil)
  BY <1>1, <1>2
<1>5. PICK T : T = {x \in S : ~Good(x)}
  OBVIOUS
<1>6. T = {}
  <2> SUFFICES ASSUME T # {} PROVE FALSE
    OBVIOUS
  <2>1. PICK x \in T : \A d \in Sides : t[d][x] \notin T
    <3>1. T \in SUBSET S
      BY <1>5
    <3> QED
      BY <3>1, Deepest
  <2>2. x \in S /\ ~Good(x)
    BY <1>5
  <2>3. PICK a, b : a = t["left"][x] /\ b = t["right"][x]
    OBVIOUS
  <2>4. /\ a \in S \cup {Nil} /\ b \in S \cup {Nil}
        /\ x \in sub[x] /\ x \in Int /\ x \in Keys /\ sub[x] \subseteq Keys
        /\ sub[x] = {x} \cup sub[a] \cup sub[b]
    <3>1. b \in S \cup {Nil}
      BY <1>2, <2>2, <2>3, Child
    <3>2. a \in S \cup {Nil} /\ x \in sub[x] /\ sub[x] = {x} \cup sub[a] \cup sub[b] /\ sub[x] \subseteq S
      BY <1>2, <2>2, <2>3, Child
    <3> QED
      BY <1>2, <2>2, <3>1, <3>2
  <2>5. (\A y \in sub[a] : y < x) /\ (\A y \in sub[b] : x < y)
    BY <2>2, <2>3 DEF Shape, Spans, Beyond, Sides
  <2>6. Good(a) /\ Good(b)
    <3> HIDE DEF Good
    <3> QED
      BY <1>2, <1>4, <1>5, <2>1, <2>3, <2>4
  <2>7. f[x] = IF x \notin lefts THEN f[b] ELSE IF f[a] = Nil THEN x ELSE f[a]
    <3>1. x \in Pointers
      BY <1>2, <2>4
    <3> QED
      BY <1>1, <1>2, <2>3, <2>4, <3>1
  <2>8. CASE x \notin lefts
    <3>1. sub[a] \cap lefts = {}
      BY <1>2, <2>4, <2>5, <2>8 DEF Upward
    <3>2. sub[x] \cap lefts = sub[b] \cap lefts
      BY <2>4, <2>8, <3>1
    <3> QED
      BY <2>2, <2>6, <2>7, <2>8, <3>2
  <2>9. CASE x \in lefts
    <3>1. sub[x] \cap lefts # {}
      BY <2>4, <2>9
    <3>2. CASE sub[a] \cap lefts = {}
      <4>1. f[x] = x
        BY <2>6, <2>7, <2>9, <3>2
      <4>2. IsLeast(x, sub[x] \cap lefts)
        <5>1. ASSUME NEW y \in sub[x] \cap lefts
              PROVE  x <= y
          <6>1. y = x \/ y \in sub[b]
            BY <2>4, <3>2, <5>1
          <6>2. y \in Int
            BY <1>2, <2>4
          <6> QED
            BY <2>4, <2>5, <6>1, <6>2
        <5> QED
          BY <2>4, <2>9, <5>1 DEF IsLeast
      <4> QED
        BY <2>2, <3>1, <4>1, <4>2
    <3>3. CASE sub[a] \cap lefts # {}
      <4>1. PICK m : m = f[a]
        OBVIOUS
      <4>2. m \in sub[a] /\ m \in lefts /\ \A y \in sub[a] \cap lefts : m <= y
        BY <2>6, <3>3, <4>1 DEF IsLeast
      <4>3. m \in Keys /\ m < x /\ m \in sub[x] /\ m \in Int
        BY <1>2, <2>4, <2>5, <4>2
      <4>4. f[x] = m
        BY <1>2, <2>7, <2>9, <4>1, <4>3
      <4>5. ASSUME NEW y \in sub[x] \cap lefts
            PROVE  m <= y
        <5>1. y = x \/ y \in sub[b] \/ y \in sub[a]
          BY <2>4, <4>5
        <5>2. y \in Int
          BY <1>2, <2>4
        <5> QED
          BY <2>4, <2>5, <4>2, <4>3, <5>1, <5>2
      <4> QED
        BY <2>2, <3>1, <4>2, <4>3, <4>4, <4>5 DEF IsLeast
    <3> QED
      BY <3>2, <3>3
  <2> QED
    BY <2>8, <2>9
<1>7. Good(t.root)
  <2> HIDE DEF Good
  <2> QED
    BY <1>3, <1>5, <1>6
<1>8. CASE S \cap lefts # {}
  <2>1. IsLeast(f[t.root], S \cap lefts)
    BY <1>2, <1>7, <1>8
  <2>2. f[t.root] # Nil
    BY <1>2, <2>1 DEF IsLeast
  <2> QED
    BY <1>1, <1>8, <2>1, <2>2
<1>9. CASE S \cap lefts = {}
  <2>1. f[t.root] = Nil
    BY <1>2, <1>7, <1>9
  <2>2. LastLeft(t, lefts) = Least(t, t.root)
    BY <1>1, <2>1
  <2>3. IsLeast(Least(t, t.root), S)
    <3>1. /\ Least(t, t.root) \in sub[t.root]
          /\ \A y \in sub[t.root] : Least(t, t.root) <= y
      BY <1>3, LeastIs
    <3> QED
      BY <1>2, <3>1 DEF IsLeast
  <2> QED
    BY <1>9, <2>2, <2>3
<1> QED
  BY <1>8, <1>9

-----------------------------------------------------------------------------
(* A new leaf *)

Links(r, t, k) == r = Link(t, k)

LEMMA FirstLinked ==
  ASSUME NEW t \in Trees, t.root = Nil, NEW k \in Keys, NEW r, Links(r, t, k)
  PROVE  /\ r \in Trees /\ r.root = k
         /\ \A z \in Cells :
              /\ r.parent[z] = IF z = k THEN Nil ELSE t.parent[z]
              /\ r.color[z] = IF z = k THEN "red" ELSE t.color[z]
              /\ \A e \in Sides : r[e][z] = IF z = k THEN Nil ELSE t[e][z]
<1>1. PICK ls, rs, cs, ps :
        /\ ls = [t.left EXCEPT ![k] = Nil] /\ rs = [t.right EXCEPT ![k] = Nil]
        /\ cs = [t.color EXCEPT ![k] = "red"] /\ ps = [t.parent EXCEPT ![k] = Nil]
  OBVIOUS
<1>2. k \in Cells /\ Nil \in Pointers /\ "red" \in Colors
  BY CellFacts DEF Colors
<1>3. r = [t EXCEPT !.left = ls, !.right = rs, !.color = cs, !.root = k, !.parent = ps]
  BY <1>1, <1>2 DEF Trees, Links, Link
<1>4. /\ ls \in [Cells -> Pointers] /\ rs \in [Cells -> Pointers]
      /\ cs \in [Cells -> Colors] /\ ps \in [Cells -> Pointers]
      /\ \A z \in Cells :
           /\ ls[z] = IF z = k THEN Nil ELSE t.left[z]
           /\ rs[z] = IF z = k THEN Nil ELSE t.right[z]
           /\ cs[z] = IF z = k THEN "red" ELSE t.color[z]
           /\ ps[z] = IF z = k THEN Nil ELSE t.parent[z]
  BY <1>1, <1>2, Fields DEF Trees
<1> QED
  BY <1>2, <1>3, <1>4 DEF Trees, Sides

LEMMA LeafLinked ==
  ASSUME NEW t \in Trees, t.root # Nil, NEW k \in Keys, NEW r, Links(r, t, k),
         NEW y, y = Last(Path(t, Above(k))), y \in Keys, y # k
  PROVE  /\ r \in Trees /\ r.root = t.root
         /\ \A z \in Cells :
              /\ r.parent[z] = IF z = k THEN y ELSE t.parent[z]
              /\ r.color[z] = IF z = k THEN "red" ELSE t.color[z]
              /\ \A e \in Sides : r[e][z] = IF z = k THEN Nil
                                            ELSE IF z = y /\ e = Toward(k, y) THEN k
                                            ELSE t[e][z]
<1>1. PICK d, ls, rs, cs, ps :
        /\ d = Toward(k, y)
        /\ ls = [t.left EXCEPT ![k] = Nil] /\ rs = [t.right EXCEPT ![k] = Nil]
        /\ cs = [t.color EXCEPT ![k] = "red"] /\ ps = [t.parent EXCEPT ![k] = y]
  OBVIOUS
<1>2. k \in Cells /\ Nil \in Pointers /\ "red" \in Colors /\ k \in Pointers /\ y \in Pointers /\ y \in Cells
  BY CellFacts DEF Colors
<1>4. /\ ls \in [Cells -> Pointers] /\ rs \in [Cells -> Pointers]
      /\ cs \in [Cells -> Colors] /\ ps \in [Cells -> Pointers]
      /\ \A z \in Cells :
           /\ ls[z] = IF z = k THEN Nil ELSE t.left[z]
           /\ rs[z] = IF z = k THEN Nil ELSE t.right[z]
           /\ cs[z] = IF z = k THEN "red" ELSE t.color[z]
           /\ ps[z] = IF z = k THEN y ELSE t.parent[z]
  BY <1>1, <1>2, Fields DEF Trees
<1>5. CASE d = "left"
  <2>1. PICK ms : ms = [ls EXCEPT ![y] = k]
    OBVIOUS
  <2>2. /\ ms \in [Cells -> Pointers]
        /\ \A z \in Cells : ms[z] = IF z = y THEN k ELSE ls[z]
    BY <1>2, <1>4, <2>1
  <2>3. r = [t EXCEPT !.left = ms, !.right = rs, !.color = cs, !.parent = ps]
    BY <1>1, <1>2, <1>5, <2>1 DEF Trees, Links, Link, Toward
  <2>4. \A z \in Cells : ms[z] = IF z = k THEN Nil ELSE IF z = y THEN k ELSE t.left[z]
    BY <1>4, <2>2
  <2>5. /\ r \in Trees /\ r.root = t.root /\ r.parent = ps /\ r.color = cs
        /\ r["left"] = ms /\ r["right"] = rs
    BY <1>4, <2>2, <2>3 DEF Trees
  <2>6. ASSUME NEW z \in Cells, NEW e \in Sides
        PROVE  r[e][z] = IF z = k THEN Nil
                         ELSE IF z = y /\ e = Toward(k, y) THEN k ELSE t[e][z]
    <3>1. CASE e = "left"
      BY <1>1, <1>4, <1>5, <2>4, <2>5, <3>1
    <3>2. CASE e = "right"
      BY <1>1, <1>4, <1>5, <2>4, <2>5, <3>2
    <3> QED
      BY <3>1, <3>2 DEF Sides
  <2> QED
    BY <1>4, <2>5, <2>6
<1>6. CASE d = "right"
  <2>1. PICK ms : ms = [rs EXCEPT ![y] = k]
    OBVIOUS
  <2>2. /\ ms \in [Cells -> Pointers]
        /\ \A z \in Cells : ms[z] = IF z = y THEN k ELSE rs[z]
    BY <1>2, <1>4, <2>1
  <2>3. r = [t EXCEPT !.left = ls, !.right = ms, !.color = cs, !.parent = ps]
    BY <1>1, <1>2, <1>6, <2>1 DEF Trees, Links, Link, Toward
  <2>4. \A z \in Cells : ms[z] = IF z = k THEN Nil ELSE IF z = y THEN k ELSE t.right[z]
    BY <1>4, <2>2
  <2>5. /\ r \in Trees /\ r.root = t.root /\ r.parent = ps /\ r.color = cs
        /\ r["left"] = ls /\ r["right"] = ms
    BY <1>4, <2>2, <2>3 DEF Trees
  <2>6. ASSUME NEW z \in Cells, NEW e \in Sides
        PROVE  r[e][z] = IF z = k THEN Nil
                         ELSE IF z = y /\ e = Toward(k, y) THEN k ELSE t[e][z]
    <3>1. CASE e = "left"
      BY <1>1, <1>4, <1>6, <2>4, <2>5, <3>1
    <3>2. CASE e = "right"
      BY <1>1, <1>4, <1>6, <2>4, <2>5, <3>2
    <3> QED
      BY <3>1, <3>2 DEF Sides
  <2> QED
    BY <1>4, <2>5, <2>6
<1> QED
  BY <1>1, <1>5, <1>6 DEF Toward

LEMMA FirstKeeps ==
  ASSUME NEW t, NEW S, NEW sub, Shape(t, S, sub), NEW bh, Settled(t, S, bh), t.root = Nil,
         NEW k \in Keys, k \notin S, NEW r, Links(r, t, k)
  PROVE  \E sub2, bh2 : Shape(r, S \cup {k}, sub2) /\ Inserting(r, S \cup {k}, bh2, k)
<1>1. /\ S = {} /\ t \in Trees /\ k \in Cells /\ k # Nil /\ Nil \in Cells
      /\ t.color[Nil] = "black" /\ (\A x \in Cells : \A d \in Sides : t[d][x] = NULL)
  BY CellFacts DEF Shape, Linked, Spans, Settled
<1>2. /\ r \in Trees /\ r.root = k
      /\ \A z \in Cells :
           /\ r.parent[z] = IF z = k THEN Nil ELSE t.parent[z]
           /\ r.color[z] = IF z = k THEN "red" ELSE t.color[z]
           /\ \A e \in Sides : r[e][z] = IF z = k THEN Nil ELSE t[e][z]
  BY <1>1, FirstLinked
<1>3. PICK R, sub2, bh2 : /\ R = {k} /\ sub2 = [x \in Cells |-> IF x = k THEN {k} ELSE {}]
                          /\ bh2 = [x \in Cells |-> 1]
  OBVIOUS
<1>4. Linked(r, R)
  BY <1>1, <1>2, <1>3 DEF Linked
<1>5. Spans(r, R, sub2)
  BY <1>1, <1>2, <1>3 DEF Spans, Sides
<1>6. PlainHeights(r, R, bh2)
  <2>1. Weight(r, k) = 0 /\ 1 = 1 + 0
    BY <1>1, <1>2 DEF Weight
  <2>2. \A d \in Sides : r[d][k] = Nil
    BY <1>1, <1>2
  <2>3. bh2 \in [Cells -> Nat \ {0}] /\ bh2[Nil] = 1 /\ bh2[k] = 1
    BY <1>1, <1>3
  <2> QED
    BY <1>3, <2>1, <2>2, <2>3 DEF PlainHeights
<1>7. Shape(r, R, sub2)
  BY <1>4, <1>5 DEF Shape
<1>8. Heights(r, R, bh2, Nil, FALSE)
  BY <1>6, <1>7, NothingOwed
<1>9. Inserting(r, R, bh2, k)
  BY <1>1, <1>2, <1>3, <1>8 DEF Inserting, RedPair
<1> QED
  BY <1>1, <1>3, <1>7, <1>9

LEMMA LeafKeeps ==
  ASSUME NEW t, NEW S, NEW sub, Shape(t, S, sub), NEW bh, Settled(t, S, bh), t.root # Nil,
         NEW k \in Keys, k \notin S, NEW r, Links(r, t, k)
  PROVE  \E sub2, bh2 : Shape(r, S \cup {k}, sub2) /\ Inserting(r, S \cup {k}, bh2, k)
<1>1. /\ S \subseteq Cells /\ S \subseteq Keys /\ t \in Trees /\ k \in Cells /\ k # Nil
      /\ Nil \in Cells /\ Nil \notin S /\ Keys \subseteq Int
      /\ t.root \in S /\ t.color[Nil] = "black" /\ t.color[t.root] = "black"
  BY CellFacts DEF Shape, Linked, Settled
<1>2. PICK y, d : y = Last(Path(t, Above(k))) /\ d = Toward(k, y)
  OBVIOUS
<1>3. /\ y \in S /\ y # k /\ y \in Keys /\ d \in Sides /\ t[d][y] = Nil
      /\ \A z \in S : y \in sub[z] /\ z # y => y \in sub[t[Toward(k, z)][z]]
  BY <1>1, <1>2, PathIs, ZenonT(40) DEF Toward, Sides
<1>4. /\ r \in Trees /\ r.root = t.root
      /\ \A z \in Cells :
           /\ r.parent[z] = IF z = k THEN y ELSE t.parent[z]
           /\ r.color[z] = IF z = k THEN "red" ELSE t.color[z]
           /\ \A e \in Sides : r[e][z] = IF z = k THEN Nil
                                         ELSE IF z = y /\ e = d THEN k
                                         ELSE t[e][z]
  BY <1>1, <1>2, <1>3, LeafLinked
<1>5. PICK R, sub2, bh2 :
        /\ R = S \cup {k}
        /\ sub2 = [x \in Cells |-> IF x = k THEN {k}
                                   ELSE IF y \in sub[x] THEN sub[x] \cup {k} ELSE sub[x]]
        /\ bh2 = [bh EXCEPT ![k] = 1]
  OBVIOUS
<1>6. /\ \A x \in S : x # t.root =>
           t.parent[x] \in S /\ \E e \in Sides : t[e][t.parent[x]] = x
      /\ \A x \in S : \A e \in Sides :
           /\ t[e][x] \in S \cup {Nil}
           /\ t[e][x] # Nil => t.parent[t[e][x]] = x /\ t[e][x] # t.root
      /\ \A x \in Cells \ S : \A e \in Sides : t[e][x] = NULL
      /\ sub \in [Cells -> SUBSET S] /\ sub[Nil] = {} /\ sub[t.root] = S
  BY DEF Shape, Linked, Spans
<1>7. Linked(r, R)
  <2>1. ASSUME NEW x \in R, x # r.root
        PROVE  r.parent[x] \in R /\ \E e \in Sides : r[e][r.parent[x]] = x
    <3>1. CASE x = k
      <4>1. r.parent[x] = y /\ r[d][y] = k
        BY <1>1, <1>3, <1>4, <3>1
      <4> QED
        BY <1>3, <1>5, <3>1, <4>1
    <3>2. CASE x # k
      <4>1. x \in S /\ x # t.root /\ r.parent[x] = t.parent[x] /\ t.parent[x] \in S
        BY <1>1, <1>4, <1>5, <1>6, <2>1, <3>2
      <4>2. PICK e \in Sides : t[e][t.parent[x]] = x
        BY <1>6, <4>1
      <4>3. r[e][t.parent[x]] = x
        BY <1>1, <1>3, <1>4, <4>1, <4>2
      <4> QED
        BY <1>5, <4>1, <4>3
    <3> QED
      BY <3>1, <3>2
  <2>2. ASSUME NEW x \in R, NEW e \in Sides
        PROVE  /\ r[e][x] \in R \cup {Nil}
               /\ r[e][x] # Nil => r.parent[r[e][x]] = x /\ r[e][x] # r.root
    <3>1. CASE x = k
      BY <1>1, <1>4, <3>1
    <3>2. CASE x = y /\ e = d
      BY <1>1, <1>3, <1>4, <1>5, <3>2
    <3>3. CASE x # k /\ ~(x = y /\ e = d)
      <4>1. r[e][x] = t[e][x] /\ x \in S
        BY <1>1, <1>4, <1>5, <3>3
      <4>2. /\ t[e][x] \in S \cup {Nil}
            /\ t[e][x] # Nil => t.parent[t[e][x]] = x /\ t[e][x] # t.root
        BY <1>6, <4>1
      <4> QED
        <5>1. r[e][x] \in R \cup {Nil}
          BY <1>5, <4>1, <4>2
        <5>2. r[e][x] # Nil => r[e][x] \in Cells /\ r[e][x] # k
          BY <1>1, <4>1, <4>2
        <5> QED
          BY <1>4, <4>1, <4>2, <5>1, <5>2
    <3> QED
      BY <3>1, <3>2, <3>3
  <2>3. \A x \in Cells \ R : \A e \in Sides : r[e][x] = NULL
    BY <1>3, <1>4, <1>5, <1>6
  <2>4. R \subseteq Keys /\ r.root \in R \cup {Nil}
    BY <1>1, <1>4, <1>5
  <2> QED
    BY <1>4, <2>1, <2>2, <2>3, <2>4 DEF Linked
<1>8. /\ sub2 \in [Cells -> SUBSET R]
      /\ \A x \in Cells : sub2[x] = IF x = k THEN {k}
                                    ELSE IF y \in sub[x] THEN sub[x] \cup {k} ELSE sub[x]
      /\ sub2[Nil] = {} /\ sub2[r.root] = R
  <2>1. \A x \in Cells : sub2[x] = IF x = k THEN {k}
                                   ELSE IF y \in sub[x] THEN sub[x] \cup {k} ELSE sub[x]
    BY <1>5
  <2>2. \A x \in Cells : sub2[x] \subseteq R
    BY <1>5, <1>6, <2>1
  <2>3. sub2 \in [Cells -> SUBSET R]
    BY <1>5, <2>2
  <2>4. sub2[Nil] = {}
    BY <1>1, <1>6, <2>1
  <2>5. t.root # k /\ t.root \in Cells /\ y \in sub[t.root]
    BY <1>1, <1>3, <1>6
  <2>6. sub2[r.root] = R
    BY <1>4, <1>5, <1>6, <2>1, <2>5
  <2> QED
    BY <2>1, <2>3, <2>4, <2>6
<1>9. ASSUME NEW x \in S, NEW e \in Sides
      PROVE  sub2[r[e][x]] = IF y \in sub[x] /\ e = Toward(k, x) THEN sub[t[e][x]] \cup {k}
                             ELSE sub[t[e][x]]
  <2>1. /\ t[e][x] \in S \cup {Nil} /\ sub[t[e][x]] \cap sub[t[Other(e)][x]] = {}
        /\ sub[x] = {x} \cup sub[t[e][x]] \cup sub[t[Other(e)][x]] /\ x \in sub[x]
        /\ x \notin sub[t[e][x]]
    BY Child
  <2>2. CASE x = y
    <3>1. CASE e = d
      <4>1. r[e][x] = k /\ t[e][x] = Nil
        BY <1>1, <1>3, <1>4, <2>2, <3>1
      <4> QED
        BY <1>1, <1>2, <1>6, <1>8, <2>1, <2>2, <3>1, <4>1
    <3>2. CASE e # d
      <4>1. r[e][x] = t[e][x] /\ t[e][x] # k
        BY <1>1, <1>3, <1>4, <2>1, <2>2, <3>2
      <4> QED
        <5>1. e # Toward(k, x)
          BY <1>2, <2>2, <3>2
        <5>2. y \notin sub[t[e][x]] /\ t[e][x] \in Cells
          BY <1>1, <2>1, <2>2
        <5>3. sub2[t[e][x]] = sub[t[e][x]]
          BY <1>8, <4>1, <5>2
        <5> QED
          BY <4>1, <5>1, <5>3
    <3> QED
      BY <3>1, <3>2
  <2>3. CASE x # y
    <3>1. r[e][x] = t[e][x] /\ t[e][x] # k /\ t[e][x] \in Cells
      BY <1>1, <1>4, <2>1, <2>3
    <3>2. y \in sub[t[e][x]] <=> y \in sub[x] /\ e = Toward(k, x)
      <4>1. y \in sub[x] => y \in sub[t[Toward(k, x)][x]]
        BY <1>3, <2>3
      <4>2. Toward(k, x) = e \/ Toward(k, x) = Other(e)
        BY TwoSides DEF Toward, Sides
      <4> QED
        BY <2>1, <4>1, <4>2, TwoSides
    <3> QED
      BY <1>8, <3>1, <3>2
  <2> QED
    BY <2>2, <2>3
<1>10. Spans(r, R, sub2)
  <2>1. ASSUME NEW x \in R
        PROVE  sub2[x] = {x} \cup sub2[r["left"][x]] \cup sub2[r["right"][x]]
    <3>1. "left" \in Sides /\ "right" \in Sides
      BY DEF Sides
    <3>2. CASE x = k
      BY <1>1, <1>4, <1>8, <3>1, <3>2
    <3>3. CASE x # k
      <4>1. x \in S /\ x \in Cells
        BY <1>1, <1>5, <3>3
      <4>2. sub[x] = {x} \cup sub[t["left"][x]] \cup sub[t["right"][x]]
        BY <4>1 DEF Shape, Spans
      <4>3. Toward(k, x) = "left" \/ Toward(k, x) = "right"
        BY DEF Toward
      <4> QED
        BY <1>8, <1>9, <3>1, <3>3, <4>1, <4>2, <4>3, ZenonT(40)
    <3> QED
      BY <3>2, <3>3
  <2>2. ASSUME NEW x \in R, NEW e \in Sides, NEW z \in sub2[r[e][x]]
        PROVE  Beyond(e, x, z)
    <3>1. CASE x = k
      BY <1>1, <1>4, <1>8, <2>2, <3>1
    <3>2. CASE x # k
      <4>1. x \in S /\ x \in Int
        BY <1>1, <1>5, <3>2
      <4>2. z \in sub[t[e][x]] => Beyond(e, x, z)
        BY <4>1 DEF Shape, Spans
      <4>3. z = k /\ e = Toward(k, x) => Beyond(e, x, z)
        BY <1>1, <3>2, <4>1 DEF Beyond, Toward
      <4> QED
        BY <1>9, <2>2, <4>1, <4>2, <4>3
    <3> QED
      BY <3>1, <3>2
  <2> QED
    BY <1>8, <2>1, <2>2 DEF Spans
<1>11. Shape(r, R, sub2)
  BY <1>7, <1>10 DEF Shape
<1>12. /\ bh \in [Cells -> Nat \ {0}] /\ bh[Nil] = 1
       /\ \A x \in S : \A e \in Sides : bh[x] = bh[t[e][x]] + Weight(t, x)
  <2>1. PlainHeights(t, S, bh)
    BY NothingOwed DEF Settled
  <2> QED
    BY <2>1 DEF PlainHeights
<1>13. /\ bh2 \in [Cells -> Nat \ {0}] /\ bh2[Nil] = 1 /\ bh2[k] = 1
       /\ \A z \in Cells : z # k => bh2[z] = bh[z]
  BY <1>1, <1>5, <1>12
<1>14. PlainHeights(r, R, bh2)
  <2>1. ASSUME NEW x \in R, NEW e \in Sides
        PROVE  bh2[x] = bh2[r[e][x]] + Weight(r, x)
    <3>1. CASE x = k
      <4>1. Weight(r, k) = 0 /\ r[e][k] = Nil /\ 1 = 1 + 0
        BY <1>1, <1>4 DEF Weight
      <4> QED
        BY <1>13, <3>1, <4>1
    <3>2. CASE x # k
      <4>1. x \in S /\ x \in Cells /\ t[e][x] \in S \cup {Nil}
        BY <1>1, <1>5, <1>6, <3>2
      <4>2. Weight(r, x) = Weight(t, x)
        BY <1>4, <3>2, <4>1 DEF Weight
      <4>3. bh2[r[e][x]] = bh[t[e][x]]
        BY <1>1, <1>3, <1>4, <1>12, <1>13, <3>2, <4>1, ZenonT(40)
      <4> QED
        BY <1>12, <1>13, <3>2, <4>1, <4>2, <4>3
    <3> QED
      BY <3>1, <3>2
  <2> QED
    BY <1>13, <2>1 DEF PlainHeights
<1>15. Heights(r, R, bh2, Nil, FALSE)
  BY <1>11, <1>14, NothingOwed
<1>16. ASSUME NEW x \in R, RedPair(r, x)
       PROVE  x = k
  <2> SUFFICES ASSUME x # k PROVE FALSE
    OBVIOUS
  <2>1. x \in S /\ x \in Cells /\ x # t.root /\ r.parent[x] = t.parent[x] /\ t.parent[x] \in S
    BY <1>1, <1>4, <1>5, <1>6, <1>16 DEF RedPair
  <2>2. RedPair(t, x)
    BY <1>1, <1>4, <1>16, <2>1 DEF RedPair
  <2> QED
    BY <2>1, <2>2 DEF Settled
<1>17. Inserting(r, R, bh2, k)
  BY <1>1, <1>4, <1>5, <1>15, <1>16, ZenonT(40) DEF Inserting
<1> QED
  BY <1>5, <1>11, <1>17

-----------------------------------------------------------------------------
(* A node leaves its place *)

Clears(r, t, k) == r = Clear(t, k)

LEMMA Cleared ==
  ASSUME NEW t \in Trees, NEW k \in Cells, NEW r, Clears(r, t, k)
  PROVE  /\ r \in Trees /\ r.root = t.root
         /\ \A z \in Cells :
              /\ r.parent[z] = IF z = k THEN NULL ELSE t.parent[z]
              /\ z # k => r.color[z] = t.color[z]
              /\ \A e \in Sides : r[e][z] = IF z = k THEN NULL ELSE t[e][z]
<1>1. PICK ls, rs, cs, ps :
        /\ ls = [t.left EXCEPT ![k] = NULL] /\ rs = [t.right EXCEPT ![k] = NULL]
        /\ cs = [t.color EXCEPT ![k] = "black"] /\ ps = [t.parent EXCEPT ![k] = NULL]
  OBVIOUS
<1>2. NULL \in Pointers /\ "black" \in Colors
  BY CellFacts DEF Colors
<1>3. r = [t EXCEPT !.left = ls, !.right = rs, !.parent = ps, !.color = cs]
  BY <1>1, <1>2 DEF Trees, Clears, Clear
<1>4. /\ ls \in [Cells -> Pointers] /\ rs \in [Cells -> Pointers]
      /\ cs \in [Cells -> Colors] /\ ps \in [Cells -> Pointers]
      /\ \A z \in Cells :
           /\ ls[z] = IF z = k THEN NULL ELSE t.left[z]
           /\ rs[z] = IF z = k THEN NULL ELSE t.right[z]
           /\ z # k => cs[z] = t.color[z]
           /\ ps[z] = IF z = k THEN NULL ELSE t.parent[z]
  BY <1>1, <1>2, Fields DEF Trees
<1> QED
  BY <1>2, <1>3, <1>4 DEF Trees, Sides

(* Below p, on the side d, subst takes the place of temp, which is cleared. *)
CutOut(r, t, temp, subst, p, d) ==
  /\ r \in Trees /\ r.root = t.root
  /\ \A z \in Cells :
       /\ z # temp => r.color[z] = t.color[z]
       /\ z # temp => r.parent[z] = IF z = subst THEN p ELSE t.parent[z]
       /\ \A e \in Sides : r[e][z] = IF z = temp THEN NULL
                                     ELSE IF z = p /\ e = d THEN subst ELSE t[e][z]

(* temp, on the side d of p, has the child subst, or none, and no other. *)
Leaves(t, S, temp, subst, p, d) ==
  /\ temp \in S /\ temp # t.root /\ p = t.parent[temp] /\ d = SideOf(t, temp)
  /\ \E s \in Sides : t[s][temp] = subst /\ t[Other(s)][temp] = Nil

LEMMA LeavesFrom ==
  ASSUME NEW t, NEW S, NEW sub, Shape(t, S, sub),
         NEW temp, NEW subst, NEW p, NEW d, Leaves(t, S, temp, subst, p, d)
  PROVE  /\ temp \in S /\ temp # t.root /\ p \in S /\ d \in Sides /\ p # temp
         /\ t[d][p] = temp /\ t[Other(d)][p] # temp
         /\ subst \in S \cup {Nil} /\ subst # temp /\ subst # p
         /\ subst # Nil => t.parent[subst] = temp /\ subst # t.root
         /\ sub[temp] = {temp} \cup sub[subst] /\ temp \notin sub[subst]
         /\ \A e \in Sides : t[e][temp] \in {subst, Nil}
<1>1. /\ temp \in S /\ temp # t.root /\ p \in S /\ d \in Sides /\ p # temp
      /\ t[d][p] = temp /\ t[Other(d)][p] # temp
  BY Under DEF Leaves
<1>2. PICK s \in Sides : t[s][temp] = subst /\ t[Other(s)][temp] = Nil
  BY DEF Leaves
<1>3. /\ subst \in S \cup {Nil} /\ subst # temp /\ Nil \notin S
      /\ sub[temp] = {temp} \cup sub[subst] \cup sub[Nil] /\ temp \notin sub[subst]
      /\ subst # Nil => subst \in sub[subst]
  <2>1. /\ subst \in S \cup {Nil} /\ Nil \notin S
        /\ sub[temp] = {temp} \cup sub[subst] \cup sub[Nil] /\ temp \notin sub[subst]
        /\ subst # Nil => subst \in sub[subst]
    BY <1>1, <1>2, Child
  <2> QED
    BY <1>1, <2>1
<1>4. sub[Nil] = {}
  BY DEF Shape, Spans
<1>5. subst # Nil => t.parent[subst] = temp /\ subst # t.root
  BY <1>1, <1>2 DEF Shape, Linked
<1>6. subst # p
  <2>1. sub[p] = {p} \cup sub[temp] \cup sub[t[Other(d)][p]] /\ p \notin sub[temp] /\ p # Nil
    BY <1>1, Child
  <2> QED
    BY <1>3, <2>1
<1>7. \A e \in Sides : t[e][temp] \in {subst, Nil}
  BY <1>2, TwoSides
<1> QED
  BY <1>1, <1>3, <1>4, <1>5, <1>6, <1>7

LEMMA CutLinked ==
  ASSUME NEW t, NEW S, NEW sub, Shape(t, S, sub),
         NEW temp, NEW subst, NEW p, NEW d, Leaves(t, S, temp, subst, p, d),
         NEW r, CutOut(r, t, temp, subst, p, d)
  PROVE  Linked(r, S \ {temp})
<1>1. /\ temp \in S /\ temp # t.root /\ p \in S /\ d \in Sides /\ p # temp
      /\ t[d][p] = temp /\ t[Other(d)][p] # temp
      /\ subst \in S \cup {Nil} /\ subst # temp /\ subst # p
      /\ subst # Nil => t.parent[subst] = temp /\ subst # t.root
      /\ \A e \in Sides : t[e][temp] \in {subst, Nil}
  BY LeavesFrom
<1>2. /\ r \in Trees /\ r.root = t.root
      /\ \A z \in Cells :
           /\ z # temp => r.parent[z] = IF z = subst THEN p ELSE t.parent[z]
           /\ \A e \in Sides : r[e][z] = IF z = temp THEN NULL
                                         ELSE IF z = p /\ e = d THEN subst ELSE t[e][z]
  BY DEF CutOut
<1>3. /\ S \subseteq Keys /\ S \subseteq Cells /\ Nil \notin S /\ Nil \in Cells
      /\ t.root \in S \cup {Nil}
      /\ \A x \in S : x # t.root =>
           t.parent[x] \in S /\ \E e \in Sides : t[e][t.parent[x]] = x
      /\ \A x \in S : \A e \in Sides :
           /\ t[e][x] \in S \cup {Nil}
           /\ t[e][x] # Nil => t.parent[t[e][x]] = x /\ t[e][x] # t.root
      /\ \A x \in Cells \ S : \A e \in Sides : t[e][x] = NULL
  BY CellFacts DEF Shape, Linked
<1>4. PICK R : R = S \ {temp}
  OBVIOUS
<1>5. ASSUME NEW x \in R, x # r.root
      PROVE  r.parent[x] \in R /\ \E e \in Sides : r[e][r.parent[x]] = x
  <2>1. x \in S /\ x # temp /\ x # t.root /\ x \in Cells
    BY <1>2, <1>3, <1>4, <1>5
  <2>2. CASE x = subst
    <3>1. r.parent[x] = p /\ r[d][p] = x
      BY <1>1, <1>2, <1>3, <2>1, <2>2
    <3> QED
      BY <1>1, <1>4, <3>1
  <2>3. CASE x # subst
    <3>1. r.parent[x] = t.parent[x] /\ t.parent[x] \in S
      BY <1>2, <1>3, <2>1, <2>3
    <3>2. PICK e \in Sides : t[e][t.parent[x]] = x
      BY <1>3, <2>1
    <3>3. t.parent[x] # temp
      BY <1>1, <1>3, <2>1, <2>3, <3>2
    <3>4. r[e][t.parent[x]] = x
      BY <1>1, <1>2, <1>3, <2>1, <3>1, <3>2, <3>3
    <3> QED
      BY <1>4, <3>1, <3>3, <3>4
  <2> QED
    BY <2>2, <2>3
<1>6. ASSUME NEW x \in R, NEW e \in Sides
      PROVE  /\ r[e][x] \in R \cup {Nil}
             /\ r[e][x] # Nil => r.parent[r[e][x]] = x /\ r[e][x] # r.root
  <2>1. x \in S /\ x # temp /\ x \in Cells
    BY <1>3, <1>4
  <2>2. CASE x = p /\ e = d
    BY <1>1, <1>2, <1>3, <1>4, <2>1, <2>2
  <2>3. CASE ~(x = p /\ e = d)
    <3>1. r[e][x] = t[e][x] /\ t[e][x] \in S \cup {Nil}
      BY <1>2, <1>3, <2>1, <2>3
    <3>2. t[e][x] # Nil => t.parent[t[e][x]] = x /\ t[e][x] # t.root
      BY <1>3, <2>1
    <3>3. t[e][x] # temp
      <4>1. ASSUME t[e][x] = temp
            PROVE  FALSE
        <5>1. x = p
          BY <1>1, <1>3, <2>1, <4>1
        <5>2. e = Other(d)
          BY <1>1, <2>3, <5>1, TwoSides
        <5> QED
          BY <1>1, <4>1, <5>1, <5>2
      <4> QED
        BY <4>1
    <3>4. t[e][x] # Nil => t[e][x] # subst
      BY <1>1, <2>1, <3>2
    <3> QED
      BY <1>2, <1>3, <1>4, <3>1, <3>2, <3>3, <3>4
  <2> QED
    BY <2>2, <2>3
<1>7. \A x \in Cells \ R : \A e \in Sides : r[e][x] = NULL
  BY <1>1, <1>2, <1>3, <1>4
<1>8. r.root \in R \cup {Nil} /\ R \subseteq Keys
  BY <1>1, <1>2, <1>3, <1>4
<1>9. Linked(r, R)
  BY <1>2, <1>5, <1>6, <1>7, <1>8 DEF Linked
<1> QED
  BY <1>4, <1>9

Without(sub1, sub, S, temp) ==
  sub1 = [x \in Cells |-> IF x \in S /\ x # temp THEN sub[x] \ {temp} ELSE {}]

LEMMA CutShape ==
  ASSUME NEW t, NEW S, NEW sub, Shape(t, S, sub),
         NEW temp, NEW subst, NEW p, NEW d, Leaves(t, S, temp, subst, p, d),
         NEW r, CutOut(r, t, temp, subst, p, d), NEW sub1, Without(sub1, sub, S, temp)
  PROVE  Shape(r, S \ {temp}, sub1)
<1>1. /\ temp \in S /\ temp # t.root /\ p \in S /\ d \in Sides /\ p # temp
      /\ t[d][p] = temp /\ t[Other(d)][p] # temp
      /\ subst \in S \cup {Nil} /\ subst # temp /\ subst # p
      /\ sub[temp] = {temp} \cup sub[subst] /\ temp \notin sub[subst]
      /\ subst # Nil => t.parent[subst] = temp /\ subst # t.root
  BY LeavesFrom
<1>2. /\ r.root = t.root
      /\ \A z \in Cells : \A e \in Sides :
           r[e][z] = IF z = temp THEN NULL ELSE IF z = p /\ e = d THEN subst ELSE t[e][z]
  BY DEF CutOut
<1>3. /\ S \subseteq Keys /\ S \subseteq Cells /\ Nil \notin S /\ Nil \in Cells
      /\ t.root \in S \cup {Nil}
      /\ sub \in [Cells -> SUBSET S] /\ sub[Nil] = {} /\ sub[t.root] = S
      /\ \A x \in S : \A e \in Sides :
           /\ t[e][x] \in S \cup {Nil}
           /\ t[e][x] # Nil => t.parent[t[e][x]] = x /\ t[e][x] # t.root
  BY CellFacts DEF Shape, Linked, Spans
<1>4. PICK R : R = S \ {temp}
  OBVIOUS
<1>5. /\ sub1 \in [Cells -> SUBSET R]
      /\ \A x \in Cells : sub1[x] = IF x \in R THEN sub[x] \ {temp} ELSE {}
  <2>1. \A x \in Cells : sub1[x] = IF x \in R THEN sub[x] \ {temp} ELSE {}
    BY <1>4 DEF Without
  <2>2. \A x \in Cells : sub1[x] \subseteq R
    <3>1. \A x \in Cells : sub[x] \subseteq S
      BY <1>3
    <3> QED
      BY <1>4, <2>1, <3>1
  <2> QED
    BY <1>4, <2>1, <2>2 DEF Without
<1>6. ASSUME NEW x \in R, NEW e \in Sides
      PROVE  sub1[r[e][x]] = sub[t[e][x]] \ {temp}
  <2>1. x \in S /\ x # temp /\ x \in Cells
    BY <1>3, <1>4
  <2>2. CASE x = p /\ e = d
    <3>1. r[e][x] = subst /\ t[e][x] = temp
      BY <1>1, <1>2, <2>1, <2>2
    <3>2. sub1[subst] = sub[subst]
      <4>1. CASE subst = Nil
        BY <1>3, <1>4, <1>5, <4>1
      <4>2. CASE subst # Nil
        <5>1. subst \in R /\ subst \in Cells
          BY <1>1, <1>3, <1>4, <4>2
        <5>2. sub1[subst] = sub[subst] \ {temp}
          BY <1>5, <5>1
        <5> QED
          BY <1>1, <5>2
      <4> QED
        BY <4>1, <4>2
    <3> QED
      BY <1>1, <3>1, <3>2
  <2>3. CASE ~(x = p /\ e = d)
    <3>1. r[e][x] = t[e][x] /\ t[e][x] \in S \cup {Nil}
      BY <1>2, <1>3, <2>1, <2>3
    <3>2. t[e][x] # temp
      <4>1. ASSUME t[e][x] = temp
            PROVE  FALSE
        <5>1. x = p
          BY <1>1, <1>3, <2>1, <4>1
        <5>2. e = Other(d)
          BY <1>1, <2>3, <5>1, TwoSides
        <5> QED
          BY <1>1, <4>1, <5>1, <5>2
      <4> QED
        BY <4>1
    <3> QED
      BY <1>3, <1>4, <1>5, <3>1, <3>2
  <2> QED
    BY <2>2, <2>3
<1>7. sub1[Nil] = {} /\ sub1[r.root] = R
  BY <1>1, <1>2, <1>3, <1>4, <1>5
<1>8. ASSUME NEW x \in R
      PROVE  sub1[x] = {x} \cup sub1[r["left"][x]] \cup sub1[r["right"][x]]
  <2>1. sub[x] = {x} \cup sub[t["left"][x]] \cup sub[t["right"][x]]
    BY <1>4 DEF Shape, Spans
  <2>2. "left" \in Sides /\ "right" \in Sides /\ x # temp /\ x \in Cells
    BY <1>3, <1>4 DEF Sides
  <2> QED
    BY <1>5, <1>6, <2>1, <2>2
<1>9. ASSUME NEW x \in R, NEW e \in Sides, NEW y \in sub1[r[e][x]]
      PROVE  Beyond(e, x, y)
  <2>1. y \in sub[t[e][x]] /\ x \in S
    BY <1>4, <1>6, <1>9
  <2> QED
    BY <2>1 DEF Shape, Spans
<1>10. Spans(r, R, sub1)
  BY <1>5, <1>7, <1>8, <1>9 DEF Spans
<1>11. Linked(r, R)
  BY <1>4, CutLinked
<1> QED
  BY <1>4, <1>10, <1>11 DEF Shape

(* A red node may leave; after a black one there is one black node too few at
   the child that takes its place. *)
LEMMA CutColors ==
  ASSUME NEW t, NEW S, NEW sub, Shape(t, S, sub), NEW bh, Settled(t, S, bh),
         NEW temp, NEW subst, NEW p, NEW d, Leaves(t, S, temp, subst, p, d),
         NEW r, CutOut(r, t, temp, subst, p, d),
         NEW sub1, Shape(r, S \ {temp}, sub1)
  PROVE  /\ t.color[temp] = "black" => Deleting(r, S \ {temp}, bh, subst)
         /\ t.color[temp] # "black" => Settled(r, S \ {temp}, bh)
<1>1. /\ temp \in S /\ temp # t.root /\ p \in S /\ d \in Sides /\ p # temp
      /\ t[d][p] = temp /\ t[Other(d)][p] # temp
      /\ subst \in S \cup {Nil} /\ subst # temp /\ subst # p
      /\ subst # Nil => t.parent[subst] = temp /\ subst # t.root
      /\ \A e \in Sides : t[e][temp] \in {subst, Nil}
  BY LeavesFrom
<1>2. /\ r.root = t.root
      /\ \A z \in Cells :
           /\ z # temp => r.color[z] = t.color[z]
           /\ z # temp => r.parent[z] = IF z = subst THEN p ELSE t.parent[z]
           /\ \A e \in Sides : r[e][z] = IF z = temp THEN NULL
                                         ELSE IF z = p /\ e = d THEN subst ELSE t[e][z]
  BY DEF CutOut
<1>3. /\ S \subseteq Keys /\ S \subseteq Cells /\ Nil \notin S /\ Nil \in Cells
      /\ t.root \in S
      /\ \A x \in S : x # t.root =>
           t.parent[x] \in S /\ \E e \in Sides : t[e][t.parent[x]] = x
      /\ \A x \in S : \A e \in Sides :
           /\ t[e][x] \in S \cup {Nil}
           /\ t[e][x] # Nil => t.parent[t[e][x]] = x /\ t[e][x] # t.root
  <2>1. t.root # Nil
    <3>1. sub[t.root] = S /\ sub[Nil] = {}
      BY DEF Shape, Spans
    <3> QED
      BY <1>1, <3>1
  <2> QED
    BY <2>1, CellFacts DEF Shape, Linked
<1>4. PICK R : R = S \ {temp}
  OBVIOUS
<1>5. /\ t.color[Nil] = "black" /\ t.color[t.root] = "black" /\ \A x \in S : ~RedPair(t, x)
      /\ bh \in [Cells -> Nat \ {0}] /\ bh[Nil] = 1
      /\ \A x \in S : \A e \in Sides : bh[x] = bh[t[e][x]] + Weight(t, x)
  <2>1. PlainHeights(t, S, bh)
    BY NothingOwed DEF Settled
  <2> QED
    BY <2>1 DEF PlainHeights, Settled
<1>6. bh[temp] = bh[subst] + Weight(t, temp)
  BY <1>1, <1>5 DEF Leaves
<1>7. ASSUME NEW x \in R, NEW e \in Sides, ~(x = p /\ e = d)
      PROVE  /\ r[e][x] = t[e][x] /\ bh[x] = bh[r[e][x]] + Weight(r, x) /\ bh[r[e][x]] \in Nat
             /\ x = p => bh[r[e][x]] = bh[temp]
  <2>1. x \in S /\ x # temp /\ x \in Cells /\ t[e][x] \in Cells
    BY <1>3, <1>4
  <2>2. r[e][x] = t[e][x] /\ Weight(r, x) = Weight(t, x)
    BY <1>2, <1>7, <2>1 DEF Weight
  <2>3. bh[x] = bh[t[e][x]] + Weight(t, x) /\ bh[t[e][x]] \in Nat
    BY <1>5, <2>1
  <2>4. x = p => bh[t[e][x]] = bh[temp]
    <3>1. bh[p] = bh[temp] + Weight(t, p) /\ bh[temp] \in Nat
      BY <1>1, <1>3, <1>5
    <3>2. Weight(t, p) \in Nat
      BY DEF Weight
    <3> QED
      BY <2>3, <3>1, <3>2
  <2> QED
    BY <2>2, <2>3, <2>4
<1>8. /\ r[d][p] = subst /\ bh[p] = bh[subst] + Weight(t, temp) + Weight(r, p)
      /\ bh[subst] \in Nat \ {0} /\ p \in R
  <2>1. r[d][p] = subst /\ Weight(r, p) = Weight(t, p) /\ p \in R
    BY <1>1, <1>2, <1>3, <1>4 DEF Weight
  <2>2. bh[p] = bh[temp] + Weight(t, p) /\ bh[subst] \in Nat \ {0}
    BY <1>1, <1>3, <1>5
  <2> QED
    BY <1>6, <2>1, <2>2 DEF Weight
<1>9. ASSUME NEW x \in R, RedPair(r, x)
      PROVE  x = subst /\ t.color[temp] = "black"
  <2>1. x \in S /\ x # temp /\ x \in Cells /\ x # t.root
    BY <1>2, <1>3, <1>4, <1>9 DEF RedPair
  <2>2. CASE x = subst
    <3>1. ~RedPair(t, subst) /\ t.parent[subst] = temp /\ t.color[subst] = "red"
      BY <1>1, <1>2, <1>3, <1>5, <1>9, <2>1, <2>2 DEF RedPair
    <3>2. t.color[temp] # "red"
      BY <2>1, <2>2, <3>1 DEF RedPair
    <3>3. t.color[temp] \in Colors
      BY <1>1, <1>3, Fields DEF Shape, Linked
    <3> QED
      BY <2>2, <3>2, <3>3 DEF Colors
  <2>3. CASE x # subst
    <3>1. r.parent[x] = t.parent[x] /\ t.parent[x] \in S
      BY <1>2, <1>3, <2>1, <2>3
    <3>2. t.parent[x] # temp
      BY <1>1, <1>3, <2>1, <2>3
    <3>3. RedPair(t, x)
      BY <1>2, <1>3, <1>9, <2>1, <3>1, <3>2 DEF RedPair
    <3> QED
      BY <1>5, <2>1, <3>3
  <2> QED
    BY <2>2, <2>3
<1>10. r.color[Nil] = "black" /\ r.color[r.root] = "black" /\ r.root \in R
  BY <1>1, <1>2, <1>3, <1>4, <1>5
<1>11. CASE t.color[temp] = "black"
  <2>1. bh[temp] = bh[subst] + 1 /\ Weight(t, temp) = 1
    BY <1>6, <1>11 DEF Weight
  <2>2. r.parent[subst] = p
    BY <1>1, <1>2, <1>3
  <2>3. r[Other(d)][p] # subst
    <3>1. Other(d) # d /\ Other(d) \in Sides
      BY <1>1, TwoSides
    <3>2. bh[r[Other(d)][p]] = bh[temp]
      BY <1>7, <1>8, <3>1
    <3> QED
      BY <1>8, <2>1, <3>2
  <2>4. ASSUME NEW x \in R, NEW e \in Sides
        PROVE  bh[x] = bh[r[e][x]] + Owed(r, subst, TRUE, x, r[e][x]) + Weight(r, x)
    <3>1. CASE x = p /\ e = d
      <4>1. Owed(r, subst, TRUE, x, r[e][x]) = 1
        BY <1>8, <2>2, <3>1 DEF Owed
      <4> QED
        BY <1>8, <2>1, <3>1, <4>1
    <3>2. CASE ~(x = p /\ e = d)
      <4>1. Owed(r, subst, TRUE, x, r[e][x]) = 0
        <5>1. x = p => e = Other(d)
          BY <1>1, <3>2, TwoSides
        <5> QED
          BY <2>2, <2>3, <5>1 DEF Owed
      <4>2. bh[x] = bh[r[e][x]] + Weight(r, x) /\ bh[r[e][x]] \in Nat
        BY <1>7, <3>2
      <4>3. bh[r[e][x]] + 0 = bh[r[e][x]]
        BY <4>2
      <4> QED
        BY <4>1, <4>2, <4>3
    <3> QED
      BY <3>1, <3>2
  <2>5. Heights(r, R, bh, subst, TRUE)
    BY <1>5, <2>4 DEF Heights
  <2>6. subst \in R \cup {Nil}
    BY <1>1, <1>4
  <2>7. Deleting(r, R, bh, subst)
    BY <1>1, <1>8, <1>9, <1>10, <2>2, <2>3, <2>5, <2>6 DEF Deleting
  <2> QED
    BY <1>4, <1>11, <2>7
<1>12. CASE t.color[temp] # "black"
  <2>1. Weight(t, temp) = 0
    BY <1>12 DEF Weight
  <2>2. ASSUME NEW x \in R, NEW e \in Sides
        PROVE  bh[x] = bh[r[e][x]] + Weight(r, x)
    <3>1. CASE x = p /\ e = d
      <4>1. bh[subst] + 0 = bh[subst]
        BY <1>8
      <4> QED
        BY <1>8, <2>1, <3>1, <4>1
    <3>2. CASE ~(x = p /\ e = d)
      BY <1>7, <3>2
    <3> QED
      BY <3>1, <3>2
  <2>3. PlainHeights(r, R, bh)
    BY <1>5, <2>2 DEF PlainHeights
  <2>4. Shape(r, R, sub1)
    BY <1>4
  <2>5. Heights(r, R, bh, Nil, FALSE)
    BY <2>3, <2>4, NothingOwed
  <2>6. Settled(r, R, bh)
    BY <1>9, <1>10, <1>12, <2>5 DEF Settled
  <2> QED
    BY <1>4, <1>12, <2>6
<1> QED
  BY <1>11, <1>12

(* temp, which is not in the tree of the nodes S, gets the place and the color
   of k. *)
Renames(r, t, S, k, temp, nd) ==
  /\ r \in Trees
  /\ r.root = IF t.root = k THEN temp ELSE t.root
  /\ r.color[temp] = t.color[k] /\ r.parent[temp] = t.parent[k]
  /\ \A z \in Cells \ {k, temp} :
       /\ r.color[z] = t.color[z]
       /\ z = nd \/ (z \in S /\ z # t.root) =>
            r.parent[z] = IF t.parent[z] = k THEN temp ELSE t.parent[z]
  /\ \A e \in Sides : /\ r[e][temp] = t[e][k] /\ r[e][k] = NULL
                      /\ \A z \in Cells \ {k, temp} :
                           r[e][z] = IF t[e][z] = k THEN temp ELSE t[e][z]

(* temp lies between the same keys as k. *)
Fits(t, S, sub, k, temp) ==
  /\ k \in S /\ temp \in Keys \ S
  /\ \A x \in S \ {k} : \A d \in Sides : k \in sub[t[d][x]] => Beyond(d, x, temp)
  /\ \A d \in Sides : \A y \in sub[t[d][k]] : Beyond(d, temp, y)

Swap(A, k, temp) == IF k \in A THEN (A \ {k}) \cup {temp} ELSE A

LEMMA RenamedLinked ==
  ASSUME NEW t, NEW S, NEW sub, Shape(t, S, sub), NEW k, NEW temp, Fits(t, S, sub, k, temp),
         NEW nd, NEW r, Renames(r, t, S, k, temp, nd)
  PROVE  Linked(r, (S \ {k}) \cup {temp})
<1>1. /\ S \subseteq Keys /\ S \subseteq Cells /\ Nil \notin S /\ Nil \in Cells
      /\ t.root \in S \cup {Nil} /\ k \in S /\ temp \in Keys /\ temp \notin S /\ temp \in Cells
      /\ temp # k /\ temp # Nil /\ NULL \notin Cells
  BY CellFacts DEF Shape, Linked, Fits
<1>2. /\ \A x \in S : x # t.root =>
           t.parent[x] \in S /\ \E e \in Sides : t[e][t.parent[x]] = x
      /\ \A x \in S : \A e \in Sides :
           /\ t[e][x] \in S \cup {Nil}
           /\ t[e][x] # Nil => t.parent[t[e][x]] = x /\ t[e][x] # t.root
      /\ \A x \in Cells \ S : \A e \in Sides : t[e][x] = NULL
  BY DEF Shape, Linked
<1>3. /\ r \in Trees
      /\ r.root = IF t.root = k THEN temp ELSE t.root
      /\ r.parent[temp] = t.parent[k]
      /\ \A z \in S \ {k} : z # t.root =>
           r.parent[z] = IF t.parent[z] = k THEN temp ELSE t.parent[z]
      /\ \A e \in Sides : /\ r[e][temp] = t[e][k] /\ r[e][k] = NULL
                          /\ \A z \in Cells \ {k, temp} :
                               r[e][z] = IF t[e][z] = k THEN temp ELSE t[e][z]
  BY <1>1 DEF Renames
<1>4. PICK R : R = (S \ {k}) \cup {temp}
  OBVIOUS
<1>5. \A e \in Sides : t[e][k] # k /\ t[e][k] # temp
  BY <1>1, Child
<1>6. ASSUME NEW x \in R, x # r.root
      PROVE  r.parent[x] \in R /\ \E e \in Sides : r[e][r.parent[x]] = x
  <2>1. CASE x = temp
    <3>1. k # t.root /\ t.parent[k] \in S
      BY <1>1, <1>2, <1>3, <1>6, <2>1
    <3>2. PICK e \in Sides : t[e][t.parent[k]] = k
      BY <1>1, <1>2, <3>1
    <3>3. t.parent[k] # k
      BY <1>5, <3>2
    <3>4. r[e][t.parent[k]] = temp
      BY <1>1, <1>3, <3>1, <3>2, <3>3
    <3> QED
      BY <1>3, <1>4, <2>1, <3>1, <3>3, <3>4
  <2>2. CASE x # temp
    <3>1. x \in S /\ x # k /\ x # t.root /\ t.parent[x] \in S
      BY <1>1, <1>2, <1>3, <1>4, <1>6, <2>2
    <3>2. PICK e \in Sides : t[e][t.parent[x]] = x
      BY <1>2, <3>1
    <3>3. r.parent[x] = IF t.parent[x] = k THEN temp ELSE t.parent[x]
      BY <1>3, <3>1
    <3>4. CASE t.parent[x] = k
      BY <1>3, <1>4, <3>2, <3>3, <3>4
    <3>5. CASE t.parent[x] # k
      BY <1>1, <1>3, <1>4, <3>1, <3>2, <3>3, <3>5
    <3> QED
      BY <3>4, <3>5
  <2> QED
    BY <2>1, <2>2
<1>7. ASSUME NEW x \in R, NEW e \in Sides
      PROVE  /\ r[e][x] \in R \cup {Nil}
             /\ r[e][x] # Nil => r.parent[r[e][x]] = x /\ r[e][x] # r.root
  <2>1. CASE x = temp
    <3>1. r[e][x] = t[e][k] /\ t[e][k] \in S \cup {Nil} /\ t[e][k] # k /\ t[e][k] # temp
      BY <1>1, <1>2, <1>3, <1>5, <2>1
    <3>2. t[e][k] # Nil => t.parent[t[e][k]] = k /\ t[e][k] # t.root
      BY <1>1, <1>2
    <3> QED
      BY <1>1, <1>3, <1>4, <2>1, <3>1, <3>2
  <2>2. CASE x # temp
    <3>1. x \in S /\ x # k /\ x \in Cells
      BY <1>1, <1>4, <2>2
    <3>2. /\ t[e][x] \in S \cup {Nil}
          /\ t[e][x] # Nil => t.parent[t[e][x]] = x /\ t[e][x] # t.root
          /\ r[e][x] = IF t[e][x] = k THEN temp ELSE t[e][x]
      BY <1>2, <1>3, <2>2, <3>1
    <3>3. CASE t[e][x] = k
      <4>1. r[e][x] = temp /\ t.parent[k] = x /\ k # t.root
        BY <1>1, <3>2, <3>3
      <4>2. r.parent[temp] = x /\ temp # r.root
        BY <1>1, <1>3, <4>1
      <4> QED
        BY <1>4, <4>1, <4>2
    <3>4. CASE t[e][x] # k
      BY <1>1, <1>3, <1>4, <3>1, <3>2, <3>4
    <3> QED
      BY <3>3, <3>4
  <2> QED
    BY <2>1, <2>2
<1>8. ASSUME NEW x \in Cells \ R, NEW e \in Sides
      PROVE  r[e][x] = NULL
  <2>1. CASE x = k
    BY <1>3, <2>1
  <2>2. CASE x # k
    <3>1. x \in Cells \ S /\ x # temp
      BY <1>4, <2>2
    <3>2. t[e][x] = NULL /\ NULL # k
      BY <1>1, <1>2, <3>1
    <3> QED
      BY <1>3, <2>2, <3>1, <3>2
  <2> QED
    BY <2>1, <2>2
<1>9. r.root \in R \cup {Nil} /\ R \subseteq Keys
  BY <1>1, <1>3, <1>4
<1>10. Linked(r, R)
  BY <1>3, <1>6, <1>7, <1>8, <1>9 DEF Linked
<1> QED
  BY <1>4, <1>10

LEMMA RenamedShape ==
  ASSUME NEW t, NEW S, NEW sub, Shape(t, S, sub), NEW k, NEW temp, Fits(t, S, sub, k, temp),
         NEW nd, NEW r, Renames(r, t, S, k, temp, nd)
  PROVE  \E sub2 : Shape(r, (S \ {k}) \cup {temp}, sub2)
<1>1. /\ S \subseteq Keys /\ S \subseteq Cells /\ Nil \notin S /\ Nil \in Cells
      /\ t.root \in S \cup {Nil} /\ k \in S /\ temp \in Keys /\ temp \notin S /\ temp \in Cells
      /\ temp # k /\ temp # Nil
      /\ sub \in [Cells -> SUBSET S] /\ sub[Nil] = {} /\ sub[t.root] = S
      /\ \A x \in S \ {k} : \A d \in Sides : k \in sub[t[d][x]] => Beyond(d, x, temp)
      /\ \A d \in Sides : \A y \in sub[t[d][k]] : Beyond(d, temp, y)
  BY CellFacts DEF Shape, Linked, Spans, Fits
<1>2. /\ r.root = IF t.root = k THEN temp ELSE t.root
      /\ \A e \in Sides : /\ r[e][temp] = t[e][k]
                          /\ \A z \in Cells \ {k, temp} :
                               r[e][z] = IF t[e][z] = k THEN temp ELSE t[e][z]
  BY <1>1 DEF Renames
<1>3. PICK R, sub2 : /\ R = (S \ {k}) \cup {temp}
                     /\ sub2 = [x \in Cells |-> IF x = temp THEN Swap(sub[k], k, temp)
                                                ELSE IF x \in S \ {k} THEN Swap(sub[x], k, temp)
                                                ELSE {}]
  OBVIOUS
<1>4. /\ \A x \in Cells : sub2[x] = IF x = temp THEN Swap(sub[k], k, temp)
                                    ELSE IF x \in S \ {k} THEN Swap(sub[x], k, temp) ELSE {}
      /\ sub2 \in [Cells -> SUBSET R]
  <2>1. \A x \in Cells : sub[x] \subseteq S
    BY <1>1
  <2>2. \A x \in Cells : Swap(sub[x], k, temp) \subseteq R
    BY <1>1, <1>3, <2>1 DEF Swap
  <2>3. \A x \in Cells : sub2[x] = IF x = temp THEN Swap(sub[k], k, temp)
                                   ELSE IF x \in S \ {k} THEN Swap(sub[x], k, temp) ELSE {}
    BY <1>3
  <2>4. \A x \in Cells : sub2[x] \subseteq R
    BY <1>1, <2>2, <2>3
  <2> QED
    BY <1>3, <2>3, <2>4
<1>5. Swap({}, k, temp) = {}
  BY DEF Swap
<1>6. \A x \in S : \A e \in Sides : t[e][x] \in S \cup {Nil}
  BY DEF Shape, Linked
<1>7. ASSUME NEW x \in S, NEW e \in Sides, NEW y, y = IF x = k THEN temp ELSE x
      PROVE  sub2[r[e][y]] = Swap(sub[t[e][x]], k, temp)
  <2>1. t[e][x] \in S \cup {Nil} /\ t[e][k] # k
    BY <1>1, <1>6, Child
  <2>2. r[e][y] = IF t[e][x] = k THEN temp ELSE t[e][x]
    BY <1>1, <1>2, <1>7, <2>1
  <2> QED
    BY <1>1, <1>4, <1>5, <2>1, <2>2
<1>8. ASSUME NEW x \in S, NEW y, y = IF x = k THEN temp ELSE x
      PROVE  sub2[y] = {y} \cup sub2[r["left"][y]] \cup sub2[r["right"][y]]
  <2>1. "left" \in Sides /\ "right" \in Sides /\ Other("left") = "right"
    BY DEF Sides, Other
  <2>2. /\ sub[x] = {x} \cup sub[t["left"][x]] \cup sub[t["right"][x]]
        /\ x \notin sub[t["left"][x]]
    BY <2>1, Child
  <2>3. x \notin sub[t["right"][x]]
    BY <2>1, Child
  <2>4. sub2[y] = Swap(sub[x], k, temp)
    BY <1>1, <1>4, <1>8
  <2>5. /\ sub2[r["left"][y]] = Swap(sub[t["left"][x]], k, temp)
        /\ sub2[r["right"][y]] = Swap(sub[t["right"][x]], k, temp)
    BY <1>7, <1>8, <2>1
  <2>6. CASE x = k
    BY <1>8, <2>2, <2>3, <2>4, <2>5, <2>6 DEF Swap
  <2>7. CASE x # k
    BY <1>8, <2>2, <2>3, <2>4, <2>5, <2>7 DEF Swap
  <2> QED
    BY <2>6, <2>7
<1>9. ASSUME NEW x \in S, NEW y, y = IF x = k THEN temp ELSE x,
             NEW e \in Sides, NEW w \in sub2[r[e][y]]
      PROVE  Beyond(e, y, w)
  <2>1. w \in Swap(sub[t[e][x]], k, temp)
    BY <1>7, <1>9
  <2>2. \A v \in sub[t[e][x]] : Beyond(e, x, v)
    BY DEF Shape, Spans
  <2>3. CASE x = k
    <3>1. k \notin sub[t[e][k]]
      BY <1>1, Child
    <3> QED
      BY <1>1, <1>9, <2>1, <2>3, <3>1 DEF Swap
  <2>4. CASE x # k
    BY <1>1, <1>9, <2>1, <2>2, <2>4 DEF Swap
  <2> QED
    BY <2>3, <2>4
<1>10. \A y \in R : \E x \in S : y = IF x = k THEN temp ELSE x
  BY <1>1, <1>3
<1>11. sub2[Nil] = {} /\ sub2[r.root] = R
  <2>1. sub2[Nil] = {}
    BY <1>1, <1>4
  <2>2. t.root \in S
    BY <1>1
  <2>3. sub2[r.root] = Swap(S, k, temp)
    BY <1>1, <1>2, <1>4, <2>2
  <2> QED
    BY <1>1, <1>3, <2>1, <2>3 DEF Swap
<1>12. Spans(r, R, sub2)
  <2>1. ASSUME NEW y \in R
        PROVE  /\ sub2[y] = {y} \cup sub2[r["left"][y]] \cup sub2[r["right"][y]]
               /\ \A e \in Sides : \A w \in sub2[r[e][y]] : Beyond(e, y, w)
    BY <1>8, <1>9, <1>10
  <2> QED
    BY <1>4, <1>11, <2>1 DEF Spans
<1>13. Linked(r, R)
  BY <1>3, RenamedLinked
<1> QED
  BY <1>3, <1>12, <1>13 DEF Shape

Renamed(y, x, k, temp) == y = IF x = k THEN temp ELSE x

LEMMA RenamedDeleting ==
  ASSUME NEW t, NEW S, NEW sub, Shape(t, S, sub), NEW k, NEW temp, Fits(t, S, sub, k, temp),
         NEW nd, nd # k, NEW bh, Deleting(t, S, bh, nd),
         NEW r, Renames(r, t, S, k, temp, nd)
  PROVE  \E bh2 : Deleting(r, (S \ {k}) \cup {temp}, bh2, nd)
<1>1. /\ S \subseteq Keys /\ S \subseteq Cells /\ Nil \notin S /\ Nil \in Cells
      /\ t.root \in S /\ k \in S /\ temp \in Keys /\ temp \notin S /\ temp \in Cells
      /\ temp # k /\ temp # Nil /\ nd \in S \cup {Nil} /\ nd # temp /\ nd \in Cells
  <2>1. /\ S \subseteq Keys /\ k \in S /\ temp \in Keys \ S
    BY DEF Shape, Linked, Fits
  <2>2. t.root \in S /\ nd \in S \cup {Nil}
    BY DEF Deleting
  <2> QED
    BY <2>1, <2>2, CellFacts
<1>2. /\ r.root = IF t.root = k THEN temp ELSE t.root
      /\ r.color[temp] = t.color[k] /\ r.parent[temp] = t.parent[k]
      /\ \A z \in Cells \ {k, temp} :
           /\ r.color[z] = t.color[z]
           /\ z = nd \/ (z \in S /\ z # t.root) =>
                r.parent[z] = IF t.parent[z] = k THEN temp ELSE t.parent[z]
      /\ \A e \in Sides : /\ r[e][temp] = t[e][k]
                          /\ \A z \in Cells \ {k, temp} :
                               r[e][z] = IF t[e][z] = k THEN temp ELSE t[e][z]
  BY <1>1 DEF Renames
<1>3. PICK R, bh2 : R = (S \ {k}) \cup {temp} /\ bh2 = [bh EXCEPT ![temp] = bh[k]]
  OBVIOUS
<1>4. /\ bh \in [Cells -> Nat \ {0}] /\ bh[Nil] = 1
      /\ \A x \in S : \A d \in Sides :
           bh[x] = bh[t[d][x]] + Owed(t, nd, TRUE, x, t[d][x]) + Weight(t, x)
  BY DEF Deleting, Heights
<1>5. /\ bh2 \in [Cells -> Nat \ {0}] /\ bh2[Nil] = 1 /\ bh2[temp] = bh[k]
      /\ \A z \in Cells : z # temp => bh2[z] = bh[z]
  BY <1>1, <1>3, <1>4
<1>6. /\ \A x \in S : x # t.root => t.parent[x] \in S /\ t.parent[x] # x
      /\ \A x \in S : \A e \in Sides : t[e][x] \in S \cup {Nil} /\ t[e][x] # x
      /\ nd # t.root => t.parent[nd] \in S
      /\ \A x \in S : \A e \in Sides : t[e][x] # Nil => t[e][x] # t.root
  <2>1. \A x \in S : x # t.root => t.parent[x] \in S /\ t.parent[x] # x
    BY Under
  <2>2. \A x \in S : \A e \in Sides : t[e][x] \in S \cup {Nil} /\ t[e][x] # x
    BY <1>1, Child
  <2>3. nd # t.root => t.parent[nd] \in S
    BY DEF Deleting
  <2>4. \A x \in S : \A e \in Sides : t[e][x] # Nil => t[e][x] # t.root
    BY DEF Shape, Linked
  <2> QED
    BY <2>1, <2>2, <2>3, <2>4
<1>7. ASSUME NEW x \in S, NEW e \in Sides, NEW y, Renamed(y, x, k, temp)
      PROVE  /\ bh2[y] = bh[x] /\ bh2[r[e][y]] = bh[t[e][x]]
             /\ Owed(r, nd, TRUE, y, r[e][y]) = Owed(t, nd, TRUE, x, t[e][x])
             /\ Weight(r, y) = Weight(t, x)
  <2>0. y = IF x = k THEN temp ELSE x
    BY <1>7 DEF Renamed
  <2>1. r[e][y] = IF t[e][x] = k THEN temp ELSE t[e][x]
    <3>1. t[e][k] # k
      BY <1>1, <1>6
    <3> QED
      BY <1>1, <1>2, <2>0, <3>1
  <2>2. bh2[y] = bh[x] /\ bh2[r[e][y]] = bh[t[e][x]]
    BY <1>1, <1>5, <1>6, <2>0, <2>1
  <2>3. Weight(r, y) = Weight(t, x)
    BY <1>1, <1>2, <2>0 DEF Weight
  <2>4. r[e][y] = nd /\ y = r.parent[nd] <=> t[e][x] = nd /\ x = t.parent[nd]
    <3>1. r[e][y] = nd <=> t[e][x] = nd
      BY <1>1, <2>1
    <3>2. r.parent[nd] = IF t.parent[nd] = k THEN temp ELSE t.parent[nd]
      BY <1>1, <1>2
    <3>3. ASSUME t[e][x] = nd
          PROVE  y = r.parent[nd] <=> x = t.parent[nd]
      <4>1. nd # t.root
        BY <1>1, <1>6, <3>3
      <4>2. t.parent[nd] \in S
        BY <1>6, <4>1
      <4> QED
        BY <1>1, <2>0, <3>2, <4>2
    <3> QED
      BY <3>1, <3>3
  <2>5. Owed(r, nd, TRUE, y, r[e][y]) = Owed(t, nd, TRUE, x, t[e][x])
    BY <2>4 DEF Owed
  <2> QED
    BY <2>2, <2>3, <2>5
<1>8. \A y \in R : \E x \in S : y = IF x = k THEN temp ELSE x
  BY <1>1, <1>3
<1>9. ASSUME NEW y \in R, NEW e \in Sides
      PROVE  bh2[y] = bh2[r[e][y]] + Owed(r, nd, TRUE, y, r[e][y]) + Weight(r, y)
  <2>1. PICK x \in S : y = IF x = k THEN temp ELSE x
    BY <1>8
  <2>2. /\ bh2[y] = bh[x] /\ bh2[r[e][y]] = bh[t[e][x]]
        /\ Owed(r, nd, TRUE, y, r[e][y]) = Owed(t, nd, TRUE, x, t[e][x])
        /\ Weight(r, y) = Weight(t, x)
    <3> SUFFICES Renamed(y, x, k, temp)
      BY <1>7
    <3> QED
      BY <2>1 DEF Renamed
  <2>3. bh[x] = bh[t[e][x]] + Owed(t, nd, TRUE, x, t[e][x]) + Weight(t, x)
    BY <1>4
  <2> QED
    BY <2>2, <2>3
<1>10. Heights(r, R, bh2, nd, TRUE)
  BY <1>5, <1>9 DEF Heights
<1>11. ASSUME NEW y \in R, RedPair(r, y)
       PROVE  nd \in {y, r.parent[y]}
  <2>1. PICK x \in S : y = IF x = k THEN temp ELSE x
    BY <1>8
  <2>2. x # t.root /\ t.parent[x] \in S /\ t.parent[x] # x
    BY <1>1, <1>2, <1>6, <1>11, <2>1 DEF RedPair
  <2>3. r.parent[y] = IF t.parent[x] = k THEN temp ELSE t.parent[x]
    BY <1>1, <1>2, <2>1, <2>2
  <2>4. r.color[y] = t.color[x] /\ r.color[r.parent[y]] = t.color[t.parent[x]]
    BY <1>1, <1>2, <2>1, <2>2, <2>3
  <2>5. RedPair(t, x)
    BY <1>11, <2>2, <2>4 DEF RedPair
  <2>6. nd \in {x, t.parent[x]}
    BY <2>5 DEF Deleting
  <2> QED
    BY <1>1, <2>1, <2>3, <2>6
<1>12. nd # r.root => /\ r.parent[nd] \in R
                      /\ \E d \in Sides : /\ r[d][r.parent[nd]] = nd
                                          /\ r[Other(d)][r.parent[nd]] # nd
  <2> SUFFICES ASSUME nd # r.root
               PROVE  /\ r.parent[nd] \in R
                      /\ \E d \in Sides : /\ r[d][r.parent[nd]] = nd
                                          /\ r[Other(d)][r.parent[nd]] # nd
    OBVIOUS
  <2>1. nd # t.root
    BY <1>1, <1>2
  <2>2. PICK d \in Sides : t[d][t.parent[nd]] = nd /\ t[Other(d)][t.parent[nd]] # nd
    BY <2>1 DEF Deleting
  <2>3. PICK x, y : x \in S /\ x = t.parent[nd] /\ y = IF x = k THEN temp ELSE x
    BY <1>6, <2>1
  <2>4. r.parent[nd] = y /\ y \in R
    BY <1>1, <1>2, <1>3, <2>3
  <2>5. \A e \in Sides : r[e][y] = IF t[e][x] = k THEN temp ELSE t[e][x]
    BY <1>1, <1>2, <1>6, <2>3
  <2>6. Other(d) \in Sides
    BY TwoSides
  <2>7. r[d][y] = nd /\ r[Other(d)][y] # nd
    BY <1>1, <2>2, <2>3, <2>5, <2>6
  <2> QED
    BY <2>4, <2>7
<1>13. /\ r.color[Nil] = "black" /\ nd \in R \cup {Nil} /\ r.root \in R
       /\ r.color[r.root] = "red" => r.root = nd
  <2>1. t.color[Nil] = "black" /\ (t.color[t.root] = "red" => t.root = nd)
    BY DEF Deleting
  <2> QED
    BY <1>1, <1>2, <1>3, <2>1
<1>14. Deleting(r, R, bh2, nd)
  BY <1>10, <1>11, <1>12, <1>13 DEF Deleting
<1> QED
  BY <1>3, <1>14

LEMMA RenamedSettled ==
  ASSUME NEW t, NEW S, NEW sub, Shape(t, S, sub), NEW k, NEW temp, Fits(t, S, sub, k, temp),
         NEW nd, NEW bh, Settled(t, S, bh), NEW r, Renames(r, t, S, k, temp, nd),
         NEW sub2, Shape(r, (S \ {k}) \cup {temp}, sub2)
  PROVE  \E bh2 : Settled(r, (S \ {k}) \cup {temp}, bh2)
<1>1. /\ S \subseteq Keys /\ S \subseteq Cells /\ Nil \notin S /\ Nil \in Cells
      /\ t.root \in S /\ k \in S /\ temp \in Keys /\ temp \notin S /\ temp \in Cells
      /\ temp # k /\ temp # Nil
  <2>1. sub[Nil] = {} /\ sub[t.root] = S
    BY DEF Shape, Spans
  <2> QED
    BY <2>1, CellFacts DEF Shape, Linked, Fits
<1>2. /\ r.root = IF t.root = k THEN temp ELSE t.root
      /\ r.color[temp] = t.color[k] /\ r.parent[temp] = t.parent[k]
      /\ \A z \in Cells \ {k, temp} :
           /\ r.color[z] = t.color[z]
           /\ z \in S /\ z # t.root =>
                r.parent[z] = IF t.parent[z] = k THEN temp ELSE t.parent[z]
      /\ \A e \in Sides : /\ r[e][temp] = t[e][k]
                          /\ \A z \in Cells \ {k, temp} :
                               r[e][z] = IF t[e][z] = k THEN temp ELSE t[e][z]
  BY <1>1 DEF Renames
<1>3. PICK R, bh2 : R = (S \ {k}) \cup {temp} /\ bh2 = [bh EXCEPT ![temp] = bh[k]]
  OBVIOUS
<1>4. /\ bh \in [Cells -> Nat \ {0}] /\ bh[Nil] = 1
      /\ \A x \in S : \A d \in Sides : bh[x] = bh[t[d][x]] + Weight(t, x)
  <2>1. PlainHeights(t, S, bh)
    BY NothingOwed DEF Settled
  <2> QED
    BY <2>1 DEF PlainHeights
<1>5. /\ bh2 \in [Cells -> Nat \ {0}] /\ bh2[Nil] = 1 /\ bh2[temp] = bh[k]
      /\ \A z \in Cells : z # temp => bh2[z] = bh[z]
  BY <1>1, <1>3, <1>4
<1>6. /\ \A x \in S : x # t.root => t.parent[x] \in S /\ t.parent[x] # x
      /\ \A x \in S : \A e \in Sides : t[e][x] \in S \cup {Nil} /\ t[e][x] # x
  <2>1. \A x \in S : x # t.root => t.parent[x] \in S /\ t.parent[x] # x
    BY Under
  <2>2. \A x \in S : \A e \in Sides : t[e][x] \in S \cup {Nil} /\ t[e][x] # x
    BY <1>1, Child
  <2> QED
    BY <2>1, <2>2
<1>7. ASSUME NEW x \in S, NEW e \in Sides, NEW y, y = IF x = k THEN temp ELSE x
      PROVE  /\ bh2[y] = bh[x] /\ bh2[r[e][y]] = bh[t[e][x]]
             /\ Weight(r, y) = Weight(t, x)
  <2>1. r[e][y] = IF t[e][x] = k THEN temp ELSE t[e][x]
    <3>1. t[e][k] # k
      BY <1>1, <1>6
    <3> QED
      BY <1>1, <1>2, <1>7, <3>1
  <2>2. bh2[y] = bh[x] /\ bh2[r[e][y]] = bh[t[e][x]]
    BY <1>1, <1>5, <1>6, <1>7, <2>1
  <2>3. Weight(r, y) = Weight(t, x)
    BY <1>1, <1>2, <1>7 DEF Weight
  <2> QED
    BY <2>2, <2>3
<1>8. \A y \in R : \E x \in S : y = IF x = k THEN temp ELSE x
  BY <1>1, <1>3
<1>9. ASSUME NEW y \in R, NEW e \in Sides
      PROVE  bh2[y] = bh2[r[e][y]] + Weight(r, y)
  <2>1. PICK x \in S : y = IF x = k THEN temp ELSE x
    BY <1>8
  <2>2. /\ bh2[y] = bh[x] /\ bh2[r[e][y]] = bh[t[e][x]] /\ Weight(r, y) = Weight(t, x)
    BY <1>7, <2>1
  <2> QED
    BY <1>4, <2>2
<1>10. PlainHeights(r, R, bh2)
  BY <1>5, <1>9 DEF PlainHeights
<1>11. ASSUME NEW y \in R
       PROVE  ~RedPair(r, y)
  <2> SUFFICES ASSUME RedPair(r, y) PROVE FALSE
    OBVIOUS
  <2>1. PICK x \in S : y = IF x = k THEN temp ELSE x
    BY <1>8
  <2>2. x # t.root /\ t.parent[x] \in S /\ t.parent[x] # x
    BY <1>1, <1>2, <1>6, <2>1 DEF RedPair
  <2>3. r.parent[y] = IF t.parent[x] = k THEN temp ELSE t.parent[x]
    BY <1>1, <1>2, <2>1, <2>2
  <2>4. r.color[y] = t.color[x] /\ r.color[r.parent[y]] = t.color[t.parent[x]]
    BY <1>1, <1>2, <2>1, <2>2, <2>3
  <2>5. RedPair(t, x)
    BY <2>2, <2>4 DEF RedPair
  <2> QED
    BY <2>5 DEF Settled
<1>12. r.color[Nil] = "black" /\ r.color[r.root] = "black"
  <2>1. t.color[Nil] = "black" /\ t.color[t.root] = "black"
    BY DEF Settled
  <2> QED
    BY <1>1, <1>2, <2>1
<1>13. Heights(r, R, bh2, Nil, FALSE)
  <2>1. Shape(r, R, sub2)
    BY <1>3
  <2> QED
    BY <1>10, <2>1, NothingOwed
<1>14. Settled(r, R, bh2)
  BY <1>11, <1>12, <1>13 DEF Settled
<1> QED
  BY <1>3, <1>14

Unlinks(r, t, k, temp, subst) == r = Unlink(t, k, temp, subst)

LEMMA Unlinked ==
  ASSUME NEW t \in Trees, NEW k \in Cells, NEW temp \in Cells, NEW subst \in Cells,
         NEW p \in Cells, p = t.parent[temp], NEW d, d = SideOf(t, temp),
         NEW r, Unlinks(r, t, k, temp, subst)
  PROVE  /\ r \in Trees /\ r.root = t.root /\ r.color = t.color
         /\ \A z \in Cells :
              /\ r.parent[z] = IF z # subst THEN t.parent[z] ELSE IF p = k THEN temp ELSE p
              /\ \A e \in Sides : r[e][z] = IF z = p /\ e = d THEN subst ELSE t[e][z]
<1>1. d \in Sides
  BY DEF SideOf, Sides
<1>2. PICK y : y = IF p = k THEN temp ELSE p
  OBVIOUS
<1>3. PICK v : SetsParent(v, t, subst, y)
  BY DEF SetsParent
<1>4. PICK w : SetsLink(w, v, d, p, subst)
  BY DEF SetsLink
<1>5. y \in Pointers /\ subst \in Pointers
  BY <1>2, CellFacts
<1>6. /\ v \in Trees /\ v.root = t.root /\ v.color = t.color
      /\ \A z \in Cells : v.parent[z] = IF z = subst THEN y ELSE t.parent[z]
      /\ \A e \in Sides : v[e] = t[e]
  BY <1>3, <1>5, ParentSet
<1>7. /\ w \in Trees /\ w.root = v.root /\ w.parent = v.parent /\ w.color = v.color
      /\ \A z \in Cells : w[d][z] = IF z = p THEN subst ELSE v[d][z]
      /\ w[Other(d)] = v[Other(d)]
  BY <1>1, <1>4, <1>5, <1>6, LinkSet
<1>8. r = w
  <2>1. r = [t EXCEPT !.parent[subst] = IF p = k THEN temp ELSE p, ![d][p] = subst]
    BY DEF Unlinks, Unlink
  <2>2. v = [t EXCEPT !.parent[subst] = IF p = k THEN temp ELSE p]
    BY <1>2, <1>3 DEF SetsParent, WithParent
  <2>3. w = [v EXCEPT ![d][p] = subst]
    BY <1>4 DEF SetsLink
  <2>4. d # "parent"
    BY <1>1 DEF Sides
  <2> QED
    BY <2>1, <2>2, <2>3, <2>4
<1>9. \A e \in Sides : e = d \/ e = Other(d)
  BY <1>1, TwoSides
<1>10. Other(d) # d
  BY <1>1, TwoSides
<1> QED
  BY <1>1, <1>2, <1>6, <1>7, <1>8, <1>9, <1>10

TakesPlace(r, t, k, temp) == r = TakePlace(t, k, temp)

LEMMA PlaceTaken ==
  ASSUME NEW t \in Trees, NEW k \in Cells, NEW temp \in Cells, k # temp,
         NEW q, q = t.parent[k], NEW s, s = SideOf(t, k),
         k # t.root => q \in Cells /\ q # k,
         NEW r, TakesPlace(r, t, k, temp)
  PROVE  /\ r \in Trees /\ r.root = IF k = t.root THEN temp ELSE t.root
         /\ \A z \in Cells :
              /\ r.color[z] = IF z = temp THEN t.color[k] ELSE t.color[z]
              /\ r.parent[z] = IF z # Nil /\ z \in {t.left[k], t.right[k]} THEN temp
                               ELSE IF z = temp THEN q ELSE t.parent[z]
              /\ \A e \in Sides : r[e][z] = IF z = temp THEN t[e][k]
                                            ELSE IF k # t.root /\ z = q /\ e = s THEN temp
                                            ELSE t[e][z]
<1>1. s \in Sides /\ q \in Pointers /\ temp \in Pointers
  BY Fields, CellFacts DEF SideOf, Sides
<1>2. PICK v : SetsParent(v, t, temp, q)
  BY DEF SetsParent
<1>3. /\ v \in Trees /\ v.root = t.root /\ v.color = t.color
      /\ \A z \in Cells : v.parent[z] = IF z = temp THEN q ELSE t.parent[z]
      /\ \A e \in Sides : v[e] = t[e]
  BY <1>1, <1>2, ParentSet
<1>4. v.left = t.left /\ v.right = t.right
  <2>1. "left" \in Sides /\ "right" \in Sides
    BY DEF Sides
  <2> QED
    BY <1>3, <2>1, Fields
<1>5. SideOf(v, k) = s /\ v.parent[k] = q
  BY <1>3, <1>4 DEF SideOf
<1>6. PICK u : u = Replace(v, k, temp)
  OBVIOUS
<1>7. /\ u \in Trees /\ u.root = IF k = t.root THEN temp ELSE t.root
      /\ u.parent = v.parent /\ u.color = t.color
      /\ \A e \in Sides : \A z \in Cells :
           u[e][z] = IF k # t.root /\ z = q /\ e = s THEN temp ELSE t[e][z]
  <2>1. CASE k = t.root
    <3>1. SetsRoot(u, v, temp)
      BY <1>3, <1>6, <2>1 DEF Replace, SetsRoot
    <3> QED
      BY <1>3, <2>1, <3>1, RootSet
  <2>2. CASE k # t.root
    <3>1. SetsLink(u, v, s, q, temp)
      BY <1>3, <1>5, <1>6, <2>2 DEF Replace, SetsLink
    <3>2. q \in Cells
      BY <2>2
    <3>3. /\ u \in Trees
          /\ u.root = v.root /\ u.parent = v.parent /\ u.color = v.color
          /\ \A z \in Cells : u[s][z] = IF z = q THEN temp ELSE v[s][z]
          /\ u[Other(s)] = v[Other(s)]
      BY <1>1, <1>3, <3>1, <3>2, LinkSet
    <3>4. \A e \in Sides : e = s \/ e = Other(s)
      BY <1>1, TwoSides
    <3>5. Other(s) # s
      BY <1>1, TwoSides
    <3> QED
      BY <1>1, <1>3, <2>2, <3>3, <3>4, <3>5
  <2> QED
    BY <2>1, <2>2
<1>8. u.left[k] = t.left[k] /\ u.right[k] = t.right[k]
  <2>1. \A e \in Sides : u[e][k] = t[e][k]
    BY <1>7
  <2>2. "left" \in Sides /\ "right" \in Sides
    BY DEF Sides
  <2> QED
    BY <1>7, <2>1, <2>2, Fields
<1>9. PICK ls, rs, cs, ps :
        /\ ls = [u.left EXCEPT ![temp] = u.left[k]]
        /\ rs = [u.right EXCEPT ![temp] = u.right[k]]
        /\ cs = [u.color EXCEPT ![temp] = u.color[k]]
        /\ ps = [x \in Cells |->
                   IF x # Nil /\ x \in {u.left[k], u.right[k]} THEN temp ELSE u.parent[x]]
  OBVIOUS
<1>10. r = [u EXCEPT !.left = ls, !.right = rs, !.color = cs, !.parent = ps]
  <2>1. r = [u EXCEPT !.left[temp] = u.left[k], !.right[temp] = u.right[k],
                      !.color[temp] = u.color[k], !.parent = ps]
    BY <1>2, <1>6, <1>9 DEF TakesPlace, TakePlace, SetsParent, WithParent
  <2> QED
    BY <1>7, <1>9, <2>1 DEF Trees
<1>11. /\ ls \in [Cells -> Pointers] /\ rs \in [Cells -> Pointers]
       /\ cs \in [Cells -> Colors] /\ ps \in [Cells -> Pointers]
  <2>1. /\ u.left \in [Cells -> Pointers] /\ u.right \in [Cells -> Pointers]
        /\ u.color \in [Cells -> Colors] /\ u.parent \in [Cells -> Pointers]
    BY <1>7 DEF Trees
  <2>2. ls \in [Cells -> Pointers] /\ rs \in [Cells -> Pointers]
    BY <1>9, <2>1
  <2>3. cs \in [Cells -> Colors]
    BY <1>9, <2>1
  <2>4. ps \in [Cells -> Pointers]
    BY <1>1, <1>9, <2>1
  <2> QED
    BY <2>2, <2>3, <2>4
<1>12. /\ r \in Trees /\ r.root = u.root /\ r.color = cs /\ r.parent = ps
       /\ r.left = ls /\ r.right = rs
  BY <1>7, <1>10, <1>11 DEF Trees
<1>13. r.root = IF k = t.root THEN temp ELSE t.root
  BY <1>7, <1>12
<1>14. ASSUME NEW z \in Cells
       PROVE  /\ r.color[z] = IF z = temp THEN t.color[k] ELSE t.color[z]
              /\ r.parent[z] = IF z # Nil /\ z \in {t.left[k], t.right[k]} THEN temp
                               ELSE IF z = temp THEN q ELSE t.parent[z]
  <2>1. u.color \in [Cells -> Colors]
    BY <1>7, Fields
  <2>2. r.color[z] = IF z = temp THEN t.color[k] ELSE t.color[z]
    BY <1>7, <1>9, <1>12, <2>1
  <2>3. r.parent[z] = IF z # Nil /\ z \in {t.left[k], t.right[k]} THEN temp ELSE u.parent[z]
    BY <1>8, <1>9, <1>12
  <2> QED
    BY <1>3, <1>7, <2>2, <2>3
<1>15. ASSUME NEW z \in Cells, NEW e \in Sides
       PROVE  r[e][z] = IF z = temp THEN t[e][k]
                        ELSE IF k # t.root /\ z = q /\ e = s THEN temp
                        ELSE t[e][z]
  <2>1. r[e][z] = IF z = temp THEN u[e][k] ELSE u[e][z]
    <3>1. u.left \in [Cells -> Pointers] /\ u.right \in [Cells -> Pointers]
      BY <1>7 DEF Trees
    <3>2. ls[z] = (IF z = temp THEN u.left[k] ELSE u.left[z])
          /\ rs[z] = (IF z = temp THEN u.right[k] ELSE u.right[z])
      BY <1>9, <3>1
    <3>3. CASE e = "left"
      BY <1>7, <1>12, <3>2, <3>3, Fields
    <3>4. CASE e = "right"
      BY <1>7, <1>12, <3>2, <3>4, Fields
    <3> QED
      BY <3>3, <3>4 DEF Sides
  <2>2. u[e][k] = t[e][k]
    BY <1>7
  <2> QED
    BY <1>7, <2>1, <2>2
<1> QED
  BY <1>12, <1>13, <1>14, <1>15

(* The parent of a node below x is x or below it. *)
LEMMA ParentWithin ==
  ASSUME NEW t, NEW S, NEW sub, Shape(t, S, sub), NEW x \in S, NEW z \in sub[x], z # x
  PROVE  z # t.root /\ t.parent[z] \in sub[x] /\ x \notin sub[z]
<1> DEFINE Bad == {y \in S : z \in sub[y] /\ z # y /\ ~(z # t.root /\ t.parent[z] \in sub[y])}
<1>1. Bad = {}
  <2> SUFFICES ASSUME Bad # {} PROVE FALSE
    OBVIOUS
  <2>1. PICK y \in Bad : \A d \in Sides : t[d][y] \notin Bad
    BY Deepest
  <2>2. y \in S /\ z \in sub[y] /\ z # y /\ ~(z # t.root /\ t.parent[z] \in sub[y])
    OBVIOUS
  <2>3. PICK d \in Sides : z \in sub[t[d][y]]
    <3>1. sub[y] = {y} \cup sub[t["left"][y]] \cup sub[t["right"][y]]
      BY <2>2 DEF Shape, Spans
    <3> QED
      BY <2>2, <3>1 DEF Sides
  <2>4. t[d][y] # Nil
    BY <2>3 DEF Shape, Spans
  <2>5. t[d][y] \in S /\ t[d][y] \notin Bad /\ t.parent[t[d][y]] = y /\ t[d][y] # t.root
    BY <2>1, <2>2, <2>4 DEF Shape, Linked
  <2>6. sub[t[d][y]] \subseteq sub[y] /\ y \in sub[y]
    BY <2>2, Child
  <2> QED
    BY <2>2, <2>3, <2>5, <2>6
<1>2. z # t.root /\ t.parent[z] \in sub[x]
  BY <1>1
<1>3. PICK d \in Sides : z \in sub[t[d][x]]
  <2>1. sub[x] = {x} \cup sub[t["left"][x]] \cup sub[t["right"][x]]
    BY DEF Shape, Spans
  <2> QED
    BY <2>1 DEF Sides
<1>4. t[d][x] \in S
  BY <1>3 DEF Shape, Spans, Linked
<1>5. x \notin sub[t[d][x]]
  BY Child
<1> QED
  BY <1>2, <1>3, <1>4, <1>5, Within

(* temp follows k in the order of the keys, and k has two children. *)
Follows(t, k, temp, subst, p, d) ==
  /\ t.left[k] # Nil /\ t.right[k] # Nil
  /\ temp = Least(t, t.right[k]) /\ subst = Subst(t, temp)
  /\ p = t.parent[temp] /\ d = SideOf(t, temp)

LEMMA Follower ==
  ASSUME NEW t, NEW S, NEW sub, Shape(t, S, sub), NEW k \in S,
         NEW temp, NEW subst, NEW p, NEW d, Follows(t, k, temp, subst, p, d)
  PROVE  /\ Leaves(t, S, temp, subst, p, d)
         /\ t.left[k] \in S /\ t.right[k] \in S /\ t.left[k] # t.right[k]
         /\ t.parent[t.left[k]] = k /\ t.parent[t.right[k]] = k
         /\ temp # k /\ temp \in sub[t.right[k]] /\ temp \in sub[k] /\ k \notin sub[temp]
         /\ temp # t.left[k] /\ subst # k
         /\ \A y \in sub[t.right[k]] : temp <= y
         /\ p = k => temp = t.right[k] /\ d = "right"
         /\ p # k => temp # t.right[k]
         /\ k # t.root => t.parent[k] # p /\ t.parent[k] # temp
<1>1. /\ t.left[k] # Nil /\ t.right[k] # Nil
      /\ temp = Least(t, t.right[k]) /\ subst = Subst(t, temp)
      /\ p = t.parent[temp] /\ d = SideOf(t, temp)
  BY DEF Follows
<1>2. \A e \in Sides : t[e][k] # Nil =>
        /\ t[e][k] \in S /\ t.parent[t[e][k]] = k
        /\ k \notin sub[t[e][k]] /\ t[e][k] \in sub[t[e][k]] /\ sub[t[e][k]] \subseteq sub[k]
        /\ sub[t[e][k]] \cap sub[t[Other(e)][k]] = {} /\ t[e][k] # t[Other(e)][k]
  <2> SUFFICES ASSUME NEW e \in Sides, t[e][k] # Nil
               PROVE  /\ t[e][k] \in S /\ t.parent[t[e][k]] = k
                      /\ k \notin sub[t[e][k]] /\ t[e][k] \in sub[t[e][k]]
                      /\ sub[t[e][k]] \subseteq sub[k]
                      /\ sub[t[e][k]] \cap sub[t[Other(e)][k]] = {}
                      /\ t[e][k] # t[Other(e)][k]
    OBVIOUS
  <2>1. t[e][k] \in S \cup {Nil} /\ k \notin sub[t[e][k]] /\ t[e][k] \in sub[t[e][k]]
        /\ sub[t[e][k]] \cap sub[t[Other(e)][k]] = {} /\ t[e][k] # t[Other(e)][k]
    BY Child
  <2>2. sub[k] = {k} \cup sub[t[e][k]] \cup sub[t[Other(e)][k]]
    BY Child
  <2>3. t.parent[t[e][k]] = k
    BY DEF Shape, Linked
  <2> QED
    BY <2>1, <2>2, <2>3
<1>3. t["left"] = t.left /\ t["right"] = t.right /\ Other("left") = "right"
      /\ "left" \in Sides /\ "right" \in Sides
  BY Fields DEF Shape, Linked, Other, Sides
<1>4. /\ t.left[k] \in S /\ t.right[k] \in S /\ t.left[k] # t.right[k]
      /\ t.parent[t.left[k]] = k /\ t.parent[t.right[k]] = k
      /\ k \notin sub[t.right[k]] /\ sub[t.right[k]] \subseteq sub[k]
      /\ sub[t.left[k]] \cap sub[t.right[k]] = {} /\ t.left[k] \in sub[t.left[k]]
  BY <1>1, <1>2, <1>3
<1>5. /\ temp \in sub[t.right[k]] /\ t.left[temp] = Nil
      /\ \A y \in sub[t.right[k]] : temp <= y
  BY <1>1, <1>4, LeastIs
<1>6. temp \in S /\ sub[temp] \subseteq sub[t.right[k]] /\ temp # k /\ temp \in sub[k]
      /\ temp # t.left[k] /\ k \notin sub[temp]
  BY <1>4, <1>5, Within
<1>7. temp # t.root /\ p \in sub[k]
  BY <1>1, <1>6, ParentWithin
<1>8. subst = t.right[temp]
  BY <1>1, <1>5 DEF Subst
<1>9. Leaves(t, S, temp, subst, p, d)
  <2>1. t["right"][temp] = subst /\ t[Other("right")][temp] = Nil
    BY <1>3, <1>5, <1>8 DEF Other
  <2> QED
    BY <1>1, <1>3, <1>6, <1>7, <2>1 DEF Leaves
<1>10. subst # k
  <2>1. subst \in S \cup {Nil} /\ sub[temp] = {temp} \cup sub[subst]
    BY <1>9, LeavesFrom
  <2>2. k \in sub[k]
    BY <1>3, Child
  <2> QED
    BY <1>6, <2>1, <2>2
<1>11. p = k => temp = t.right[k] /\ d = "right"
  <2> SUFFICES ASSUME p = k PROVE temp = t.right[k] /\ d = "right"
    OBVIOUS
  <2>1. t[d][p] = temp /\ d \in Sides
    BY <1>9, LeavesFrom
  <2> QED
    BY <1>3, <1>6, <2>1 DEF Sides
<1>12. p # k => temp # t.right[k]
  BY <1>1, <1>4
<1>13. ASSUME k # t.root
       PROVE  t.parent[k] # p /\ t.parent[k] # temp
  <2>1. PICK q : q = t.parent[k]
    OBVIOUS
  <2>2. q \in S /\ q # k /\ \E e \in Sides : t[e][q] = k
    BY <1>13, <2>1, Under
  <2>3. k \in sub[q]
    <3>1. PICK e \in Sides : t[e][q] = k
      BY <2>2
    <3>2. sub[q] = {q} \cup sub[t[e][q]] \cup sub[t[Other(e)][q]]
      BY <2>2, Child
    <3>3. k \in sub[k]
      BY <1>3, Child
    <3> QED
      BY <3>1, <3>2, <3>3
  <2>4. q \notin sub[k]
    BY <2>2, <2>3, ParentWithin
  <2> QED
    BY <1>6, <1>7, <2>1, <2>4
<1> QED
  BY <1>4, <1>5, <1>6, <1>9, <1>10, <1>11, <1>12, <1>13

(* Taking temp away and putting it in the place of k is the same as giving k,
   in the tree without temp, the name of temp. *)
LEMMA PlaceIsName ==
  ASSUME NEW t, NEW S, NEW sub, Shape(t, S, sub), NEW k \in S,
         NEW temp, NEW subst, NEW p, NEW d, Follows(t, k, temp, subst, p, d),
         NEW u, Unlinks(u, t, k, temp, subst), NEW v, TakesPlace(v, u, k, temp),
         NEW r, Clears(r, v, k), NEW t1, CutOut(t1, t, temp, subst, p, d)
  PROVE  Renames(r, t1, S \ {temp}, k, temp, subst)
<1>1. /\ Leaves(t, S, temp, subst, p, d)
      /\ t.left[k] \in S /\ t.right[k] \in S /\ t.left[k] # t.right[k]
      /\ t.parent[t.left[k]] = k /\ t.parent[t.right[k]] = k
      /\ temp # k /\ temp # t.left[k] /\ subst # k
      /\ p = k => temp = t.right[k] /\ d = "right"
      /\ p # k => temp # t.right[k]
      /\ k # t.root => t.parent[k] # p /\ t.parent[k] # temp
  BY Follower
<1>2. /\ temp \in S /\ temp # t.root /\ p \in S /\ d \in Sides /\ p # temp
      /\ t[d][p] = temp /\ t[Other(d)][p] # temp
      /\ subst \in S \cup {Nil} /\ subst # temp /\ subst # p
      /\ subst # Nil => t.parent[subst] = temp /\ subst # t.root
  BY <1>1, LeavesFrom
<1>3. /\ t \in Trees /\ S \subseteq Keys /\ S \subseteq Cells /\ Nil \in Cells /\ Nil \notin S
      /\ NULL # k /\ p = t.parent[temp] /\ d = SideOf(t, temp)
  <2>1. t \in Trees /\ S \subseteq Keys
    BY DEF Shape, Linked
  <2>2. NULL \notin Cells /\ Nil \in Cells /\ Nil \notin Keys /\ Keys \subseteq Cells
    BY CellFacts
  <2>3. p = t.parent[temp] /\ d = SideOf(t, temp)
    BY DEF Follows
  <2> QED
    BY <2>1, <2>2, <2>3
<1>4. PICK q, s : q = t.parent[k] /\ s = SideOf(t, k)
  OBVIOUS
<1>5. k # t.root => /\ q \in S /\ q # k /\ s \in Sides /\ t[s][q] = k /\ t[Other(s)][q] # k
                    /\ q # p /\ q # temp
  BY <1>1, <1>4, Under
<1>6. /\ u \in Trees /\ u.root = t.root /\ u.color = t.color
      /\ \A z \in Cells :
           /\ u.parent[z] = IF z # subst THEN t.parent[z] ELSE IF p = k THEN temp ELSE p
           /\ \A e \in Sides : u[e][z] = IF z = p /\ e = d THEN subst ELSE t[e][z]
  <2>1. k \in Cells /\ temp \in Cells /\ subst \in Cells /\ p \in Cells
    BY <1>2, <1>3
  <2> QED
    BY <1>3, <2>1, Unlinked
<1>7. u.left[k] = t.left[k] /\ u.right[k] = IF p = k THEN subst ELSE t.right[k]
  <2>1. /\ u.left = u["left"] /\ u.right = u["right"] /\ t.left = t["left"] /\ t.right = t["right"]
        /\ "left" \in Sides /\ "right" \in Sides
    BY <1>3, <1>6, Fields DEF Sides
  <2> QED
    BY <1>1, <1>3, <1>6, <2>1
<1>8. u.parent[k] = q
  BY <1>1, <1>3, <1>4, <1>6
<1>9. k # t.root => SideOf(u, k) = s
  <2>1. k # t.root => u.left[q] = t.left[q]
    <3>1. u.left = u["left"] /\ t.left = t["left"] /\ "left" \in Sides
      BY <1>3, <1>6, Fields DEF Sides
    <3> QED
      BY <1>3, <1>5, <1>6, <3>1
  <2> QED
    BY <1>4, <1>8, <2>1 DEF SideOf
<1>10. /\ v \in Trees /\ v.root = IF k = t.root THEN temp ELSE t.root
       /\ \A z \in Cells :
            /\ v.color[z] = IF z = temp THEN t.color[k] ELSE t.color[z]
            /\ v.parent[z] = IF z # Nil /\ z \in {u.left[k], u.right[k]} THEN temp
                             ELSE IF z = temp THEN q ELSE u.parent[z]
            /\ \A e \in Sides : v[e][z] = IF z = temp THEN u[e][k]
                                          ELSE IF k # t.root /\ z = q /\ e = s THEN temp
                                          ELSE u[e][z]
  <2>1. PICK q1, s1 : q1 = u.parent[k] /\ s1 = SideOf(u, k)
    OBVIOUS
  <2>2. k \in Cells /\ temp \in Cells /\ k # temp /\ (k # u.root => q1 \in Cells /\ q1 # k)
    BY <1>1, <1>2, <1>3, <1>5, <1>6, <1>8, <2>1
  <2>3. /\ v \in Trees /\ v.root = IF k = u.root THEN temp ELSE u.root
        /\ \A z \in Cells :
             /\ v.color[z] = IF z = temp THEN u.color[k] ELSE u.color[z]
             /\ v.parent[z] = IF z # Nil /\ z \in {u.left[k], u.right[k]} THEN temp
                              ELSE IF z = temp THEN q1 ELSE u.parent[z]
             /\ \A e \in Sides : v[e][z] = IF z = temp THEN u[e][k]
                                           ELSE IF k # u.root /\ z = q1 /\ e = s1 THEN temp
                                           ELSE u[e][z]
    BY <1>6, <2>1, <2>2, PlaceTaken
  <2>4. q1 = q /\ (k # t.root => s1 = s)
    BY <1>8, <1>9, <2>1
  <2> QED
    BY <1>6, <2>3, <2>4
<1>11. /\ r \in Trees /\ r.root = v.root
       /\ \A z \in Cells :
            /\ z # k => r.color[z] = v.color[z] /\ r.parent[z] = v.parent[z]
            /\ \A e \in Sides : r[e][z] = IF z = k THEN NULL ELSE v[e][z]
  BY <1>3, <1>10, Cleared
<1>12. /\ t1 \in Trees /\ t1.root = t.root
       /\ \A z \in Cells :
            /\ z # temp => t1.color[z] = t.color[z]
            /\ z # temp => t1.parent[z] = IF z = subst THEN p ELSE t.parent[z]
            /\ \A e \in Sides : t1[e][z] = IF z = temp THEN NULL
                                           ELSE IF z = p /\ e = d THEN subst ELSE t[e][z]
  BY DEF CutOut
<1>13. r.root = IF t1.root = k THEN temp ELSE t1.root
  BY <1>10, <1>11, <1>12
<1>14. r.color[temp] = t1.color[k] /\ \A z \in Cells \ {k, temp} : r.color[z] = t1.color[z]
  BY <1>1, <1>2, <1>3, <1>10, <1>11, <1>12
<1>15. r.parent[temp] = t1.parent[k]
  <2>1. temp \notin {u.left[k], u.right[k]}
    BY <1>1, <1>2, <1>7
  <2>2. r.parent[temp] = q
    BY <1>1, <1>2, <1>3, <1>10, <1>11, <2>1
  <2>3. t1.parent[k] = q
    BY <1>1, <1>3, <1>4, <1>12
  <2> QED
    BY <2>2, <2>3
<1>16. ASSUME NEW z \in Cells \ {k, temp}, z = subst \/ (z \in S /\ z # t.root)
       PROVE  r.parent[z] = IF t1.parent[z] = k THEN temp ELSE t1.parent[z]
  <2>1. r.parent[z] = IF z # Nil /\ z \in {u.left[k], u.right[k]} THEN temp ELSE u.parent[z]
    BY <1>10, <1>11
  <2>2. CASE z = subst
    <3>1. t1.parent[z] = p
      BY <1>2, <1>12, <2>2
    <3>2. u.parent[z] = IF p = k THEN temp ELSE p
      BY <1>6, <2>2
    <3>3. p # k => z = Nil \/ z \notin {u.left[k], u.right[k]}
      BY <1>1, <1>2, <1>7, <2>2
    <3> QED
      BY <2>1, <3>1, <3>2, <3>3
  <2>3. CASE z # subst
    <3>1. z \in S /\ z # t.root /\ z # Nil /\ z # temp
      BY <1>3, <1>16, <2>3
    <3>2. t1.parent[z] = t.parent[z] /\ u.parent[z] = t.parent[z]
      BY <1>6, <1>12, <2>3, <3>1
    <3>3. z \in {u.left[k], u.right[k]} <=> t.parent[z] = k
      <4>1. t.parent[z] = k => z \in {t.left[k], t.right[k]}
        <5>1. t.parent[z] = k => \E e \in Sides : t[e][k] = z
          BY <3>1 DEF Shape, Linked
        <5> QED
          BY <1>3, <5>1, Fields DEF Sides
      <4>2. z \in {t.left[k], t.right[k]} => z \in {u.left[k], u.right[k]}
        BY <1>1, <1>7, <3>1
      <4>3. z \in {u.left[k], u.right[k]} => t.parent[z] = k
        BY <1>1, <1>7, <2>3
      <4> QED
        BY <4>1, <4>2, <4>3
    <3> QED
      BY <2>1, <3>1, <3>2, <3>3
  <2> QED
    BY <2>2, <2>3
<1>17. ASSUME NEW e \in Sides
       PROVE  r[e][temp] = t1[e][k] /\ r[e][k] = NULL
  <2>1. r[e][temp] = u[e][k]
    BY <1>1, <1>2, <1>3, <1>10, <1>11
  <2>2. u[e][k] = t1[e][k]
    BY <1>1, <1>3, <1>6, <1>12
  <2>3. r[e][k] = NULL
    BY <1>3, <1>11
  <2> QED
    BY <2>1, <2>2, <2>3
<1>18. ASSUME NEW e \in Sides, NEW z \in Cells \ {k, temp}
       PROVE  r[e][z] = IF t1[e][z] = k THEN temp ELSE t1[e][z]
  <2>1. r[e][z] = IF k # t.root /\ z = q /\ e = s THEN temp ELSE t1[e][z]
    BY <1>6, <1>10, <1>11, <1>12
  <2>2. k # t.root /\ z = q /\ e = s => t1[e][z] = k
    BY <1>3, <1>5, <1>12
  <2>3. ASSUME t1[e][z] = k
        PROVE  k # t.root /\ z = q /\ e = s
    <3>1. t[e][z] = k
      BY <1>1, <1>12, <2>3
    <3>2. z \in S
      BY <1>3, <3>1 DEF Shape, Linked
    <3>3. k # t.root /\ t.parent[k] = z
      BY <1>3, <3>1, <3>2 DEF Shape, Linked
    <3>4. e = s \/ e = Other(s)
      BY <1>5, <3>3, TwoSides
    <3> QED
      BY <1>4, <1>5, <3>1, <3>3, <3>4
  <2> QED
    BY <2>1, <2>2, <2>3
<1> QED
  BY <1>11, <1>12, <1>13, <1>14, <1>15, <1>16, <1>17, <1>18 DEF Renames

LEMMA PlaceFits ==
  ASSUME NEW t, NEW S, NEW sub, Shape(t, S, sub), NEW k \in S,
         NEW temp, NEW subst, NEW p, NEW d, Follows(t, k, temp, subst, p, d),
         NEW t1, CutOut(t1, t, temp, subst, p, d), NEW sub1, Without(sub1, sub, S, temp)
  PROVE  Fits(t1, S \ {temp}, sub1, k, temp)
<1>1. /\ Leaves(t, S, temp, subst, p, d)
      /\ temp # k /\ temp \in sub[t.right[k]] /\ temp \in sub[k] /\ t.right[k] \in S
      /\ \A y \in sub[t.right[k]] : temp <= y
      /\ p = k => temp = t.right[k] /\ d = "right"
  BY Follower
<1>2. /\ temp \in S /\ p \in S /\ d \in Sides /\ t[d][p] = temp
      /\ subst \in S \cup {Nil} /\ sub[temp] = {temp} \cup sub[subst] /\ subst # temp
  BY <1>1, LeavesFrom
<1>3. /\ S \subseteq Keys /\ S \subseteq Cells /\ Nil \in Cells /\ Nil \notin S /\ NULL \notin S
      /\ sub \in [Cells -> SUBSET S] /\ sub[Nil] = {} /\ S \subseteq Int
  BY CellFacts DEF Shape, Linked, Spans
<1>4. \A x \in Cells : sub1[x] = IF x \in S /\ x # temp THEN sub[x] \ {temp} ELSE {}
  BY DEF Without
<1>5. ASSUME NEW x \in S, x # temp, NEW e \in Sides
      PROVE  sub1[t1[e][x]] \subseteq sub[t[e][x]] \ {temp}
  <2>1. t1[e][x] = IF x = p /\ e = d THEN subst ELSE t[e][x]
    BY <1>3, <1>5 DEF CutOut
  <2>2. t[e][x] \in S \cup {Nil}
    BY Child
  <2>3. \A y \in S \cup {Nil} : sub1[y] \subseteq sub[y] \ {temp}
    BY <1>3, <1>4
  <2>4. CASE x = p /\ e = d
    <3>1. sub1[subst] \subseteq sub[subst] \ {temp}
      BY <1>2, <2>3
    <3> QED
      BY <1>2, <2>1, <2>4, <3>1
  <2>5. CASE ~(x = p /\ e = d)
    BY <2>1, <2>2, <2>3, <2>5
  <2> QED
    BY <2>4, <2>5
<1>6. ASSUME NEW x \in (S \ {temp}) \ {k}, NEW e \in Sides, k \in sub1[t1[e][x]]
      PROVE  Beyond(e, x, temp)
  <2>1. k \in sub[t[e][x]]
    BY <1>5, <1>6
  <2>2. t[e][x] \in S
    <3>1. t[e][x] \in S \cup {Nil}
      BY Child
    <3> QED
      BY <1>3, <2>1, <3>1
  <2>3. temp \in sub[t[e][x]]
    BY <1>1, <2>1, <2>2, Within
  <2> QED
    BY <2>3 DEF Shape, Spans
<1>7. ASSUME NEW e \in Sides, NEW y \in sub1[t1[e][k]]
      PROVE  Beyond(e, temp, y)
  <2>1. y \in sub[t[e][k]] /\ y # temp
    BY <1>1, <1>5
  <2>2. y \in S /\ y \in Int /\ temp \in Int /\ k \in Int
    <3>1. t[e][k] \in S \cup {Nil}
      BY Child
    <3> QED
      BY <1>2, <1>3, <2>1, <3>1
  <2>3. CASE e = "left"
    <3>1. y < k
      BY <2>1, <2>3 DEF Shape, Spans, Beyond
    <3>2. k < temp
      <4>1. "right" \in Sides /\ t["right"] = t.right
        BY Fields DEF Sides, Shape, Linked
      <4>2. Beyond("right", k, temp)
        BY <1>1, <4>1 DEF Shape, Spans
      <4> QED
        BY <4>2 DEF Beyond
    <3> QED
      BY <2>2, <2>3, <3>1, <3>2 DEF Beyond
  <2>4. CASE e = "right"
    <3>1. t["right"] = t.right
      BY Fields DEF Shape, Linked
    <3>2. temp <= y
      BY <1>1, <2>1, <2>4, <3>1
    <3> QED
      BY <2>1, <2>2, <2>4, <3>2 DEF Beyond
  <2> QED
    BY <2>3, <2>4 DEF Sides
<1> QED
  BY <1>1, <1>2, <1>3, <1>6, <1>7 DEF Fits

(* The root leaves, and its only child, or none, becomes the root. *)
RootGiven(r, t, k, subst) == r = Clear(Paint([t EXCEPT !.root = subst], subst, "black"), k)

LEMMA RootGives ==
  ASSUME NEW t, NEW S, NEW sub, Shape(t, S, sub), NEW bh, Settled(t, S, bh),
         NEW k \in S, k = t.root, NEW e \in Sides, NEW subst, subst = t[e][k],
         t[Other(e)][k] = Nil, NEW r, RootGiven(r, t, k, subst)
  PROVE  \E sub2, bh2 : Shape(r, S \ {k}, sub2) /\ Settled(r, S \ {k}, bh2)
<1>1. /\ t \in Trees /\ S \subseteq Keys /\ S \subseteq Cells /\ Nil \in Cells /\ Nil \notin S
      /\ k \in Cells /\ k # Nil /\ subst \in S \cup {Nil} /\ subst # k /\ subst \in Cells
      /\ Other(e) \in Sides /\ NULL \in Pointers /\ "black" \in Colors
  <2>1. t \in Trees /\ S \subseteq Keys
    BY DEF Shape, Linked
  <2>2. Other(e) \in Sides
    BY TwoSides
  <2>3. subst \in S \cup {Nil} /\ (subst # Nil => subst # k)
    BY Child
  <2> QED
    BY <2>1, <2>2, <2>3, CellFacts DEF Colors
<1>2. PICK v : SetsRoot(v, t, subst)
  BY DEF SetsRoot
<1>3. PICK w : Paints(w, v, subst, "black")
  BY DEF Paints
<1>4. Clears(r, w, k)
  BY <1>2, <1>3 DEF RootGiven, SetsRoot, Paints, Clears
<1>5. /\ v \in Trees /\ v.root = subst /\ v.parent = t.parent /\ v.color = t.color
      /\ \A d \in Sides : v[d] = t[d]
  BY <1>1, <1>2, RootSet
<1>6. /\ w \in Trees /\ w.root = v.root /\ w.parent = v.parent
      /\ \A z \in Cells : w.color[z] = IF z = subst THEN "black" ELSE v.color[z]
      /\ \A d \in Sides : w[d] = v[d]
  BY <1>1, <1>3, <1>5, Painted
<1>7. /\ r \in Trees /\ r.root = w.root
      /\ \A z \in Cells :
           /\ r.parent[z] = IF z = k THEN NULL ELSE w.parent[z]
           /\ z # k => r.color[z] = w.color[z]
           /\ \A d \in Sides : r[d][z] = IF z = k THEN NULL ELSE w[d][z]
  BY <1>1, <1>4, <1>6, Cleared
<1>8. /\ r.root = subst
      /\ \A z \in Cells : z # k =>
           /\ r.parent[z] = t.parent[z]
           /\ r.color[z] = IF z = subst THEN "black" ELSE t.color[z]
           /\ \A d \in Sides : r[d][z] = t[d][z]
      /\ \A d \in Sides : r[d][k] = NULL
  BY <1>1, <1>5, <1>6, <1>7
<1>9. PICK R : R = S \ {k}
  OBVIOUS
<1>10. \A x \in R : \A d \in Sides : t[d][x] # k
  <2>1. \A x \in S : \A d \in Sides : t[d][x] # Nil => t[d][x] # t.root
    BY DEF Shape, Linked
  <2> QED
    BY <1>1, <1>9, <2>1
<1>11. \A x \in R : x # subst => /\ t.parent[x] \in R
                                 /\ \E d \in Sides : t[d][t.parent[x]] = x
  <2> SUFFICES ASSUME NEW x \in R, x # subst
               PROVE  /\ t.parent[x] \in R
                      /\ \E d \in Sides : t[d][t.parent[x]] = x
    OBVIOUS
  <2>1. t.parent[x] \in S /\ \E d \in Sides : t[d][t.parent[x]] = x
    BY <1>9 DEF Shape, Linked
  <2>2. t.parent[x] # k
    <3>1. PICK d \in Sides : t[d][t.parent[x]] = x
      BY <2>1
    <3>2. d = e \/ d = Other(e)
      BY TwoSides
    <3> QED
      BY <1>1, <1>9, <3>1, <3>2
  <2> QED
    BY <1>9, <2>1, <2>2
<1>12. Linked(r, R)
  <2>1. r \in Trees /\ R \subseteq Keys /\ r.root \in R \cup {Nil}
    BY <1>1, <1>7, <1>8, <1>9
  <2>2. ASSUME NEW x \in R, x # r.root
        PROVE  r.parent[x] \in R /\ \E d \in Sides : r[d][r.parent[x]] = x
    <3>1. r.parent[x] = t.parent[x]
      BY <1>1, <1>8, <1>9
    <3>2. t.parent[x] \in R /\ \E d \in Sides : t[d][t.parent[x]] = x
      BY <1>8, <1>11, <2>2
    <3>3. \A d \in Sides : r[d][t.parent[x]] = t[d][t.parent[x]]
      BY <1>1, <1>8, <1>9, <3>2
    <3> QED
      BY <3>1, <3>2, <3>3
  <2>3. ASSUME NEW x \in R, NEW d \in Sides
        PROVE  /\ r[d][x] \in R \cup {Nil}
               /\ r[d][x] # Nil => r.parent[r[d][x]] = x /\ r[d][x] # r.root
    <3>1. r[d][x] = t[d][x] /\ t[d][x] # k
      BY <1>1, <1>8, <1>9, <1>10
    <3>2. t[d][x] \in S \cup {Nil} /\ (t[d][x] # Nil => t.parent[t[d][x]] = x)
      BY <1>9 DEF Shape, Linked
    <3>3. t[d][x] # Nil => r.parent[t[d][x]] = x
      BY <1>1, <1>8, <3>1, <3>2
    <3>4. t[d][x] # Nil => t[d][x] # subst
      <4> SUFFICES ASSUME t[d][x] # Nil, t[d][x] = subst PROVE FALSE
        OBVIOUS
      <4>1. t.parent[t[e][k]] = k
        BY DEF Shape, Linked
      <4> QED
        BY <1>9, <3>2, <4>1
    <3> QED
      BY <1>8, <1>9, <3>1, <3>2, <3>3, <3>4
  <2>4. ASSUME NEW x \in Cells \ R, NEW d \in Sides
        PROVE  r[d][x] = NULL
    <3>1. x # k => t[d][x] = NULL
      BY <1>9 DEF Shape, Linked
    <3> QED
      BY <1>8, <3>1
  <2> QED
    BY <2>1, <2>2, <2>3, <2>4 DEF Linked
<1>13. PICK sub2 : sub2 = [x \in Cells |-> IF x \in R THEN sub[x] ELSE {}]
  OBVIOUS
<1>14. /\ sub \in [Cells -> SUBSET S] /\ sub[Nil] = {} /\ sub[k] = S
       /\ \A x \in S : sub[x] = {x} \cup sub[t["left"][x]] \cup sub[t["right"][x]]
  BY DEF Shape, Spans
<1>15. sub[subst] = R
  <2>1. sub[k] = {k} \cup sub[t[e][k]] \cup sub[t[Other(e)][k]] /\ k \notin sub[t[e][k]]
    BY Child
  <2> QED
    BY <1>9, <1>14, <2>1
<1>16. \A x \in R : sub[x] \subseteq R
  <2> SUFFICES ASSUME NEW x \in R PROVE k \notin sub[x]
    BY <1>1, <1>9, <1>14
  <2>1. x \in sub[subst] /\ subst \in S /\ k \notin sub[subst]
    BY <1>1, <1>9, <1>14, <1>15
  <2> QED
    BY <2>1, Within
<1>17. Spans(r, R, sub2)
  <2>1. sub2 \in [Cells -> SUBSET R] /\ sub2[Nil] = {} /\ sub2[subst] = R
    <3>1. subst = Nil => R = {}
      BY <1>14, <1>15
    <3> QED
      BY <1>1, <1>9, <1>13, <1>15, <1>16, <3>1
  <2>2. \A x \in R : \A d \in Sides : sub2[r[d][x]] = sub[t[d][x]]
    <3> SUFFICES ASSUME NEW x \in R, NEW d \in Sides
                 PROVE  sub2[r[d][x]] = sub[t[d][x]]
      OBVIOUS
    <3>1. r[d][x] = t[d][x] /\ t[d][x] # k /\ t[d][x] \in S \cup {Nil}
      <4>1. t[d][x] \in S \cup {Nil}
        BY <1>9 DEF Shape, Linked
      <4> QED
        BY <1>1, <1>8, <1>9, <1>10, <4>1
    <3> QED
      BY <1>1, <1>9, <1>13, <1>14, <3>1
  <2>3. ASSUME NEW x \in R
        PROVE  sub2[x] = {x} \cup sub2[r["left"][x]] \cup sub2[r["right"][x]]
    <3>1. sub2[r["left"][x]] = sub[t["left"][x]] /\ sub2[r["right"][x]] = sub[t["right"][x]]
      BY <2>2 DEF Sides
    <3> QED
      BY <1>1, <1>9, <1>13, <1>14, <3>1, ZenonT(40)
  <2>4. ASSUME NEW x \in R, NEW d \in Sides, NEW y \in sub2[r[d][x]]
        PROVE  Beyond(d, x, y)
    <3>1. y \in sub[t[d][x]]
      BY <2>2, <2>4
    <3> QED
      BY <1>9, <3>1 DEF Shape, Spans
  <2> QED
    BY <1>8, <2>1, <2>3, <2>4 DEF Spans
<1>18. Shape(r, R, sub2)
  BY <1>12, <1>17 DEF Shape
<1>19. PICK h \in Nat \ {0} : h = bh[subst] + 1 - Weight(t, subst)
  <2>1. bh[subst] \in Nat \ {0}
    BY <1>1 DEF Settled, Heights
  <2> QED
    BY <2>1 DEF Weight
<1>20. PICK bh2 : bh2 = [bh EXCEPT ![subst] = h]
  OBVIOUS
<1>21. /\ bh \in [Cells -> Nat \ {0}] /\ bh[Nil] = 1
       /\ \A x \in S : \A d \in Sides : bh[x] = bh[t[d][x]] + Weight(t, x)
       /\ t.color[Nil] = "black"
  <2>1. PlainHeights(t, S, bh)
    BY NothingOwed DEF Settled
  <2> QED
    BY <2>1 DEF PlainHeights, Settled
<1>22. PlainHeights(r, R, bh2)
  <2>1. bh2 \in [Cells -> Nat \ {0}]
    BY <1>1, <1>20, <1>21
  <2>2. bh2[Nil] = 1
    <3>1. subst = Nil => h = 1
      BY <1>19, <1>21 DEF Weight
    <3> QED
      BY <1>1, <1>20, <1>21, <3>1
  <2>3. ASSUME NEW x \in R, NEW d \in Sides
        PROVE  bh2[x] = bh2[r[d][x]] + Weight(r, x)
    <3>1. r[d][x] = t[d][x]
      BY <1>1, <1>8, <1>9
    <3>2. t[d][x] \in Cells /\ x \in Cells /\ x # k
      <4>1. t[d][x] \in S \cup {Nil}
        BY <1>9, Child
      <4> QED
        BY <1>1, <1>9, <4>1
    <3>3. bh2[t[d][x]] = bh[t[d][x]]
      <4>1. t[d][x] # Nil => t[d][x] # r.root
        BY <1>12, <3>1 DEF Linked
      <4>2. t[d][x] = Nil => bh2[t[d][x]] = bh[t[d][x]]
        BY <1>21, <2>2
      <4> QED
        BY <1>8, <1>20, <1>21, <3>2, <4>1, <4>2
    <3>4. bh[x] = bh[t[d][x]] + Weight(t, x)
      BY <1>9, <1>21
    <3>5. bh2[x] = IF x = subst THEN h ELSE bh[x]
      BY <1>20, <1>21, <3>2
    <3>6. CASE x = subst
      <4>1. Weight(r, x) = 1
        BY <1>1, <1>8, <3>6 DEF Weight
      <4>2. bh[x] \in Nat /\ bh[t[d][x]] \in Nat
        BY <1>21, <3>2
      <4>3. h = bh[x] + 1 - Weight(t, x) /\ Weight(t, x) \in {0, 1}
        BY <1>19, <3>6 DEF Weight
      <4>4. PICK a \in Nat, b \in Nat, m \in {0, 1} :
              a = bh[x] /\ b = bh[t[d][x]] /\ m = Weight(t, x)
        BY <4>2, <4>3
      <4>5. h = b + 1
        <5>1. h = a + 1 - m /\ a = b + m
          BY <3>4, <4>3, <4>4
        <5> QED
          BY <5>1
      <4>6. bh2[x] = h /\ bh2[r[d][x]] = b
        BY <3>1, <3>3, <3>5, <3>6, <4>4
      <4> QED
        BY <4>1, <4>5, <4>6
    <3>7. CASE x # subst
      <4>1. Weight(r, x) = Weight(t, x)
        BY <1>8, <3>2, <3>7 DEF Weight
      <4> QED
        BY <3>1, <3>3, <3>4, <3>5, <3>7, <4>1
    <3> QED
      BY <3>6, <3>7
  <2> QED
    BY <2>1, <2>2, <2>3 DEF PlainHeights
<1>23. r.color[Nil] = "black" /\ r.color[r.root] = "black"
  BY <1>1, <1>8, <1>21
<1>24. ASSUME NEW x \in R
       PROVE  ~RedPair(r, x)
  <2> SUFFICES ASSUME RedPair(r, x) PROVE FALSE
    OBVIOUS
  <2>1. x # subst /\ r.color[x] = "red" /\ r.color[r.parent[x]] = "red"
    BY <1>8 DEF RedPair
  <2>2. t.parent[x] \in R /\ r.parent[x] = t.parent[x] /\ t.color[x] = "red"
    BY <1>1, <1>8, <1>9, <1>11, <2>1
  <2>3. t.color[t.parent[x]] = "red"
    BY <1>1, <1>8, <1>9, <2>1, <2>2
  <2>4. RedPair(t, x)
    BY <1>9, <2>2, <2>3 DEF RedPair
  <2> QED
    BY <1>9, <2>4 DEF Settled
<1>25. Heights(r, R, bh2, Nil, FALSE)
  BY <1>18, <1>22, NothingOwed
<1>26. Settled(r, R, bh2)
  BY <1>23, <1>24, <1>25 DEF Settled
<1> QED
  BY <1>9, <1>18, <1>26

(* k leaves its own place, with at most one child below it. *)
LEMMA OwnPlaceLeft ==
  ASSUME NEW t, NEW S, NEW sub, Shape(t, S, sub), NEW k,
         NEW subst, NEW p, NEW d, Leaves(t, S, k, subst, p, d),
         NEW u, Unlinks(u, t, k, k, subst), NEW r, Clears(r, u, k)
  PROVE  CutOut(r, t, k, subst, p, d)
<1>1. /\ k \in S /\ p \in S /\ p # k /\ subst \in S \cup {Nil} /\ subst # k
  BY LeavesFrom
<1>2. /\ t \in Trees /\ k \in Cells /\ p \in Cells /\ subst \in Cells
  BY <1>1, CellFacts DEF Shape, Linked
<1>3. p = t.parent[k] /\ d = SideOf(t, k)
  BY DEF Leaves
<1>4. /\ u \in Trees /\ u.root = t.root /\ u.color = t.color
      /\ \A z \in Cells :
           /\ u.parent[z] = IF z # subst THEN t.parent[z] ELSE IF p = k THEN k ELSE p
           /\ \A e \in Sides : u[e][z] = IF z = p /\ e = d THEN subst ELSE t[e][z]
  BY <1>2, <1>3, Unlinked
<1>5. /\ r \in Trees /\ r.root = u.root
      /\ \A z \in Cells :
           /\ r.parent[z] = IF z = k THEN NULL ELSE u.parent[z]
           /\ z # k => r.color[z] = u.color[z]
           /\ \A e \in Sides : r[e][z] = IF z = k THEN NULL ELSE u[e][z]
  BY <1>2, <1>4, Cleared
<1> QED
  BY <1>1, <1>4, <1>5 DEF CutOut

LEMMA DeleteKeeps ==
  ASSUME NEW sub, Shape(tree, keys, sub), NEW bh, Settled(tree, keys, bh),
         NEW k \in Keys, Delete(k)
  PROVE  \E sub2, bh2 : /\ Shape(tree', keys', sub2)
                        /\ IF pc' = "delete" THEN Deleting(tree', keys', bh2, node')
                           ELSE Settled(tree', keys', bh2)
<1>1. PICK temp, subst, u : /\ temp = Temp(tree, k) /\ subst = Subst(tree, temp)
                            /\ u = Unlink(tree, k, temp, subst)
  OBVIOUS
<1>2. /\ k \in keys /\ pc = "idle" /\ keys' = keys \ {k}
      /\ IF temp = tree.root
         THEN /\ tree' = Clear(Paint([tree EXCEPT !.root = subst], subst, "black"), temp)
              /\ UNCHANGED <<node, pc>>
         ELSE /\ tree' = Clear(IF temp = k THEN u ELSE TakePlace(u, k, temp), k)
              /\ IF Black(tree, temp)
                 THEN node' = subst /\ pc' = "delete"
                 ELSE UNCHANGED <<node, pc>>
  BY <1>1 DEF Delete
<1>3. /\ tree \in Trees /\ tree["left"] = tree.left /\ tree["right"] = tree.right
      /\ "left" \in Sides /\ "right" \in Sides
      /\ Other("left") = "right" /\ Other("right") = "left"
  <2>1. tree \in Trees
    BY DEF Shape, Linked
  <2> QED
    BY <2>1, Fields DEF Sides, Other
<1>4. PICK p, d : p = tree.parent[temp] /\ d = SideOf(tree, temp)
  OBVIOUS
<1>5. Unlinks(u, tree, k, temp, subst)
  BY <1>1 DEF Unlinks
<1>6. CASE tree.left[k] = Nil \/ tree.right[k] = Nil
  <2>1. temp = k
    BY <1>1, <1>6 DEF Temp
  <2>2. PICK e \in Sides : tree[e][k] = subst /\ tree[Other(e)][k] = Nil
    BY <1>1, <1>3, <1>6, <2>1 DEF Subst
  <2>3. CASE k = tree.root
    <3>1. tree' = Clear(Paint([tree EXCEPT !.root = subst], subst, "black"), k)
          /\ pc' # "delete"
      BY <1>2, <2>1, <2>3
    <3>2. RootGiven(tree', tree, k, subst)
      BY <3>1 DEF RootGiven
    <3>3. \E sub2, bh2 : Shape(tree', keys \ {k}, sub2) /\ Settled(tree', keys \ {k}, bh2)
      BY <1>2, <2>2, <2>3, <3>2, RootGives
    <3> QED
      BY <1>2, <3>1, <3>3
  <2>4. CASE k # tree.root
    <3>1. Leaves(tree, keys, k, subst, p, d)
      BY <1>2, <1>4, <2>1, <2>2, <2>4 DEF Leaves
    <3>2. Clears(tree', u, k)
      BY <1>2, <2>1, <2>4 DEF Clears
    <3>3. CutOut(tree', tree, k, subst, p, d)
      BY <1>5, <2>1, <3>1, <3>2, OwnPlaceLeft
    <3>4. PICK sub1 : Without(sub1, sub, keys, k)
      BY DEF Without
    <3>5. Shape(tree', keys \ {k}, sub1)
      BY <3>1, <3>3, <3>4, CutShape
    <3>6. /\ tree.color[k] = "black" => Deleting(tree', keys \ {k}, bh, subst)
          /\ tree.color[k] # "black" => Settled(tree', keys \ {k}, bh)
      BY <3>1, <3>3, <3>5, CutColors
    <3>7. CASE tree.color[k] = "black"
      <4>1. node' = subst /\ pc' = "delete"
        BY <1>2, <2>1, <2>4, <3>7 DEF Black
      <4> QED
        BY <1>2, <3>5, <3>6, <3>7, <4>1
    <3>8. CASE tree.color[k] # "black"
      <4>1. pc' # "delete"
        BY <1>2, <2>1, <2>4, <3>8 DEF Black
      <4> QED
        BY <1>2, <3>5, <3>6, <3>8, <4>1
    <3> QED
      BY <3>7, <3>8
  <2> QED
    BY <2>3, <2>4
<1>7. CASE tree.left[k] # Nil /\ tree.right[k] # Nil
  <2>1. temp = Least(tree, tree.right[k])
    BY <1>1, <1>7 DEF Temp
  <2>2. Follows(tree, k, temp, subst, p, d)
    BY <1>1, <1>4, <1>7, <2>1 DEF Follows
  <2>3. Leaves(tree, keys, temp, subst, p, d) /\ temp # k /\ subst # k
    BY <1>2, <2>2, Follower
  <2>4. temp # tree.root /\ temp \in keys
    BY <2>3 DEF Leaves
  <2>5. PICK v : TakesPlace(v, u, k, temp)
    BY DEF TakesPlace
  <2>6. Clears(tree', v, k)
    BY <1>2, <2>3, <2>4, <2>5 DEF Clears, TakesPlace
  <2>7. PICK w : Unlinks(w, tree, temp, temp, subst)
    BY DEF Unlinks
  <2>8. PICK t1 : Clears(t1, w, temp)
    BY DEF Clears
  <2>9. CutOut(t1, tree, temp, subst, p, d)
    BY <2>3, <2>7, <2>8, OwnPlaceLeft
  <2>10. PICK sub1 : Without(sub1, sub, keys, temp)
    BY DEF Without
  <2>11. PICK S1 : S1 = keys \ {temp}
    OBVIOUS
  <2>12. Renames(tree', t1, S1, k, temp, subst)
    BY <1>2, <1>5, <2>2, <2>5, <2>6, <2>9, <2>11, PlaceIsName
  <2>13. Fits(t1, S1, sub1, k, temp)
    BY <1>2, <2>2, <2>9, <2>10, <2>11, PlaceFits
  <2>14. Shape(t1, S1, sub1)
    BY <2>3, <2>9, <2>10, <2>11, CutShape
  <2>15. PICK sub2 : Shape(tree', (S1 \ {k}) \cup {temp}, sub2)
    BY <2>12, <2>13, <2>14, RenamedShape
  <2>16. (S1 \ {k}) \cup {temp} = keys'
    BY <1>2, <2>3, <2>4, <2>11
  <2>17. /\ tree.color[temp] = "black" => Deleting(t1, S1, bh, subst)
         /\ tree.color[temp] # "black" => Settled(t1, S1, bh)
    BY <2>3, <2>9, <2>11, <2>14, CutColors
  <2>18. CASE tree.color[temp] = "black"
    <3>1. node' = subst /\ pc' = "delete"
      BY <1>2, <2>4, <2>18 DEF Black
    <3>2. \E bh2 : Deleting(tree', (S1 \ {k}) \cup {temp}, bh2, subst)
      BY <2>3, <2>12, <2>13, <2>14, <2>17, <2>18, RenamedDeleting
    <3> QED
      BY <2>15, <2>16, <3>1, <3>2
  <2>19. CASE tree.color[temp] # "black"
    <3>1. pc' # "delete"
      BY <1>2, <2>4, <2>19 DEF Black
    <3>2. \E bh2 : Settled(tree', (S1 \ {k}) \cup {temp}, bh2)
      BY <2>12, <2>13, <2>14, <2>15, <2>17, <2>19, RenamedSettled
    <3> QED
      BY <2>15, <2>16, <3>1, <3>2
  <2> QED
    BY <2>18, <2>19
<1> QED
  BY <1>6, <1>7

LEMMA Grandchild ==
  ASSUME NEW t, NEW S, NEW sub, Shape(t, S, sub), NEW x \in S, NEW d \in Sides, NEW e \in Sides,
         NEW y \in S, t[d][x] = y
  PROVE  t[e][y] # x
<1>1. x \in sub[x] /\ x \notin sub[y]
  BY Child
<1>2. sub[y] = {y} \cup sub[t[e][y]] \cup sub[t[Other(e)][y]]
  BY Child
<1> QED
  BY <1>1, <1>2

(* What the deletion owes: w, the sibling of the node, has one black more. *)
Owing(t, S, bh, nd, p, d, w) ==
  /\ nd # t.root /\ p = t.parent[nd] /\ d = SideOf(t, nd) /\ w = t[Other(d)][p]
  /\ Deleting(t, S, bh, nd)

LEMMA OwingFacts ==
  ASSUME NEW t, NEW S, NEW sub, Shape(t, S, sub), NEW bh,
         NEW nd, NEW p, NEW d, NEW w, Owing(t, S, bh, nd, p, d, w)
  PROVE  /\ S \subseteq Cells /\ Nil \in Cells /\ Nil \notin S /\ t.root \in S
         /\ nd \in S \cup {Nil} /\ nd \in Cells /\ nd # t.root
         /\ p \in S /\ d \in Sides /\ Other(d) \in Sides /\ t.parent[nd] = p
         /\ t[d][p] = nd /\ t[Other(d)][p] = w
         /\ w \in S /\ w # nd /\ w # p /\ nd # p /\ w # t.root /\ t.parent[w] = p
         /\ bh \in [Cells -> Nat \ {0}] /\ bh[Nil] = 1
         /\ bh[w] = bh[nd] + 1 /\ bh[p] = bh[nd] + 1 + Weight(t, p)
         /\ \A x \in S : x # p => \A e \in Sides :
              bh[x] = bh[t[e][x]] + Weight(t, x) /\ t[e][x] # w /\ (nd # Nil => t[e][x] # nd)
         /\ t.color[Nil] = "black" /\ t.color[t.root] # "red"
         /\ \A x \in S : RedPair(t, x) => nd \in {x, t.parent[x]}
<1>1. PICK del : del = TRUE
  OBVIOUS
<1>2. /\ nd # t.root /\ p = t.parent[nd] /\ d = SideOf(t, nd) /\ w = t[Other(d)][p]
      /\ Heights(t, S, bh, nd, del)
      /\ t.color[Nil] = "black" /\ nd \in S \cup {Nil} /\ t.root \in S
      /\ t.color[t.root] # "red"
      /\ \A x \in S : RedPair(t, x) => nd \in {x, t.parent[x]}
      /\ p \in S /\ \E c \in Sides : t[c][p] = nd /\ t[Other(c)][p] # nd
  BY <1>1 DEF Owing, Deleting
<1>3. S \subseteq Cells /\ Nil \in Cells /\ Nil \notin S /\ t \in Trees
  BY CellFacts DEF Shape, Linked
<1>4. d \in Sides /\ t[d][p] = nd /\ w # nd
  <2>1. PICK c \in Sides : t[c][p] = nd /\ t[Other(c)][p] # nd
    BY <1>2
  <2>2. d = IF t["left"][p] = nd THEN "left" ELSE "right"
    BY <1>2, <1>3, Fields DEF SideOf
  <2>3. d = c
    BY <2>1, <2>2 DEF Sides, Other
  <2> QED
    BY <1>2, <2>1, <2>3
<1>5. Other(d) \in Sides /\ Other(d) # d
  BY <1>4, TwoSides
<1>6. /\ bh \in [Cells -> Nat \ {0}] /\ bh[Nil] = 1
      /\ \A x \in S : \A e \in Sides :
           bh[x] = bh[t[e][x]] + Owed(t, nd, del, x, t[e][x]) + Weight(t, x)
  BY <1>2 DEF Heights
<1>7. Owed(t, nd, del, p, nd) = 1 /\ Owed(t, nd, del, p, w) = 0
  BY <1>1, <1>2, <1>4 DEF Owed
<1>8. w \in S \cup {Nil} /\ (w # Nil => t.parent[w] = p /\ w # t.root)
  BY <1>2, <1>5 DEF Shape, Linked
<1>9. PICK a \in Nat \ {0}, b \in Nat \ {0}, c \in Nat \ {0}, g \in {0, 1} :
        a = bh[nd] /\ b = bh[w] /\ c = bh[p] /\ g = Weight(t, p)
  BY <1>2, <1>3, <1>6, <1>8 DEF Weight
<1>10. c = a + 1 + g /\ c = b + 0 + g
  BY <1>2, <1>4, <1>5, <1>6, <1>7, <1>9
<1>11. b = a + 1 /\ c = a + 1 + g /\ b # 1
  BY <1>10
<1>12. w # Nil
  BY <1>6, <1>9, <1>11
<1>13. ASSUME NEW x \in S, x # p, NEW e \in Sides
       PROVE  bh[x] = bh[t[e][x]] + Weight(t, x) /\ t[e][x] # w /\ (nd # Nil => t[e][x] # nd)
  <2>1. Owed(t, nd, del, x, t[e][x]) = 0
    BY <1>2, <1>13 DEF Owed
  <2>2. bh[x] = bh[t[e][x]] + 0 + Weight(t, x)
    BY <1>6, <2>1
  <2>3. PICK y \in Nat, h \in Nat : y = bh[t[e][x]] /\ h = Weight(t, x)
    <3>1. t[e][x] \in S \cup {Nil}
      BY Child
    <3> QED
      BY <1>3, <1>6, <3>1 DEF Weight
  <2>4. y + 0 + h = y + h
    OBVIOUS
  <2>5. t[e][x] # Nil => t.parent[t[e][x]] = x
    BY DEF Shape, Linked
  <2> QED
    BY <1>2, <1>8, <1>12, <1>13, <2>2, <2>3, <2>4, <2>5
<1>14. w # p /\ nd # p
  <2>1. t[d][p] # p /\ t[Other(d)][p] # p
    BY <1>2, <1>3, <1>4, <1>5, Child
  <2> QED
    BY <1>2, <1>4, <2>1
<1> QED
  BY <1>2, <1>3, <1>4, <1>5, <1>6, <1>8, <1>9, <1>11, <1>12, <1>13, <1>14

(* Heights that owe a black node on the way from p to its child nd. *)
LEMMA OwedHeights ==
  ASSUME NEW t, NEW S, NEW sub, Shape(t, S, sub), NEW bh \in [Cells -> Nat \ {0}], bh[Nil] = 1,
         NEW nd, NEW p \in S, t.parent[nd] = p, NEW d \in Sides,
         t[d][p] = nd, t[Other(d)][p] # nd,
         bh[p] = bh[nd] + 1 + Weight(t, p), bh[p] = bh[t[Other(d)][p]] + Weight(t, p),
         \A x \in S : x # p => \A e \in Sides : bh[x] = bh[t[e][x]] + Weight(t, x),
         NEW del, del = TRUE
  PROVE  Heights(t, S, bh, nd, del)
<1>1. ASSUME NEW x \in S, NEW e \in Sides
      PROVE  bh[x] = bh[t[e][x]] + Owed(t, nd, del, x, t[e][x]) + Weight(t, x)
  <2>1. PICK y \in Nat, h \in Nat : y = bh[t[e][x]] /\ h = Weight(t, x)
    <3>1. t[e][x] \in S \cup {Nil} /\ S \subseteq Keys
      BY Child
    <3> QED
      BY <3>1, CellFacts DEF Weight
  <2>2. y + 0 + h = y + h
    OBVIOUS
  <2>3. CASE x = p
    <3>1. e = d \/ e = Other(d)
      BY TwoSides
    <3>2. CASE e = d
      <4>1. Owed(t, nd, del, x, t[e][x]) = 1
        BY <2>3, <3>2 DEF Owed
      <4> QED
        BY <2>3, <3>2, <4>1
    <3>3. CASE e = Other(d)
      <4>1. Owed(t, nd, del, x, t[e][x]) = 0
        BY <2>3, <3>3 DEF Owed
      <4>2. bh[x] = y + h
        BY <2>1, <2>3, <3>3
      <4> QED
        BY <2>1, <2>2, <4>1, <4>2
    <3> QED
      BY <3>1, <3>2, <3>3
  <2>4. CASE x # p
    <3>1. Owed(t, nd, del, x, t[e][x]) = 0
      BY <2>4 DEF Owed
    <3>2. bh[x] = y + h
      BY <2>1, <2>4
    <3> QED
      BY <2>1, <2>2, <3>1, <3>2
  <2> QED
    BY <2>3, <2>4
<1> QED
  BY <1>1 DEF Heights

(* Nothing is owed to the root. *)
LEMMA RootOwed ==
  ASSUME NEW t, NEW S, NEW sub, Shape(t, S, sub), t.root \in S, NEW bh, NEW del
  PROVE  Heights(t, S, bh, t.root, del) <=> PlainHeights(t, S, bh)
<1>1. ASSUME NEW x \in S, NEW e \in Sides
      PROVE  Owed(t, t.root, del, x, t[e][x]) = 0
  <2>1. t[e][x] # t.root
    <3>1. t[e][x] # Nil => t[e][x] # t.root
      BY DEF Shape, Linked
    <3>2. t.root # Nil
      BY CellFacts DEF Shape, Linked
    <3> QED
      BY <3>1, <3>2
  <2> QED
    BY <2>1 DEF Owed
<1>2. ASSUME NEW x \in S, NEW e \in Sides, bh \in [Cells -> Nat \ {0}]
      PROVE  bh[t[e][x]] + 0 = bh[t[e][x]]
  <2>1. bh[t[e][x]] \in Nat
    <3>1. t[e][x] \in S \cup {Nil} /\ S \subseteq Keys
      BY Child
    <3> QED
      BY <1>2, <3>1, CellFacts
  <2> QED
    BY <2>1
<1> QED
  BY <1>1, <1>2 DEF Heights, PlainHeights

LEMMA DeleteDoneKeeps ==
  ASSUME NEW sub, Shape(tree, keys, sub), NEW bh, Deleting(tree, keys, bh, node), DeleteDone
  PROVE  \E sub2, bh2 : Shape(tree', keys, sub2) /\ Settled(tree', keys, bh2)
<1>1. PICK t, r, n, S : /\ t = tree /\ r = tree' /\ n = node /\ S = keys
                        /\ Paints(r, t, n, "black")
  BY DEF DeleteDone, Paints
<1>2. Shape(t, S, sub) /\ Deleting(t, S, bh, n) /\ (n = t.root \/ t.color[n] # "black")
  BY <1>1 DEF DeleteDone, Fixing, Black
<1>3. PICK del : del = TRUE
  OBVIOUS
<1>4. /\ Heights(t, S, bh, n, del)
      /\ t.color[Nil] = "black" /\ n \in S \cup {Nil} /\ t.root \in S
      /\ t.color[t.root] = "red" => t.root = n
      /\ \A k \in S : RedPair(t, k) => n \in {k, t.parent[k]}
  BY <1>2, <1>3 DEF Deleting
<1>5. t \in Trees /\ S \subseteq Keys /\ S \subseteq Cells /\ Nil \in Cells /\ Nil \notin S
  BY <1>2, CellFacts DEF Shape, Linked
<1>6. n \in S /\ n \in Cells /\ n # Nil
  BY <1>2, <1>4, <1>5
<1>7. /\ Shape(r, S, sub) /\ r.root = t.root /\ r.parent = t.parent
      /\ \A d \in Sides : r[d] = t[d]
      /\ \A z \in Cells : r.color[z] = IF z = n THEN "black" ELSE t.color[z]
  BY <1>1, <1>2, <1>6, PaintedShape DEF Colors
<1>8. /\ bh \in [Cells -> Nat \ {0}] /\ bh[Nil] = 1
      /\ \A x \in S : \A e \in Sides :
           bh[x] = bh[t[e][x]] + Owed(t, n, del, x, t[e][x]) + Weight(t, x)
  BY <1>4 DEF Heights
<1>9. PICK a \in Nat \ {0}, h \in Nat \ {0}, g \in {0, 1} :
        a = bh[n] /\ g = Weight(t, n) /\ h = a + 1 - g
  <2>1. bh[n] \in Nat \ {0} /\ Weight(t, n) \in {0, 1}
    BY <1>6, <1>8 DEF Weight
  <2> QED
    BY <2>1
<1>10. PICK bh2 : bh2 = [bh EXCEPT ![n] = h]
  OBVIOUS
<1>11. bh2 \in [Cells -> Nat \ {0}] /\ bh2[n] = h /\ \A z \in Cells : z # n => bh2[z] = bh[z]
  BY <1>6, <1>8, <1>10
<1>12. \A x \in S : \A e \in Sides : t[e][x] \in Cells /\ t[e][x] # x
                                     /\ (t[e][x] = n => n # t.root /\ x = t.parent[n])
  <2> SUFFICES ASSUME NEW x \in S, NEW e \in Sides
               PROVE  /\ t[e][x] \in Cells /\ t[e][x] # x
                      /\ t[e][x] = n => n # t.root /\ x = t.parent[n]
    OBVIOUS
  <2>1. t[e][x] \in S \cup {Nil} /\ t[e][x] # x
    BY <1>2, <1>5, Child
  <2>2. t[e][x] # Nil => t.parent[t[e][x]] = x /\ t[e][x] # t.root
    BY <1>2 DEF Shape, Linked
  <2> QED
    BY <1>5, <1>6, <2>1, <2>2
<1>13. ASSUME NEW x \in S, NEW e \in Sides
       PROVE  bh2[x] = bh2[r[e][x]] + Weight(r, x)
  <2>1. r[e][x] = t[e][x]
    BY <1>7
  <2>2. PICK c : c = t[e][x]
    OBVIOUS
  <2>3. PICK b \in Nat, v \in Nat, o \in {0, 1} :
          b = bh[c] /\ v = Weight(t, x) /\ o = Owed(t, n, del, x, c)
    BY <1>8, <1>12, <2>2 DEF Weight, Owed
  <2>4. bh[x] = b + o + v
    BY <1>8, <2>2, <2>3
  <2>5. CASE c = n
    <3>1. x # n /\ n # t.root /\ x = t.parent[n]
      BY <1>12, <2>2, <2>5
    <3>2. o = 1
      BY <1>3, <2>3, <2>5, <3>1 DEF Owed
    <3>3. g = 0
      BY <1>2, <1>9, <3>1 DEF Weight
    <3>4. h = b + 1
      BY <1>9, <2>3, <2>5, <3>3
    <3>5. Weight(r, x) = v
      BY <1>5, <1>7, <2>3, <3>1 DEF Weight
    <3>6. bh2[x] = bh[x] /\ bh2[c] = h
      BY <1>5, <1>11, <2>5, <3>1
    <3> QED
      BY <2>1, <2>2, <2>4, <3>2, <3>4, <3>5, <3>6
  <2>6. CASE c # n
    <3>1. o = 0
      BY <2>3, <2>6 DEF Owed
    <3>2. bh2[c] = b
      BY <1>11, <1>12, <2>2, <2>3, <2>6
    <3>3. CASE x = n
      <4>1. Weight(r, x) = 1
        BY <1>6, <1>7, <3>3 DEF Weight
      <4>2. v = g /\ bh[x] = a
        BY <1>9, <2>3, <3>3
      <4>3. h = b + 1
        BY <1>9, <2>4, <3>1, <4>2
      <4> QED
        BY <1>11, <2>1, <2>2, <3>2, <3>3, <4>1, <4>3
    <3>4. CASE x # n
      <4>1. Weight(r, x) = v
        BY <1>5, <1>7, <2>3, <3>4 DEF Weight
      <4>2. bh2[x] = b + v
        BY <1>5, <1>11, <2>4, <3>1, <3>4
      <4> QED
        BY <2>1, <2>2, <3>2, <4>1, <4>2
    <3> QED
      BY <3>3, <3>4
  <2> QED
    BY <2>5, <2>6
<1>14. PlainHeights(r, S, bh2)
  BY <1>5, <1>6, <1>8, <1>11, <1>13 DEF PlainHeights
<1>15. Heights(r, S, bh2, Nil, FALSE)
  BY <1>7, <1>14, NothingOwed
<1>16. r.color[Nil] = "black" /\ r.color[r.root] = "black"
  <2>1. t.color[t.root] \in {"red", "black"}
    BY <1>4, <1>5, Fields DEF Colors
  <2> QED
    BY <1>4, <1>5, <1>6, <1>7, <2>1
<1>17. ASSUME NEW k \in S
       PROVE  ~RedPair(r, k)
  <2> SUFFICES ASSUME RedPair(r, k) PROVE FALSE
    OBVIOUS
  <2>1. k # t.root /\ r.color[k] = "red" /\ r.color[t.parent[k]] = "red"
    BY <1>7 DEF RedPair
  <2>2. t.parent[k] \in Cells
    BY <1>2, <1>5, <2>1 DEF Shape, Linked
  <2>3. k # n /\ t.parent[k] # n /\ t.color[k] = "red" /\ t.color[t.parent[k]] = "red"
    BY <1>5, <1>7, <2>1, <2>2
  <2>4. RedPair(t, k)
    BY <2>1, <2>3 DEF RedPair
  <2> QED
    BY <1>4, <2>3, <2>4
<1>18. Settled(r, S, bh2)
  BY <1>15, <1>16, <1>17 DEF Settled
<1> QED
  BY <1>1, <1>7, <1>18

LEMMA DeleteRecolorKeeps ==
  ASSUME NEW sub, Shape(tree, keys, sub), NEW bh, Deleting(tree, keys, bh, node), DeleteRecolor
  PROVE  \E sub2, bh2 : Shape(tree', keys, sub2) /\ Deleting(tree', keys, bh2, node')
<1>1. PICK t, r, n, S, p, d, w :
        /\ t = tree /\ r = tree' /\ n = node /\ S = keys
        /\ p = t.parent[n] /\ d = SideOf(t, n) /\ w = t[Other(d)][p]
  OBVIOUS
<1>2. /\ Shape(t, S, sub) /\ Owing(t, S, bh, n, p, d, w)
      /\ t.color[n] = "black" /\ t.color[w] = "black"
      /\ t.color[t.left[w]] = "black" /\ t.color[t.right[w]] = "black"
      /\ Paints(r, t, w, "red") /\ node' = p
  BY <1>1, Zenon DEF DeleteRecolor, Fixing, Black, Sibling, Owing, Paints
<1>3. /\ S \subseteq Cells /\ Nil \in Cells /\ Nil \notin S /\ t.root \in S
      /\ n \in Cells /\ p \in S /\ d \in Sides
      /\ t[d][p] = n /\ t[Other(d)][p] = w
      /\ w \in S /\ w # n /\ w # p /\ n # p /\ w # t.root /\ t.parent[w] = p
      /\ bh \in [Cells -> Nat \ {0}] /\ bh[Nil] = 1
      /\ bh[w] = bh[n] + 1 /\ bh[p] = bh[n] + 1 + Weight(t, p)
      /\ \A x \in S : x # p => \A e \in Sides :
           bh[x] = bh[t[e][x]] + Weight(t, x) /\ t[e][x] # w
      /\ t.color[Nil] = "black" /\ t.color[t.root] # "red"
      /\ \A x \in S : RedPair(t, x) => n \in {x, t.parent[x]}
  BY <1>2, OwingFacts
<1>4. /\ Shape(r, S, sub) /\ r.root = t.root /\ r.parent = t.parent
      /\ \A e \in Sides : r[e] = t[e]
      /\ \A z \in Cells : r.color[z] = IF z = w THEN "red" ELSE t.color[z]
  BY <1>2, <1>3, PaintedShape DEF Colors
<1>5. PICK a \in Nat \ {0}, g \in {0, 1} : a = bh[n] /\ g = Weight(t, p)
  BY <1>3 DEF Weight
<1>6. bh[w] = a + 1 /\ bh[p] = a + 1 + g
  BY <1>3, <1>5
<1>7. PICK bh2 : bh2 = [bh EXCEPT ![w] = a, ![p] = a + g]
  OBVIOUS
<1>8. /\ bh2 \in [Cells -> Nat \ {0}] /\ bh2[w] = a /\ bh2[p] = a + g
      /\ \A z \in Cells : z # w /\ z # p => bh2[z] = bh[z]
  <2>1. a + g \in Nat \ {0}
    OBVIOUS
  <2>2. w \in Cells /\ p \in Cells
    BY <1>3
  <2> QED
    BY <1>3, <1>7, <2>1, <2>2
<1>9. \A z \in Cells : z # w => Weight(r, z) = Weight(t, z)
  BY <1>4 DEF Weight
<1>10. Weight(r, w) = 0 /\ Weight(t, w) = 1
  BY <1>2, <1>3, <1>4 DEF Weight
<1>11. PICK del : del = TRUE
  OBVIOUS
<1>12. ASSUME NEW x \in S, NEW e \in Sides
       PROVE  bh2[x] = bh2[r[e][x]] + Owed(r, p, del, x, r[e][x]) + Weight(r, x)
  <2>1. PICK c : c = t[e][x] /\ c = r[e][x]
    BY <1>4
  <2>2. c \in S \cup {Nil} /\ c \in Cells /\ c # x
    <3>1. t[e][x] \in S \cup {Nil} /\ t[e][x] # x
      BY <1>2, <1>3, Child
    <3> QED
      BY <1>3, <2>1, <3>1
  <2>3. c = p => x = t.parent[p] /\ p # t.root
    <3>1. t[e][x] # Nil => t.parent[t[e][x]] = x /\ t[e][x] # t.root
      BY <1>2 DEF Shape, Linked
    <3>2. p # Nil
      BY <1>3
    <3> QED
      BY <2>1, <3>1, <3>2
  <2>4. PICK o \in {0, 1} : o = Owed(r, p, del, x, c)
    BY DEF Owed
  <2>5. o = IF c = p THEN 1 ELSE 0
    BY <1>4, <1>11, <2>3, <2>4 DEF Owed
  <2>6. CASE x = p
    <3>1. c \in {n, w}
      BY <1>3, <2>1, <2>6, TwoSides
    <3>2. bh2[c] = a
      BY <1>3, <1>5, <1>8, <3>1
    <3>3. o = 0
      BY <2>2, <2>5, <2>6
    <3>4. Weight(r, x) = g
      BY <1>3, <1>5, <1>9, <2>6
    <3> QED
      BY <1>8, <2>1, <2>4, <2>6, <3>2, <3>3, <3>4
  <2>7. CASE x = w
    <3>1. bh[w] = bh[c] + Weight(t, w)
      <4>1. \A y \in S : y # p => \A s \in Sides : bh[y] = bh[t[s][y]] + Weight(t, y)
        BY <1>3
      <4>2. w \in S /\ w # p /\ c = t[e][w]
        BY <1>3, <2>1, <2>7
      <4> QED
        BY <4>1, <4>2
    <3>2. bh[c] \in Nat
      BY <1>3, <2>2
    <3>3. bh[c] = a
      BY <1>6, <1>10, <3>1, <3>2
    <3>4. c # p
      <4>1. Other(d) \in Sides
        BY <1>3, TwoSides
      <4>2. t[e][w] # p
        BY <1>2, <1>3, <4>1, Grandchild
      <4> QED
        BY <2>1, <2>7, <4>2
    <3>5. c # w
      BY <2>2, <2>7
    <3>6. bh2[c] = a /\ o = 0
      BY <1>8, <2>2, <2>5, <3>3, <3>4, <3>5
    <3> QED
      BY <1>8, <1>10, <2>1, <2>4, <2>7, <3>6
  <2>8. CASE x # p /\ x # w
    <3>1. bh[x] = bh[c] + Weight(t, x) /\ c # w
      <4>1. \A y \in S : y # p => \A s \in Sides :
              bh[y] = bh[t[s][y]] + Weight(t, y) /\ t[s][y] # w
        BY <1>3
      <4> QED
        BY <2>1, <2>8, <4>1
    <3>2. PICK b \in Nat, v \in Nat : b = bh[c] /\ v = Weight(t, x)
      BY <1>3, <2>2 DEF Weight
    <3>3. bh2[x] = b + v /\ Weight(r, x) = v
      BY <1>3, <1>8, <1>9, <2>8, <3>1, <3>2
    <3>4. bh2[c] + o = b
      <4>1. c = p => bh2[c] = a + g /\ b = a + 1 + g /\ o = 1
        BY <1>6, <1>8, <2>5, <3>2
      <4>2. c # p => bh2[c] = b /\ o = 0
        BY <1>8, <2>2, <2>5, <3>1, <3>2
      <4> QED
        BY <4>1, <4>2
    <3> QED
      BY <2>1, <2>4, <3>3, <3>4
  <2> QED
    BY <2>6, <2>7, <2>8
<1>13. Heights(r, S, bh2, p, del)
  <2>1. bh2[Nil] = 1
    BY <1>3, <1>8
  <2> QED
    BY <1>8, <1>12, <2>1 DEF Heights
<1>14. ASSUME NEW k \in S, RedPair(r, k)
       PROVE  p \in {k, r.parent[k]}
  <2>1. k # t.root /\ r.color[k] = "red" /\ r.color[t.parent[k]] = "red" /\ t.parent[k] \in S
    BY <1>2, <1>4, <1>14 DEF RedPair, Shape, Linked
  <2>2. CASE k = w
    BY <1>3, <1>4, <2>2
  <2>3. CASE k # w
    <3>1. t.color[k] = "red"
      BY <1>3, <1>4, <2>1, <2>3
    <3>2. t.parent[k] # w
      <4> SUFFICES ASSUME t.parent[k] = w PROVE FALSE
        OBVIOUS
      <4>1. PICK e \in Sides : t[e][w] = k
        BY <1>2, <2>1 DEF Shape, Linked
      <4>2. t[e][w] \in {t.left[w], t.right[w]}
        BY <1>2, Fields DEF Sides, Shape, Linked
      <4> QED
        BY <1>2, <3>1, <4>1, <4>2
    <3>3. RedPair(t, k)
      BY <1>3, <1>4, <2>1, <3>1, <3>2 DEF RedPair
    <3>4. n \in {k, t.parent[k]}
      BY <1>3, <3>3
    <3> QED
      BY <1>2, <3>3, <3>4 DEF RedPair
  <2> QED
    BY <2>2, <2>3
<1>15. p # r.root => /\ r.parent[p] \in S
                     /\ \E e \in Sides : /\ r[e][r.parent[p]] = p
                                         /\ r[Other(e)][r.parent[p]] # p
  <2> SUFFICES ASSUME p # r.root
               PROVE  /\ r.parent[p] \in S
                      /\ \E e \in Sides : /\ r[e][r.parent[p]] = p
                                          /\ r[Other(e)][r.parent[p]] # p
    OBVIOUS
  <2>1. PICK q, e : q = r.parent[p] /\ e = SideOf(r, p)
    OBVIOUS
  <2>2. q \in S /\ e \in Sides /\ r[e][q] = p /\ r[Other(e)][q] # p
    BY <1>3, <1>4, <2>1, Under
  <2> QED
    BY <2>1, <2>2
<1>16. r.color[Nil] = "black" /\ r.color[r.root] # "red"
  BY <1>3, <1>4
<1>17. Deleting(r, S, bh2, p)
  BY <1>3, <1>4, <1>11, <1>13, <1>14, <1>15, <1>16 DEF Deleting
<1> QED
  BY <1>1, <1>2, <1>4, <1>17

(* The heights bh are right at the nodes X, where no black node is owed. *)
Even(t, X, bh) == \A x \in X : \A e \in Sides : bh[x] = bh[t[e][x]] + Weight(t, x)

LEMMA TurnedEven ==
  ASSUME NEW t, NEW S, NEW sub, Shape(t, S, sub), NEW d \in Sides,
         NEW n \in S, NEW c \in S, c = t[Other(d)][n], NEW r, Rotates(r, t, d, n),
         NEW bh, NEW bh2, bh2[c] = bh[n], SameBut(bh2, bh, n, c),
         NEW X \in SUBSET (S \ {n, c}), Even(t, X, bh)
  PROVE  Even(r, X, bh2)
<1>1. PICK g : g = t[d][c]
  OBVIOUS
<1>2. /\ r.color = t.color
      /\ \A x \in S : \A e \in Sides : x # n /\ x # c =>
           r[e][x] = (IF t[e][x] = n THEN c ELSE t[e][x]) /\ t[e][x] # c
  BY <1>1, Around
<1>3. ASSUME NEW x \in X, NEW e \in Sides
      PROVE  bh2[x] = bh2[r[e][x]] + Weight(r, x)
  <2>1. x \in S /\ x # n /\ x # c /\ x \in Cells
    BY CellFacts DEF Shape, Linked
  <2>2. t[e][x] \in Cells
    <3>1. t[e][x] \in S \cup {Nil} /\ S \subseteq Keys
      BY <2>1, Child
    <3> QED
      BY <3>1, CellFacts
  <2>3. r[e][x] = (IF t[e][x] = n THEN c ELSE t[e][x]) /\ t[e][x] # c
    BY <1>2, <2>1
  <2>4. bh2[r[e][x]] = bh[t[e][x]] /\ bh2[x] = bh[x]
    BY <2>1, <2>2, <2>3 DEF SameBut
  <2>5. bh[x] = bh[t[e][x]] + Weight(t, x) /\ Weight(r, x) = Weight(t, x)
    BY <1>2 DEF Even, Weight
  <2> QED
    BY <2>4, <2>5
<1> QED
  BY <1>3 DEF Even

(* The red sibling goes up, and one of its black children becomes the sibling. *)
LEMMA RedSiblingTurned ==
  ASSUME NEW t, NEW S, NEW sub, Shape(t, S, sub), NEW bh,
         NEW nd, NEW p, NEW d, NEW w, Owing(t, S, bh, nd, p, d, w),
         t.color[nd] = "black", t.color[w] = "red",
         NEW t1, Paints(t1, t, w, "black"), NEW t2, Paints(t2, t1, p, "red"),
         NEW r, Rotates(r, t2, d, p)
  PROVE  \E sub2, bh2 : Shape(r, S, sub2) /\ Deleting(r, S, bh2, nd)
<1>1. /\ S \subseteq Cells /\ Nil \in Cells /\ Nil \notin S /\ t.root \in S
      /\ nd \in S \cup {Nil} /\ nd \in Cells /\ nd # t.root
      /\ p \in S /\ d \in Sides /\ Other(d) \in Sides /\ t.parent[nd] = p
      /\ t[d][p] = nd /\ t[Other(d)][p] = w
      /\ w \in S /\ w # nd /\ w # p /\ nd # p /\ w # t.root /\ t.parent[w] = p
      /\ bh \in [Cells -> Nat \ {0}] /\ bh[Nil] = 1
      /\ bh[w] = bh[nd] + 1 /\ bh[p] = bh[nd] + 1 + Weight(t, p)
      /\ \A x \in S : x # p => \A e \in Sides : bh[x] = bh[t[e][x]] + Weight(t, x)
      /\ t.color[Nil] = "black" /\ t.color[t.root] # "red"
      /\ \A x \in S : RedPair(t, x) => nd \in {x, t.parent[x]}
  BY OwingFacts
<1>2. t.color[p] = "black"
  <2>1. t.color[p] \in {"red", "black"}
    BY <1>1, Fields DEF Shape, Linked, Colors
  <2>2. t.color[p] # "red"
    <3>1. t.color[p] = "red" => RedPair(t, w)
      BY <1>1 DEF RedPair
    <3> QED
      BY <1>1, <3>1
  <2> QED
    BY <2>1, <2>2
<1>3. /\ Shape(t1, S, sub) /\ t1.root = t.root /\ t1.parent = t.parent
      /\ (\A e \in Sides : t1[e] = t[e])
      /\ \A z \in Cells : t1.color[z] = IF z = w THEN "black" ELSE t.color[z]
  BY <1>1, PaintedShape DEF Colors
<1>4. /\ Shape(t2, S, sub) /\ t2.root = t1.root /\ t2.parent = t1.parent
      /\ (\A e \in Sides : t2[e] = t1[e])
      /\ \A z \in Cells : t2.color[z] = IF z = p THEN "red" ELSE t1.color[z]
  BY <1>1, <1>3, PaintedShape DEF Colors
<1>5. /\ t2.root = t.root /\ t2.parent = t.parent /\ (\A e \in Sides : t2[e] = t[e])
      /\ \A z \in Cells : t2.color[z] = IF z = p THEN "red"
                                        ELSE IF z = w THEN "black" ELSE t.color[z]
  BY <1>3, <1>4
<1>6. PICK g, o : g = t[d][w] /\ o = t[Other(d)][w]
  OBVIOUS
<1>7. /\ g \in S \cup {Nil} /\ o \in S \cup {Nil} /\ g # w /\ o # w /\ g # p /\ o # p
      /\ (g # Nil => t.parent[g] = w /\ g # t.root) /\ (o # Nil => t.parent[o] = w)
  <2>1. \A e \in Sides : t[e][w] \in S \cup {Nil} /\ t[e][w] # w
    BY <1>1, Child
  <2>2. \A e \in Sides : t[e][w] # p
    BY <1>1, Grandchild
  <2>3. \A e \in Sides : t[e][w] # Nil => t.parent[t[e][w]] = w /\ t[e][w] # t.root
    BY <1>1 DEF Shape, Linked
  <2> QED
    BY <1>1, <1>6, <2>1, <2>2, <2>3
<1>8. PICK h \in Nat \ {0} : h = bh[nd]
  BY <1>1
<1>9. bh[w] = h + 1 /\ bh[p] = h + 2 /\ bh[g] = h + 1 /\ bh[o] = h + 1
  <2>1. Weight(t, w) = 0 /\ Weight(t, p) = 1
    BY <1>2 DEF Weight
  <2>2. bh[g] \in Nat /\ bh[o] \in Nat
    BY <1>1, <1>7
  <2>3. bh[w] = bh[g] + Weight(t, w) /\ bh[w] = bh[o] + Weight(t, w)
    BY <1>1, <1>6
  <2> QED
    BY <1>1, <1>8, <2>1, <2>2, <2>3
<1>10. g # Nil /\ g # nd /\ o # nd
  <2>1. g # Nil /\ o # Nil
    BY <1>1, <1>8, <1>9
  <2> QED
    BY <1>1, <1>7, <2>1
<1>11. /\ r.color = t2.color /\ r.root = IF p = t2.root THEN w ELSE t2.root
       /\ r[d][w] = p /\ r[Other(d)][w] = t2[Other(d)][w]
       /\ r[d][p] = t2[d][p] /\ r[Other(d)][p] = g
       /\ r.parent[p] = w /\ r.parent[w] = t2.parent[p]
       /\ g # Nil => r.parent[g] = p
       /\ \A x \in Cells : x # p /\ x # w /\ (x # g \/ g = Nil) => r.parent[x] = t2.parent[x]
  <2>1. w = t2[Other(d)][p] /\ g = t2[d][w]
    BY <1>1, <1>5, <1>6
  <2>2. Shape(t2, S, sub) /\ p \in S /\ w \in S /\ d \in Sides
    BY <1>1, <1>4
  <2> QED
    BY <2>1, <2>2, Around, SMTT(40)
<1>12. /\ r.root = IF p = t.root THEN w ELSE t.root
       /\ r[d][w] = p /\ r[Other(d)][w] = o /\ r[d][p] = nd /\ r[Other(d)][p] = g
       /\ r.parent[p] = w /\ r.parent[g] = p /\ r.parent[nd] = p
       /\ \A x \in Cells : x # p /\ x # w /\ x # g => r.parent[x] = t.parent[x]
       /\ \A z \in Cells : r.color[z] = IF z = p THEN "red"
                                        ELSE IF z = w THEN "black" ELSE t.color[z]
  BY <1>1, <1>5, <1>6, <1>10, <1>11
<1>13. PICK sub2 : Shape(r, S, sub2)
  <2>1. t2[Other(d)][p] # Nil
    BY <1>1, <1>5
  <2> QED
    BY <1>1, <1>4, <2>1, RotatedShape
<1>14. PICK bh2 : bh2 = [bh EXCEPT ![p] = h + 1, ![w] = h + 2]
  OBVIOUS
<1>15. /\ bh2 \in [Cells -> Nat \ {0}] /\ bh2[p] = h + 1 /\ bh2[w] = h + 2
       /\ \A z \in Cells : z # p /\ z # w => bh2[z] = bh[z]
  <2>1. h + 1 \in Nat \ {0} /\ h + 2 \in Nat \ {0} /\ p \in Cells /\ w \in Cells
    BY <1>1
  <2> QED
    BY <1>1, <1>14, <2>1
<1>16. bh2[nd] = h /\ bh2[g] = h + 1 /\ bh2[o] = h + 1 /\ bh2[Nil] = 1
  BY <1>1, <1>7, <1>8, <1>9, <1>15
<1>17. Weight(r, p) = 0 /\ Weight(r, w) = 1
  BY <1>1, <1>12 DEF Weight
<1>18. Even(r, S \ {p, w}, bh2)
  <2>1. Even(t2, S \ {p, w}, bh)
    <3>1. ASSUME NEW x \in S \ {p, w}, NEW e \in Sides
          PROVE  bh[x] = bh[t2[e][x]] + Weight(t2, x)
      <4>1. t2[e][x] = t[e][x] /\ Weight(t2, x) = Weight(t, x)
        BY <1>1, <1>5 DEF Weight
      <4> QED
        BY <1>1, <4>1
    <3> QED
      BY <3>1 DEF Even
  <2>2. SameBut(bh2, bh, p, w) /\ bh2[w] = bh[p]
    BY <1>9, <1>15 DEF SameBut
  <2>3. w = t2[Other(d)][p] /\ Shape(t2, S, sub) /\ p \in S /\ w \in S /\ d \in Sides
    BY <1>1, <1>4, <1>5
  <2>4. PICK X \in SUBSET (S \ {p, w}) : X = S \ {p, w}
    OBVIOUS
  <2> QED
    BY <2>1, <2>2, <2>3, <2>4, TurnedEven
<1>19. PICK del : del = TRUE
  OBVIOUS
<1>20. Heights(r, S, bh2, nd, del)
  <2>1. bh2[p] = bh2[nd] + 1 + Weight(r, p) /\ bh2[p] = bh2[r[Other(d)][p]] + Weight(r, p)
    BY <1>12, <1>15, <1>16, <1>17
  <2>2. ASSUME NEW x \in S, x # p, NEW e \in Sides
        PROVE  bh2[x] = bh2[r[e][x]] + Weight(r, x)
    <3>1. CASE x = w
      <4>1. r[e][w] \in {p, o}
        BY <1>1, <1>12, TwoSides
      <4> QED
        BY <1>15, <1>16, <1>17, <3>1, <4>1
    <3>2. CASE x # w
      BY <1>18, <2>2, <3>2 DEF Even
    <3> QED
      BY <3>1, <3>2
  <2>3. r[Other(d)][p] # nd
    BY <1>10, <1>12
  <2> QED
    BY <1>1, <1>12, <1>13, <1>15, <1>16, <1>19, <2>1, <2>2, <2>3, OwedHeights
<1>21. r.color[Nil] = "black" /\ r.root \in S /\ (r.color[r.root] = "red" => r.root = nd)
  <2>1. r.root \in S /\ r.root # p
    BY <1>1, <1>12
  <2>2. r.color[r.root] # "red"
    BY <1>1, <1>12, <2>1
  <2> QED
    BY <1>1, <1>12, <2>1, <2>2
<1>22. ASSUME NEW k \in S, RedPair(r, k)
       PROVE  nd \in {k, r.parent[k]}
  <2>1. k # r.root /\ r.color[k] = "red" /\ r.color[r.parent[k]] = "red"
    BY <1>22 DEF RedPair
  <2>2. k # w /\ k # p
    BY <1>1, <1>12, <2>1
  <2>3. k # g
    <3>1. g \in S /\ g # t.root /\ t.parent[g] = w
      BY <1>7, <1>10
    <3>2. t.color[g] # "red"
      <4>1. t.color[g] = "red" => RedPair(t, g)
        BY <3>1 DEF RedPair
      <4> QED
        BY <1>1, <1>10, <3>1, <4>1
    <3> QED
      BY <1>1, <1>7, <1>12, <2>1, <3>1, <3>2
  <2>4. k # t.root
    BY <1>12, <2>1, <2>2
  <2>5. r.parent[k] = t.parent[k] /\ t.parent[k] \in S /\ t.color[k] = "red"
    <3>1. t.parent[k] \in S
      BY <2>4 DEF Shape, Linked
    <3> QED
      BY <1>1, <1>12, <2>1, <2>2, <2>3, <3>1
  <2>6. CASE t.parent[k] = p
    <3>1. PICK e \in Sides : t[e][p] = k
      BY <2>4, <2>6 DEF Shape, Linked
    <3>2. k = nd \/ k = w
      BY <1>1, <3>1, TwoSides
    <3> QED
      BY <2>2, <3>2
  <2>7. CASE t.parent[k] # p
    <3>1. t.color[t.parent[k]] = "red"
      BY <1>1, <1>12, <2>1, <2>5, <2>7
    <3>2. RedPair(t, k)
      BY <2>4, <2>5, <3>1 DEF RedPair
    <3> QED
      BY <1>1, <2>5, <3>2
  <2> QED
    BY <2>6, <2>7
<1>23. r.parent[nd] \in S /\ \E e \in Sides : /\ r[e][r.parent[nd]] = nd
                                              /\ r[Other(e)][r.parent[nd]] # nd
  BY <1>1, <1>10, <1>12
<1>24. Deleting(r, S, bh2, nd)
  BY <1>1, <1>19, <1>20, <1>21, <1>22, <1>23 DEF Deleting
<1> QED
  BY <1>13, <1>24

LEMMA DeleteRedSiblingKeeps ==
  ASSUME NEW sub, Shape(tree, keys, sub), NEW bh, Deleting(tree, keys, bh, node),
         DeleteRedSibling
  PROVE  \E sub2, bh2 : Shape(tree', keys, sub2) /\ Deleting(tree', keys, bh2, node')
<1>1. PICK p, d, w, t1, t2 :
        /\ p = tree.parent[node] /\ d = SideOf(tree, node) /\ w = tree[Other(d)][p]
        /\ t1 = Paint(tree, w, "black") /\ t2 = Paint(t1, p, "red")
  OBVIOUS
<1>2. /\ Owing(tree, keys, bh, node, p, d, w)
      /\ tree.color[node] = "black" /\ tree.color[w] = "red" /\ node' = node
      /\ Paints(t1, tree, w, "black") /\ Paints(t2, t1, p, "red") /\ Rotates(tree', t2, d, p)
  BY <1>1 DEF DeleteRedSibling, Fixing, Black, Red, Sibling, Owing, Paints, Rotates
<1> QED
  BY <1>2, RedSiblingTurned

InnerRed(t, d, v, g) ==
  /\ g = t[d][v] /\ t.color[v] = "black" /\ t.color[g] = "red"
  /\ t.color[t[Other(d)][v]] = "black"

(* The red inner child of the black sibling v goes up, and is the sibling. *)
LEMMA InnerTurned ==
  ASSUME NEW t, NEW S, NEW sub, Shape(t, S, sub), NEW bh,
         NEW nd, NEW p, NEW d, NEW v, Owing(t, S, bh, nd, p, d, v),
         NEW g, InnerRed(t, d, v, g),
         NEW t1, Paints(t1, t, g, "black"), NEW t2, Paints(t2, t1, v, "red"),
         NEW r, Rotates(r, t2, Other(d), v)
  PROVE  \E sub2, bh2 : /\ Shape(r, S, sub2) /\ Owing(r, S, bh2, nd, p, d, g)
                        /\ r[Other(d)][g] = v
                        /\ \A z \in Cells : r.color[z] = IF z = v THEN "red"
                                            ELSE IF z = g THEN "black" ELSE t.color[z]
<1>0. /\ g = t[d][v] /\ t.color[v] = "black" /\ t.color[g] = "red"
      /\ t.color[t[Other(d)][v]] = "black"
  BY DEF InnerRed
<1> USE <1>0
<1>1. /\ S \subseteq Cells /\ Nil \in Cells /\ Nil \notin S /\ t.root \in S
      /\ nd \in S \cup {Nil} /\ nd \in Cells /\ nd # t.root
      /\ p \in S /\ d \in Sides /\ Other(d) \in Sides /\ t.parent[nd] = p
      /\ t[d][p] = nd /\ t[Other(d)][p] = v
      /\ v \in S /\ v # nd /\ v # p /\ nd # p /\ v # t.root /\ t.parent[v] = p
      /\ bh \in [Cells -> Nat \ {0}] /\ bh[Nil] = 1
      /\ bh[v] = bh[nd] + 1 /\ bh[p] = bh[nd] + 1 + Weight(t, p)
      /\ \A x \in S : x # p => \A e \in Sides :
           bh[x] = bh[t[e][x]] + Weight(t, x) /\ t[e][x] # v /\ (nd # Nil => t[e][x] # nd)
      /\ t.color[Nil] = "black" /\ t.color[t.root] # "red"
      /\ \A x \in S : RedPair(t, x) => nd \in {x, t.parent[x]}
  BY OwingFacts
<1>2. PICK f : f = Other(d)
  OBVIOUS
<1>3. f \in Sides /\ Other(f) = d /\ f # d /\ \A e \in Sides : e = d \/ e = f
  BY <1>1, <1>2, TwoSides
<1>4. PICK i, o : i = t[f][g] /\ o = t[f][v]
  OBVIOUS
<1>5. /\ g \in S /\ g # v /\ g # p /\ g # nd /\ g # t.root /\ t.parent[g] = v
      /\ o \in S \cup {Nil} /\ o # v /\ o # g /\ o # p /\ t.color[o] = "black"
      /\ o # Nil => t.parent[o] = v
  <2>1. g \in S \cup {Nil} /\ g # v /\ o \in S \cup {Nil} /\ o # v
    BY <1>1, <1>3, <1>4, Child
  <2>2. g # Nil
    BY <1>1
  <2>3. g # o
    BY <1>1, <1>2, <1>4, <2>2, Child
  <2>4. g # p /\ o # p
    BY <1>1, <1>3, <1>4, Grandchild
  <2>5. g # t.root /\ t.parent[g] = v /\ (o # Nil => t.parent[o] = v)
    BY <1>1, <1>3, <1>4, <2>2 DEF Shape, Linked
  <2>6. t.color[o] = "black"
    BY <1>2, <1>4
  <2> QED
    BY <1>1, <2>1, <2>2, <2>3, <2>4, <2>5, <2>6
<1>6. /\ i \in S \cup {Nil} /\ i # g /\ i # v /\ (i # Nil => t.parent[i] = g)
      /\ t[d][g] \in S \cup {Nil} /\ t[d][g] # g /\ t[d][g] # v
      /\ i # p /\ t[d][g] # p
  <2>1. i \in S \cup {Nil} /\ i # g /\ t[d][g] \in S \cup {Nil} /\ t[d][g] # g
    BY <1>1, <1>3, <1>4, <1>5, Child
  <2>2. i # v /\ t[d][g] # v
    BY <1>1, <1>3, <1>4, <1>5, Grandchild
  <2>3. i # Nil => t.parent[i] = g
    BY <1>3, <1>4, <1>5 DEF Shape, Linked
  <2>4. \A e \in Sides : t[e][g] # p
    <3>1. g \in sub[v]
      BY <1>1, Child
    <3>2. p \notin sub[v]
      BY <1>1, Child
    <3>3. sub[g] \subseteq sub[v]
      BY <1>1, <3>1, Within
    <3> SUFFICES ASSUME NEW e \in Sides, t[e][g] = p PROVE FALSE
      OBVIOUS
    <3>4. p \in sub[p]
      BY <1>1, Child
    <3>5. sub[g] = {g} \cup sub[t[e][g]] \cup sub[t[Other(e)][g]]
      BY <1>5, Child
    <3> QED
      BY <3>2, <3>3, <3>4, <3>5
  <2> QED
    BY <1>1, <1>3, <1>4, <2>1, <2>2, <2>3, <2>4
<1>7. i # nd \/ nd = Nil
  BY <1>1, <1>5, <1>6
<1>8. /\ Shape(t1, S, sub) /\ t1.root = t.root /\ t1.parent = t.parent
      /\ (\A e \in Sides : t1[e] = t[e])
      /\ \A z \in Cells : t1.color[z] = IF z = g THEN "black" ELSE t.color[z]
  BY <1>1, <1>5, PaintedShape DEF Colors
<1>9. /\ Shape(t2, S, sub) /\ t2.root = t1.root /\ t2.parent = t1.parent
      /\ (\A e \in Sides : t2[e] = t1[e])
      /\ \A z \in Cells : t2.color[z] = IF z = v THEN "red" ELSE t1.color[z]
  BY <1>1, <1>8, PaintedShape DEF Colors
<1>10. /\ t2.root = t.root /\ t2.parent = t.parent /\ (\A e \in Sides : t2[e] = t[e])
       /\ \A z \in Cells : t2.color[z] = IF z = v THEN "red"
                                         ELSE IF z = g THEN "black" ELSE t.color[z]
  BY <1>8, <1>9
<1>11. /\ g = t2[Other(f)][v] /\ i = t2[f][g] /\ Rotates(r, t2, f, v)
       /\ Shape(t2, S, sub) /\ v \in S /\ g \in S /\ f \in Sides
  BY <1>1, <1>2, <1>3, <1>4, <1>5, <1>9, <1>10
<1>12. /\ r.color = t2.color /\ r.root = IF v = t2.root THEN g ELSE t2.root
       /\ r[f][g] = v /\ r[Other(f)][g] = t2[Other(f)][g]
       /\ r[f][v] = t2[f][v] /\ r[Other(f)][v] = i
       /\ r.parent[v] = g /\ r.parent[g] = t2.parent[v]
       /\ i # Nil => r.parent[i] = v
       /\ \A x \in Cells : x # v /\ x # g /\ (x # i \/ i = Nil) => r.parent[x] = t2.parent[x]
       /\ \A x \in S : \A e \in Sides : x # v /\ x # g =>
            r[e][x] = (IF t2[e][x] = v THEN g ELSE t2[e][x])
  BY <1>11, Around, SMTT(40)
<1>13. /\ r.root = t.root
       /\ r[f][g] = v /\ r[d][g] = t[d][g] /\ r[f][v] = o /\ r[d][v] = i
       /\ r.parent[v] = g /\ r.parent[g] = p
       /\ i # Nil => r.parent[i] = v
       /\ \A x \in Cells : x # v /\ x # g /\ (x # i \/ i = Nil) => r.parent[x] = t.parent[x]
       /\ \A z \in Cells : r.color[z] = IF z = v THEN "red"
                                        ELSE IF z = g THEN "black" ELSE t.color[z]
  BY <1>1, <1>3, <1>4, <1>10, <1>12
<1>14. r.parent[nd] = p /\ r[d][p] = nd /\ r[f][p] = g
  <2>1. r.parent[nd] = p
    BY <1>1, <1>5, <1>7, <1>13
  <2>2. r[d][p] = nd
    BY <1>1, <1>5, <1>10, <1>12
  <2>3. r[f][p] = g
    BY <1>1, <1>2, <1>3, <1>5, <1>10, <1>12
  <2> QED
    BY <2>1, <2>2, <2>3
<1>15. PICK sub2 : Shape(r, S, sub2)
  <2>1. t2[Other(f)][v] # Nil
    BY <1>1, <1>5, <1>11
  <2> QED
    BY <1>11, <2>1, RotatedShape
<1>16. PICK h \in Nat \ {0} : h = bh[nd]
  BY <1>1
<1>17. bh[v] = h + 1 /\ bh[g] = h /\ bh[o] = h /\ bh[i] = h /\ bh[t[d][g]] = h
  <2>1. Weight(t, v) = 1 /\ Weight(t, g) = 0
    BY DEF Weight
  <2>2. bh[g] \in Nat /\ bh[o] \in Nat /\ bh[i] \in Nat /\ bh[t[d][g]] \in Nat
    BY <1>1, <1>5, <1>6
  <2>3. /\ bh[v] = bh[g] + Weight(t, v) /\ bh[v] = bh[o] + Weight(t, v)
        /\ bh[g] = bh[i] + Weight(t, g) /\ bh[g] = bh[t[d][g]] + Weight(t, g)
    BY <1>1, <1>3, <1>4, <1>5
  <2>4. bh[v] = h + 1
    BY <1>1, <1>16
  <2> QED
    BY <2>1, <2>2, <2>3, <2>4
<1>18. PICK bh2 : bh2 = [bh EXCEPT ![v] = h, ![g] = h + 1]
  OBVIOUS
<1>19. /\ bh2 \in [Cells -> Nat \ {0}] /\ bh2[v] = h /\ bh2[g] = h + 1
       /\ \A z \in Cells : z # v /\ z # g => bh2[z] = bh[z]
  <2>1. h + 1 \in Nat \ {0} /\ v \in Cells /\ g \in Cells
    BY <1>1, <1>5
  <2> QED
    BY <1>1, <1>5, <1>18, <2>1
<1>20. bh2[nd] = h /\ bh2[o] = h /\ bh2[i] = h /\ bh2[t[d][g]] = h /\ bh2[p] = bh[p] /\ bh2[Nil] = 1
  <2>1. bh2[o] = h /\ bh2[i] = h
    BY <1>1, <1>5, <1>6, <1>17, <1>19
  <2>2. bh2[t[d][g]] = h
    BY <1>1, <1>6, <1>17, <1>19
  <2>3. bh2[nd] = h /\ bh2[p] = bh[p] /\ bh2[Nil] = 1
    BY <1>1, <1>5, <1>16, <1>19
  <2> QED
    BY <2>1, <2>2, <2>3
<1>21. Weight(r, v) = 0 /\ Weight(r, g) = 1 /\ Weight(r, p) = Weight(t, p)
  BY <1>1, <1>5, <1>13 DEF Weight
<1>22. Even(r, S \ {v, g, p}, bh2)
  <2>1. PICK X \in SUBSET (S \ {v, g}) : X = S \ {v, g, p}
    OBVIOUS
  <2>2. Even(t2, X, bh)
    <3>1. ASSUME NEW x \in X, NEW e \in Sides
          PROVE  bh[x] = bh[t2[e][x]] + Weight(t2, x)
      <4>1. t2[e][x] = t[e][x] /\ Weight(t2, x) = Weight(t, x)
        BY <1>1, <1>10, <2>1 DEF Weight
      <4> QED
        BY <1>1, <2>1, <4>1
    <3> QED
      BY <3>1 DEF Even
  <2>3. SameBut(bh2, bh, v, g) /\ bh2[g] = bh[v]
    BY <1>17, <1>19 DEF SameBut
  <2>4. Even(r, X, bh2)
    BY <1>11, <2>2, <2>3, TurnedEven
  <2> QED
    BY <2>1, <2>4
<1>23. PICK del : del = TRUE
  OBVIOUS
<1>24. Heights(r, S, bh2, nd, del)
  <2>1. bh2[p] = bh2[nd] + 1 + Weight(r, p) /\ bh2[p] = bh2[r[f][p]] + Weight(r, p)
    BY <1>1, <1>14, <1>16, <1>19, <1>20, <1>21
  <2>2. ASSUME NEW x \in S, x # p, NEW e \in Sides
        PROVE  bh2[x] = bh2[r[e][x]] + Weight(r, x)
    <3>1. CASE x = v
      <4>1. r[e][v] \in {i, o}
        BY <1>3, <1>13
      <4> QED
        BY <1>19, <1>20, <1>21, <3>1, <4>1
    <3>2. CASE x = g
      <4>1. r[e][g] \in {v, t[d][g]}
        BY <1>3, <1>13
      <4>2. bh2[r[e][g]] = h
        BY <1>19, <1>20, <4>1
      <4> QED
        BY <1>19, <1>21, <3>2, <4>2
    <3>3. CASE x # v /\ x # g
      BY <1>22, <2>2, <3>3 DEF Even
    <3> QED
      BY <3>1, <3>2, <3>3
  <2>3. r[f][p] # nd
    BY <1>5, <1>14
  <2>4. bh2[p] = bh2[r[Other(d)][p]] + Weight(r, p) /\ r[Other(d)][p] # nd
    BY <1>2, <2>1, <2>3
  <2> QED
    BY <1>1, <1>14, <1>15, <1>19, <1>20, <1>23, <2>1, <2>2, <2>4, OwedHeights, ZenonT(40)
<1>25. r.color[Nil] = "black" /\ r.root \in S /\ r.color[r.root] # "red"
  BY <1>1, <1>5, <1>13
<1>26. ASSUME NEW k \in S, RedPair(r, k)
       PROVE  nd \in {k, r.parent[k]}
  <2>1. k # t.root /\ r.color[k] = "red" /\ r.color[r.parent[k]] = "red"
    BY <1>13, <1>26 DEF RedPair
  <2>2. k # v /\ k # g
    BY <1>1, <1>5, <1>13, <2>1
  <2>3. t.color[k] = "red"
    BY <1>1, <1>13, <2>1, <2>2
  <2>4. k # i
    <3> SUFFICES ASSUME k = i PROVE FALSE
      OBVIOUS
    <3>1. i # Nil /\ t.parent[k] = g
      BY <1>1, <1>6
    <3>2. RedPair(t, k)
      BY <2>1, <2>3, <3>1 DEF RedPair
    <3> QED
      BY <1>1, <1>5, <1>7, <3>1, <3>2
  <2>5. r.parent[k] = t.parent[k] /\ t.parent[k] \in S
    <3>1. t.parent[k] \in S
      BY <2>1 DEF Shape, Linked
    <3> QED
      BY <1>1, <1>13, <2>2, <2>4, <3>1
  <2>6. t.parent[k] # v
    <3> SUFFICES ASSUME t.parent[k] = v PROVE FALSE
      OBVIOUS
    <3>1. PICK e \in Sides : t[e][v] = k
      BY <2>1 DEF Shape, Linked
    <3>2. k = g \/ k = o
      BY <1>3, <1>4, <3>1
    <3> QED
      BY <1>5, <2>2, <2>3, <3>2
  <2>7. t.color[t.parent[k]] = "red"
    BY <1>1, <1>5, <1>13, <2>1, <2>5, <2>6
  <2>8. RedPair(t, k)
    BY <2>1, <2>3, <2>7 DEF RedPair
  <2> QED
    BY <1>1, <2>5, <2>8
<1>27. r.parent[nd] \in S /\ \E e \in Sides : /\ r[e][r.parent[nd]] = nd
                                              /\ r[Other(e)][r.parent[nd]] # nd
  BY <1>1, <1>2, <1>5, <1>14
<1>28. Deleting(r, S, bh2, nd)
  BY <1>1, <1>23, <1>24, <1>25, <1>26, <1>27 DEF Deleting
<1>29. d = SideOf(r, nd)
  <2>1. SideOf(r, nd) = IF r["left"][p] = nd THEN "left" ELSE "right"
    BY <1>14, <1>15, Fields DEF SideOf, Shape, Linked
  <2> QED
    BY <1>1, <1>2, <1>3, <1>5, <1>14, <2>1 DEF Sides
<1>30. Owing(r, S, bh2, nd, p, d, g)
  BY <1>1, <1>2, <1>13, <1>14, <1>28, <1>29, Zenon DEF Owing
<1> QED
  BY <1>2, <1>13, <1>15, <1>30

(* The sibling w has a red outer child: it takes the place and the color of the
   parent, and nothing is owed any more. *)
LEMMA OuterSiblingTurned ==
  ASSUME NEW t, NEW S, NEW sub, Shape(t, S, sub), NEW bh,
         NEW nd, NEW p, NEW d, NEW w, Owing(t, S, bh, nd, p, d, w),
         t.color[nd] = "black", t.color[w] = "black",
         NEW o, o = t[Other(d)][w], t.color[o] = "red", NEW col, col = t.color[p],
         NEW t1, Paints(t1, t, w, col), NEW t2, Paints(t2, t1, p, "black"),
         NEW t3, Paints(t3, t2, o, "black"), NEW r, Rotates(r, t3, d, p)
  PROVE  \E sub2, bh2 : Shape(r, S, sub2) /\ Deleting(r, S, bh2, r.root)
<1>1. /\ S \subseteq Cells /\ Nil \in Cells /\ Nil \notin S /\ t.root \in S
      /\ nd \in S \cup {Nil} /\ nd \in Cells /\ nd # t.root
      /\ p \in S /\ d \in Sides /\ Other(d) \in Sides /\ t.parent[nd] = p
      /\ t[d][p] = nd /\ t[Other(d)][p] = w
      /\ w \in S /\ w # nd /\ w # p /\ nd # p /\ w # t.root /\ t.parent[w] = p
      /\ bh \in [Cells -> Nat \ {0}] /\ bh[Nil] = 1
      /\ bh[w] = bh[nd] + 1 /\ bh[p] = bh[nd] + 1 + Weight(t, p)
      /\ \A x \in S : x # p => \A e \in Sides : bh[x] = bh[t[e][x]] + Weight(t, x)
      /\ t.color[Nil] = "black" /\ t.color[t.root] # "red"
      /\ \A x \in S : RedPair(t, x) => nd \in {x, t.parent[x]}
  BY OwingFacts
<1>2. PICK g : g = t[d][w]
  OBVIOUS
<1>3. /\ o \in S /\ o # w /\ o # p /\ o # nd /\ t.parent[o] = w
      /\ g \in S \cup {Nil} /\ g # w /\ g # p /\ g # o /\ (g # Nil => t.parent[g] = w)
  <2>1. o \in S \cup {Nil} /\ g \in S \cup {Nil} /\ o # w /\ g # w
    BY <1>1, <1>2, Child
  <2>2. o # Nil
    BY <1>1
  <2>3. o # p /\ g # p
    BY <1>1, <1>2, Grandchild
  <2>4. t.parent[o] = w /\ (g # Nil => t.parent[g] = w)
    BY <1>1, <1>2, <2>2 DEF Shape, Linked
  <2>5. g # o
    <3>1. g # Nil => t[d][w] # t[Other(d)][w]
      BY <1>1, <1>2, Child
    <3> QED
      BY <1>2, <2>2, <3>1
  <2> QED
    BY <1>1, <2>1, <2>2, <2>3, <2>4, <2>5
<1>4. col \in Colors /\ "black" \in Colors /\ col \in {"red", "black"}
  BY <1>1, Fields DEF Shape, Linked, Colors
<1>5. /\ Shape(t1, S, sub) /\ t1.root = t.root /\ t1.parent = t.parent
      /\ (\A e \in Sides : t1[e] = t[e])
      /\ \A z \in Cells : t1.color[z] = IF z = w THEN col ELSE t.color[z]
  BY <1>1, <1>4, PaintedShape
<1>6. /\ Shape(t2, S, sub) /\ t2.root = t1.root /\ t2.parent = t1.parent
      /\ (\A e \in Sides : t2[e] = t1[e])
      /\ \A z \in Cells : t2.color[z] = IF z = p THEN "black" ELSE t1.color[z]
  BY <1>1, <1>4, <1>5, PaintedShape
<1>7. /\ Shape(t3, S, sub) /\ t3.root = t2.root /\ t3.parent = t2.parent
      /\ (\A e \in Sides : t3[e] = t2[e])
      /\ \A z \in Cells : t3.color[z] = IF z = o THEN "black" ELSE t2.color[z]
  BY <1>1, <1>3, <1>4, <1>6, PaintedShape
<1>8. /\ t3.root = t.root /\ t3.parent = t.parent /\ (\A e \in Sides : t3[e] = t[e])
      /\ \A z \in Cells : t3.color[z] = IF z = p \/ z = o THEN "black"
                                        ELSE IF z = w THEN col ELSE t.color[z]
  BY <1>5, <1>6, <1>7
<1>9. /\ w = t3[Other(d)][p] /\ g = t3[d][w]
      /\ Shape(t3, S, sub) /\ p \in S /\ w \in S /\ d \in Sides
  BY <1>1, <1>2, <1>7, <1>8
<1>10. /\ r.color = t3.color /\ r.root = IF p = t3.root THEN w ELSE t3.root
       /\ r[d][w] = p /\ r[Other(d)][w] = t3[Other(d)][w]
       /\ r[d][p] = t3[d][p] /\ r[Other(d)][p] = g
       /\ r.parent[p] = w /\ r.parent[w] = t3.parent[p]
       /\ g # Nil => r.parent[g] = p
       /\ \A x \in Cells : x # p /\ x # w /\ (x # g \/ g = Nil) => r.parent[x] = t3.parent[x]
  BY <1>9, Around, SMTT(40)
<1>11. /\ r.root = IF p = t.root THEN w ELSE t.root
       /\ r[d][w] = p /\ r[Other(d)][w] = o /\ r[d][p] = nd /\ r[Other(d)][p] = g
       /\ r.parent[p] = w /\ r.parent[w] = t.parent[p] /\ (g # Nil => r.parent[g] = p)
       /\ \A x \in Cells : x # p /\ x # w /\ (x # g \/ g = Nil) => r.parent[x] = t.parent[x]
       /\ \A z \in Cells : r.color[z] = IF z = p \/ z = o THEN "black"
                                        ELSE IF z = w THEN col ELSE t.color[z]
  BY <1>1, <1>8, <1>10
<1>12. PICK sub2 : Shape(r, S, sub2)
  <2>1. t3[Other(d)][p] # Nil
    BY <1>1, <1>8
  <2> QED
    BY <1>1, <1>7, <2>1, RotatedShape
<1>13. PICK h \in Nat \ {0}, c \in {0, 1} : h = bh[nd] /\ c = Weight(t, p)
  BY <1>1 DEF Weight
<1>14. bh[w] = h + 1 /\ bh[p] = h + 1 + c /\ bh[g] = h /\ bh[o] = h
  <2>1. Weight(t, w) = 1
    BY DEF Weight
  <2>2. bh[g] \in Nat /\ bh[o] \in Nat
    BY <1>1, <1>3
  <2>3. bh[w] = bh[g] + Weight(t, w) /\ bh[w] = bh[o] + Weight(t, w)
    BY <1>1, <1>2
  <2> QED
    BY <1>1, <1>13, <2>1, <2>2, <2>3
<1>15. PICK bh1 : bh1 = [bh EXCEPT ![o] = h + 1]
  OBVIOUS
<1>16. /\ bh1 \in [Cells -> Nat \ {0}] /\ bh1[o] = h + 1
       /\ \A z \in Cells : z # o => bh1[z] = bh[z]
  BY <1>1, <1>3, <1>15
<1>17. PICK bh2 : bh2 = [bh1 EXCEPT ![p] = h + 1, ![w] = h + 1 + c]
  OBVIOUS
<1>18. /\ bh2 \in [Cells -> Nat \ {0}] /\ bh2[p] = h + 1 /\ bh2[w] = h + 1 + c
       /\ \A z \in Cells : z # p /\ z # w => bh2[z] = bh1[z]
  <2>1. h + 1 \in Nat \ {0} /\ h + 1 + c \in Nat \ {0} /\ p \in Cells /\ w \in Cells
    BY <1>1
  <2> QED
    BY <1>1, <1>16, <1>17, <2>1
<1>19. bh2[nd] = h /\ bh2[g] = h /\ bh2[o] = h + 1 /\ bh2[Nil] = 1
  <2>1. bh2[nd] = h
    BY <1>1, <1>3, <1>13, <1>16, <1>18
  <2>2. bh2[g] = h
    BY <1>1, <1>3, <1>14, <1>16, <1>18
  <2>3. bh2[o] = h + 1 /\ bh2[Nil] = 1
    BY <1>1, <1>3, <1>16, <1>18
  <2> QED
    BY <2>1, <2>2, <2>3
<1>20. Weight(r, p) = 1 /\ Weight(r, w) = c
  BY <1>1, <1>3, <1>11, <1>13 DEF Weight
<1>21. Even(r, S \ {p, w}, bh2)
  <2>1. PICK X \in SUBSET (S \ {p, w}) : X = S \ {p, w}
    OBVIOUS
  <2>2. Even(t3, X, bh1)
    <3>1. ASSUME NEW x \in X, NEW e \in Sides
          PROVE  bh1[x] = bh1[t3[e][x]] + Weight(t3, x)
      <4>1. x \in S /\ x # p /\ x # w /\ x \in Cells
        BY <1>1, <2>1
      <4>2. t3[e][x] = t[e][x]
        BY <1>8
      <4>3. t[e][x] \in Cells /\ t[e][x] # o
        <5>1. t[e][x] \in S \cup {Nil}
          BY <4>1, Child
        <5>2. t[e][x] # Nil => t.parent[t[e][x]] = x
          BY <4>1 DEF Shape, Linked
        <5> QED
          BY <1>1, <1>3, <4>1, <5>1, <5>2
      <4>4. bh[x] = bh[t[e][x]] + Weight(t, x)
        BY <1>1, <4>1
      <4>5. bh1[t[e][x]] = bh[t[e][x]] /\ bh[t[e][x]] \in Nat
        BY <1>1, <1>16, <4>3
      <4>6. CASE x = o
        <5>1. Weight(t3, x) = 1 /\ Weight(t, x) = 0
          BY <1>8, <4>1, <4>6 DEF Weight
        <5>2. bh[x] = h /\ bh1[x] = h + 1
          BY <1>14, <1>16, <4>6
        <5> QED
          BY <4>2, <4>4, <4>5, <5>1, <5>2
      <4>7. CASE x # o
        <5>1. Weight(t3, x) = Weight(t, x)
          BY <1>8, <4>1, <4>7 DEF Weight
        <5>2. bh1[x] = bh[x]
          BY <1>16, <4>1, <4>7
        <5> QED
          BY <4>2, <4>4, <4>5, <5>1, <5>2
      <4> QED
        BY <4>6, <4>7
    <3> QED
      BY <3>1 DEF Even
  <2>3. SameBut(bh2, bh1, p, w) /\ bh2[w] = bh1[p]
    BY <1>1, <1>3, <1>14, <1>16, <1>18 DEF SameBut
  <2>4. Even(r, X, bh2)
    BY <1>9, <2>2, <2>3, TurnedEven
  <2> QED
    BY <2>1, <2>4
<1>22. ASSUME NEW x \in S, NEW e \in Sides
       PROVE  bh2[x] = bh2[r[e][x]] + Weight(r, x)
  <2>1. CASE x = p
    <3>1. r[e][p] \in {nd, g}
      BY <1>1, <1>11, TwoSides
    <3>2. bh2[r[e][p]] = h
      BY <1>19, <3>1
    <3> QED
      BY <1>18, <1>20, <2>1, <3>2
  <2>2. CASE x = w
    <3>1. r[e][w] \in {p, o}
      BY <1>1, <1>11, TwoSides
    <3>2. bh2[r[e][w]] = h + 1
      BY <1>18, <1>19, <3>1
    <3> QED
      BY <1>18, <1>20, <2>2, <3>2
  <2>3. CASE x # p /\ x # w
    BY <1>21, <2>3 DEF Even
  <2> QED
    BY <2>1, <2>2, <2>3
<1>23. PlainHeights(r, S, bh2)
  BY <1>18, <1>19, <1>22 DEF PlainHeights
<1>24. r.root \in S /\ r.color[Nil] = "black"
  BY <1>1, <1>3, <1>11
<1>25. PICK del : del = TRUE
  OBVIOUS
<1>26. Heights(r, S, bh2, r.root, del)
  BY <1>12, <1>23, <1>24, RootOwed
<1>27. ASSUME NEW k \in S, RedPair(r, k)
       PROVE  FALSE
  <2>1. k # r.root /\ r.color[k] = "red" /\ r.color[r.parent[k]] = "red"
    BY <1>27 DEF RedPair
  <2>2. k # p /\ k # o
    BY <1>1, <1>3, <1>11, <2>1
  <2>3. k # g
    <3>1. k = g => r.parent[k] = p
      BY <1>1, <1>11
    <3> QED
      BY <1>1, <1>11, <2>1, <3>1
  <2>4. k # t.root
    BY <1>1, <1>11, <2>1, <2>2
  <2>5. t.parent[k] \in S
    BY <2>4 DEF Shape, Linked
  <2>6. CASE k = w
    <3>1. p # t.root /\ col = "red"
      BY <1>1, <1>3, <1>11, <2>1, <2>6
    <3>2. t.parent[p] \in S /\ t.parent[p] # p
      BY <1>1, <3>1, Under
    <3>3. t.parent[p] # w
      <4> SUFFICES ASSUME t.parent[p] = w PROVE FALSE
        OBVIOUS
      <4>1. PICK e \in Sides : t[e][w] = p
        BY <1>1, <3>1 DEF Shape, Linked
      <4> QED
        BY <1>1, <4>1, Grandchild
    <3>4. t.color[t.parent[p]] = "red"
      <4>1. r.color[t.parent[p]] = "red"
        BY <1>11, <2>1, <2>6
      <4> QED
        BY <1>1, <1>3, <1>11, <3>2, <3>3, <4>1
    <3>5. RedPair(t, p)
      BY <3>1, <3>4 DEF RedPair
    <3>6. nd \in {p, t.parent[p]}
      BY <1>1, <3>5
    <3> QED
      BY <1>1, <3>4, <3>6
  <2>7. CASE k # w
    <3>1. r.parent[k] = t.parent[k] /\ t.color[k] = "red"
      BY <1>1, <1>11, <2>1, <2>2, <2>3, <2>7
    <3>2. t.parent[k] # w
      <4> SUFFICES ASSUME t.parent[k] = w PROVE FALSE
        OBVIOUS
      <4>1. PICK e \in Sides : t[e][w] = k
        BY <2>4 DEF Shape, Linked
      <4>2. k = g \/ k = o
        BY <1>1, <1>2, <4>1, TwoSides
      <4> QED
        BY <2>2, <2>3, <4>2
    <3>3. t.color[t.parent[k]] = "red"
      BY <1>1, <1>11, <2>1, <2>5, <3>1, <3>2
    <3>4. RedPair(t, k)
      BY <2>4, <3>1, <3>3 DEF RedPair
    <3>5. nd \in {k, t.parent[k]}
      BY <1>1, <3>4
    <3> QED
      BY <3>1, <3>3, <3>5
  <2> QED
    BY <2>6, <2>7
<1>28. Deleting(r, S, bh2, r.root)
  BY <1>24, <1>25, <1>26, <1>27 DEF Deleting
<1> QED
  BY <1>12, <1>28

LEMMA DeleteRotateKeeps ==
  ASSUME NEW sub, Shape(tree, keys, sub), NEW bh, Deleting(tree, keys, bh, node), DeleteRotate
  PROVE  \E sub2, bh2 : Shape(tree', keys, sub2) /\ Deleting(tree', keys, bh2, node')
<1>1. PICK p, d, v, t :
        /\ p = tree.parent[node] /\ d = SideOf(tree, node) /\ v = tree[Other(d)][p]
        /\ t = IF tree.color[tree[Other(d)][v]] = "black"
               THEN Rotate(Paint(Paint(tree, tree[d][v], "black"), v, "red"), Other(d), v)
               ELSE tree
  OBVIOUS
<1>2. PICK w, t1, t2, t3 :
        /\ w = Sibling(t, node) /\ t1 = Paint(t, w, t.color[p]) /\ t2 = Paint(t1, p, "black")
        /\ t3 = Paint(t2, t[Other(d)][w], "black")
  OBVIOUS
<1>3. /\ node # tree.root /\ tree.color[node] = "black" /\ tree.color[v] = "black"
      /\ tree.color[tree.left[v]] = "red" \/ tree.color[tree.right[v]] = "red"
      /\ Owing(tree, keys, bh, node, p, d, v)
  BY <1>1, Zenon DEF DeleteRotate, Fixing, Black, Red, Sibling, Owing
<1>4. tree' = Rotate(t3, d, p) /\ node' = tree'.root
  BY <1>1, <1>2, ZenonT(40) DEF DeleteRotate, Black, Sibling
<1>5. /\ d \in Sides /\ Other(d) \in Sides /\ Nil \in Cells /\ v \in keys /\ keys \subseteq Cells
      /\ node \in Cells /\ v # node /\ p \in keys
  BY <1>3, OwingFacts
<1>6. PICK sub1, bh1 : /\ Shape(t, keys, sub1) /\ Owing(t, keys, bh1, node, p, d, w)
                       /\ t.color[node] = "black" /\ t.color[w] = "black"
                       /\ t.color[t[Other(d)][w]] = "red"
  <2>1. ASSUME NEW bh1, NEW c, Owing(t, keys, bh1, node, p, d, c)
        PROVE  w = c
    BY <1>2, <2>1 DEF Owing, Sibling
  <2>2. CASE tree.color[tree[Other(d)][v]] = "black"
    <3>1. PICK g, u1, u2 : /\ g = tree[d][v] /\ u1 = Paint(tree, g, "black")
                           /\ u2 = Paint(u1, v, "red")
      OBVIOUS
    <3>2. Paints(u1, tree, g, "black") /\ Paints(u2, u1, v, "red") /\ Rotates(t, u2, Other(d), v)
      BY <1>1, <2>2, <3>1, Zenon DEF Paints, Rotates
    <3>3. tree.color[g] = "red"
      <4>1. tree["left"] = tree.left /\ tree["right"] = tree.right
        BY Fields DEF Shape, Linked
      <4>2. \/ d = "left" /\ Other(d) = "right"
            \/ d = "right" /\ Other(d) = "left"
        <5>1. d = "left" \/ d = "right"
          BY <1>5 DEF Sides
        <5> QED
          BY <5>1 DEF Other
      <4> QED
        BY <1>3, <2>2, <3>1, <4>1, <4>2
    <3>4. PICK sub2, bh2 : /\ Shape(t, keys, sub2) /\ Owing(t, keys, bh2, node, p, d, g)
                           /\ t[Other(d)][g] = v
                           /\ \A z \in Cells : t.color[z] = IF z = v THEN "red"
                                               ELSE IF z = g THEN "black" ELSE tree.color[z]
      <4>1. g = tree[d][v]
        BY <3>1
      <4>2. Owing(tree, keys, bh, node, p, d, v)
        BY <1>3
      <4>3. InnerRed(tree, d, v, g)
        BY <1>3, <2>2, <3>3, <4>1 DEF InnerRed
      <4> QED
        BY <3>2, <4>2, <4>3, InnerTurned
    <3>5. w = g
      BY <2>1, <3>4
    <3>6. g \in keys /\ g # v
      <4>1. g \in keys \cup {Nil} /\ g # v
        BY <1>5, <3>1, Child
      <4>2. g \in keys
        BY <3>4, OwingFacts
      <4> QED
        BY <4>1, <4>2
    <3> QED
      BY <1>3, <1>5, <3>4, <3>5, <3>6
  <2>3. CASE tree.color[tree[Other(d)][v]] # "black"
    <3>1. t = tree /\ w = v
      BY <1>1, <1>3, <2>1, <2>3
    <3>2. tree.color[tree[Other(d)][v]] = "red"
      <4>1. tree[Other(d)][v] \in keys \cup {Nil}
        BY <1>5, Child
      <4> QED
        BY <1>5, <2>3, <4>1, Fields DEF Shape, Linked, Colors
    <3> QED
      BY <1>3, <3>1, <3>2
  <2> QED
    BY <2>2, <2>3
<1>7. PICK o, col : o = t[Other(d)][w] /\ col = t.color[p]
  OBVIOUS
<1>8. /\ Paints(t1, t, w, col) /\ Paints(t2, t1, p, "black") /\ Paints(t3, t2, o, "black")
      /\ Rotates(tree', t3, d, p)
  BY <1>2, <1>4, <1>7 DEF Paints, Rotates
<1>9. \E sub2, bh2 : Shape(tree', keys, sub2) /\ Deleting(tree', keys, bh2, tree'.root)
  BY <1>6, <1>7, <1>8, OuterSiblingTurned
<1> QED
  BY <1>4, <1>9

-----------------------------------------------------------------------------
(* The inductive invariant *)

(* The keys below each node, and the black nodes from each node down, exist;
   and the loop that runs owes no more than the colors say. *)
Formed ==
  \E sub, bh :
    /\ Shape(tree, keys, sub)
    /\ pc = "idle" => Settled(tree, keys, bh)
    /\ pc \in {"insert", "lost"} => Inserting(tree, keys, bh, node)
    /\ pc = "delete" => Deleting(tree, keys, bh, node)

Counted ==
  /\ pc \in {"idle", "insert", "delete", "lost"} /\ node \in Cells
  /\ size = Cardinality(keys) - (IF pc \in {"insert", "lost"} THEN 1 ELSE 0)

Inv == Formed /\ Counted

LEMMA Begin == Init => Inv
<1> SUFFICES ASSUME Init PROVE Inv
  OBVIOUS
<1>1. PICK t : /\ t = tree
               /\ t = [root   |-> Nil,
                       parent |-> [c \in Cells |-> NULL],
                       left   |-> [c \in Cells |-> NULL],
                       right  |-> [c \in Cells |-> NULL],
                       color  |-> [c \in Cells |-> "black"]]
  BY DEF Init
<1>2. size = 0 /\ keys = {} /\ node = Nil /\ pc = "idle"
  BY DEF Init
<1>3. PICK sub, bh : /\ sub = [c \in Cells |-> {}] /\ bh = [c \in Cells |-> 1]
                     /\ bh \in [Cells -> Nat \ {0}]
  <2>1. [c \in Cells |-> 1] \in [Cells -> Nat \ {0}]
    OBVIOUS
  <2> QED
    BY <2>1
<1>4. t \in Trees
  <2>1. [c \in Cells |-> NULL] \in [Cells -> Pointers]
    BY CellFacts
  <2>2. [c \in Cells |-> "black"] \in [Cells -> Colors]
    BY DEF Colors
  <2> QED
    BY <1>1, <2>1, <2>2, CellFacts DEF Trees
<1>5. /\ t.root = Nil /\ \A d \in Sides : \A x \in Cells : t[d][x] = NULL
  BY <1>1 DEF Sides
<1>6. Linked(t, {})
  BY <1>4, <1>5 DEF Linked
<1>7. Spans(t, {}, sub)
  BY <1>3, <1>5, CellFacts DEF Spans
<1>8. Shape(t, {}, sub)
  BY <1>6, <1>7 DEF Shape
<1>9. PlainHeights(t, {}, bh)
  BY <1>3, CellFacts DEF PlainHeights
<1>10. Heights(t, {}, bh, Nil, FALSE)
  BY <1>8, <1>9, NothingOwed
<1>11. t.color[Nil] = "black" /\ t.color[t.root] = "black"
  BY <1>1, <1>5, CellFacts
<1>12. Settled(t, {}, bh)
  BY <1>10, <1>11 DEF Settled
<1>13. Formed
  BY <1>1, <1>2, <1>8, <1>12 DEF Formed
<1>14. Counted
  BY <1>2, CellFacts, FS_EmptySet DEF Counted
<1> QED
  BY <1>13, <1>14 DEF Inv

LEMMA InsertKeeps ==
  ASSUME NEW sub, Shape(tree, keys, sub), NEW bh, Settled(tree, keys, bh),
         NEW k \in Keys, Insert(k)
  PROVE  \E sub2, bh2 : Shape(tree', keys', sub2) /\ Inserting(tree', keys', bh2, node')
<1>1. k \notin keys /\ keys' = keys \cup {k} /\ node' = k /\ Links(tree', tree, k)
  BY DEF Insert, Links
<1>2. CASE tree.root = Nil
  <2>1. \E sub2, bh2 : /\ Shape(tree', keys \cup {k}, sub2)
                       /\ Inserting(tree', keys \cup {k}, bh2, k)
    BY <1>1, <1>2, FirstKeeps
  <2> QED
    BY <1>1, <2>1
<1>3. CASE tree.root # Nil
  <2>1. \E sub2, bh2 : /\ Shape(tree', keys \cup {k}, sub2)
                       /\ Inserting(tree', keys \cup {k}, bh2, k)
    BY <1>1, <1>3, LeafKeeps
  <2> QED
    BY <1>1, <2>1
<1> QED
  BY <1>2, <1>3

LEMMA Step == Inv /\ [Next]_vars => Inv'
<1> SUFFICES ASSUME Inv, [Next]_vars PROVE Inv'
  OBVIOUS
<1>1. PICK sub, bh :
        /\ Shape(tree, keys, sub)
        /\ pc = "idle" => Settled(tree, keys, bh)
        /\ pc \in {"insert", "lost"} => Inserting(tree, keys, bh, node)
        /\ pc = "delete" => Deleting(tree, keys, bh, node)
  BY DEF Inv, Formed
<1>2. /\ pc \in {"idle", "insert", "delete", "lost"} /\ node \in Cells
      /\ size = Cardinality(keys) - (IF pc \in {"insert", "lost"} THEN 1 ELSE 0)
  BY DEF Inv, Counted
<1>3. IsFiniteSet(keys) /\ Cardinality(keys) \in Nat /\ keys \subseteq Cells
  BY <1>1, FiniteKeys, CellFacts DEF Shape, Linked
<1>4. ASSUME NEW k \in Keys, Insert(k)
      PROVE  Inv'
  <2>1. /\ pc = "idle" /\ k \notin keys /\ keys' = keys \cup {k} /\ pc' = "insert"
        /\ node' = k /\ size' = size
    BY <1>4 DEF Insert
  <2>2. \E sub2, bh2 : Shape(tree', keys', sub2) /\ Inserting(tree', keys', bh2, node')
    BY <1>1, <1>4, <2>1, InsertKeeps
  <2>3. Cardinality(keys') = Cardinality(keys) + 1
    BY <1>3, <2>1, FS_AddElement
  <2>4. Formed'
    BY <2>1, <2>2 DEF Formed
  <2>5. Counted'
    BY <1>2, <1>3, <2>1, <2>3, CellFacts DEF Counted
  <2> QED
    BY <2>4, <2>5 DEF Inv
<1>5. ASSUME NEW k \in Keys, Delete(k)
      PROVE  Inv'
  <2>1. /\ pc = "idle" /\ k \in keys /\ keys' = keys \ {k} /\ pc' \in {"idle", "delete"}
        /\ size' = size - 1
    BY <1>5 DEF Delete
  <2>2. PICK sub2, bh2 : /\ Shape(tree', keys', sub2)
                         /\ IF pc' = "delete" THEN Deleting(tree', keys', bh2, node')
                            ELSE Settled(tree', keys', bh2)
    BY <1>1, <1>5, <2>1, DeleteKeeps
  <2>3. Cardinality(keys') = Cardinality(keys) - 1
    BY <1>3, <2>1, FS_RemoveElement
  <2>4. Formed'
    BY <2>1, <2>2 DEF Formed
  <2>5. node' \in Cells
    <3>1. CASE pc' = "delete"
      <4>1. node' \in keys' \cup {Nil}
        BY <2>2, <3>1 DEF Deleting
      <4> QED
        BY <1>3, <2>1, <4>1, CellFacts
    <3>2. CASE pc' # "delete"
      BY <1>2, <1>5, <3>2 DEF Delete
    <3> QED
      BY <3>1, <3>2
  <2>6. Counted'
    BY <1>2, <1>3, <2>1, <2>3, <2>5 DEF Counted
  <2> QED
    BY <2>4, <2>6 DEF Inv
<1>6. ASSUME InsertRecolor \/ InsertRotate
      PROVE  Inv'
  <2>1. pc = "insert" /\ keys' = keys /\ pc' = pc /\ size' = size
    BY <1>6 DEF InsertRecolor, InsertRotate
  <2>2. Inserting(tree, keys, bh, node)
    BY <1>1, <2>1
  <2>3. PICK sub2, bh2 : Shape(tree', keys, sub2) /\ Inserting(tree', keys, bh2, node')
    BY <1>1, <1>6, <2>2, InsertRecolorKeeps, InsertRotateKeeps
  <2>4. Formed'
    BY <2>1, <2>3 DEF Formed
  <2>5. node' \in Cells
    BY <1>3, <2>3 DEF Inserting
  <2>6. Counted'
    BY <1>2, <2>1, <2>5 DEF Counted
  <2> QED
    BY <2>4, <2>6 DEF Inv
<1>7. CASE InsertDone
  <2>1. pc = "insert" /\ keys' = keys /\ pc' = "idle" /\ size' = size + 1 /\ node' = Nil
    BY <1>7 DEF InsertDone
  <2>2. Inserting(tree, keys, bh, node)
    BY <1>1, <2>1
  <2>3. PICK sub2, bh2 : Shape(tree', keys, sub2) /\ Settled(tree', keys, bh2)
    BY <1>1, <1>7, <2>2, InsertDoneKeeps
  <2>4. Formed'
    BY <2>1, <2>3 DEF Formed
  <2>5. Counted'
    BY <1>2, <1>3, <2>1, CellFacts DEF Counted
  <2> QED
    BY <2>4, <2>5 DEF Inv
<1>8. CASE InsertLost
  <2>1. /\ pc = "insert" /\ pc' = "lost" /\ tree' = tree /\ keys' = keys /\ node' = node
        /\ size' = size
    BY <1>8 DEF InsertLost
  <2>2. Formed'
    BY <1>1, <2>1 DEF Formed
  <2>3. Counted'
    BY <1>2, <2>1 DEF Counted
  <2> QED
    BY <2>2, <2>3 DEF Inv
<1>9. ASSUME DeleteRedSibling \/ DeleteRecolor \/ DeleteRotate
      PROVE  Inv'
  <2>1. pc = "delete" /\ keys' = keys /\ pc' = pc /\ size' = size
    BY <1>9 DEF DeleteRedSibling, DeleteRecolor, DeleteRotate, Fixing
  <2>2. Deleting(tree, keys, bh, node)
    BY <1>1, <2>1
  <2>3. PICK sub2, bh2 : Shape(tree', keys, sub2) /\ Deleting(tree', keys, bh2, node')
    BY <1>1, <1>9, <2>2, DeleteRedSiblingKeeps, DeleteRecolorKeeps, DeleteRotateKeeps
  <2>4. Formed'
    BY <2>1, <2>3 DEF Formed
  <2>5. node' \in Cells
    BY <1>3, <2>3, CellFacts DEF Deleting
  <2>6. Counted'
    BY <1>2, <2>1, <2>5 DEF Counted
  <2> QED
    BY <2>4, <2>6 DEF Inv
<1>10. CASE DeleteDone
  <2>1. pc = "delete" /\ keys' = keys /\ pc' = "idle" /\ size' = size /\ node' = Nil
    BY <1>10 DEF DeleteDone
  <2>2. Deleting(tree, keys, bh, node)
    BY <1>1, <2>1
  <2>3. PICK sub2, bh2 : Shape(tree', keys, sub2) /\ Settled(tree', keys, bh2)
    BY <1>1, <1>10, <2>2, DeleteDoneKeeps
  <2>4. Formed'
    BY <2>1, <2>3 DEF Formed
  <2>5. Counted'
    BY <1>2, <2>1, CellFacts DEF Counted
  <2> QED
    BY <2>4, <2>5 DEF Inv
<1>11. CASE UNCHANGED vars
  BY <1>11 DEF vars, Inv, Formed, Counted
<1> QED
  BY <1>4, <1>5, <1>6, <1>7, <1>8, <1>9, <1>10, <1>11 DEF Next

LEMMA Invariance == Spec => []Inv
<1> QED
  BY Begin, Step, PTL DEF Spec

-----------------------------------------------------------------------------
(* Theorems *)

LEMMA Typed == Inv => TypeOK
<1> SUFFICES ASSUME Inv PROVE TypeOK
  OBVIOUS
<1>1. PICK sub, bh :
        /\ Shape(tree, keys, sub)
        /\ pc \in {"insert", "lost"} => Inserting(tree, keys, bh, node)
  BY DEF Inv, Formed
<1>2. tree \in Trees /\ keys \subseteq Keys
  BY <1>1 DEF Shape, Linked
<1>3. ASSUME NEW k \in keys
      PROVE  {tree.left[k], tree.right[k]} \subseteq Cells
  <2>1. tree["left"][k] \in keys \cup {Nil} /\ tree["right"][k] \in keys \cup {Nil}
    BY <1>1 DEF Shape, Linked, Sides
  <2> QED
    BY <1>2, <2>1, Fields, CellFacts
<1>4. size \in 0..K
  <2>1. IsFiniteSet(keys) /\ Cardinality(keys) \in Nat /\ Cardinality(keys) <= K
    BY <1>2, FiniteKeys
  <2>2. pc \in {"insert", "lost"} => Cardinality(keys) # 0
    <3>1. pc \in {"insert", "lost"} => node \in keys
      BY <1>1 DEF Inserting
    <3> QED
      BY <2>1, <3>1, FS_EmptySet
  <2>3. size = Cardinality(keys) - (IF pc \in {"insert", "lost"} THEN 1 ELSE 0)
    BY DEF Inv, Counted
  <2> QED
    BY <2>1, <2>2, <2>3, ConstantsAssumption
<1> QED
  BY <1>2, <1>3, <1>4 DEF TypeOK, Trees, Colors, Inv, Counted

(* The pointers of a node in the tree are never those of rbt_clear_node, in the
   middle of an operation either, and the size counts within its bounds. *)
THEOREM TypeCorrect == Spec => []TypeOK
<1> QED
  BY Invariance, Typed, PTL

LEMMA KeptInOrder == Inv => WellFormed
<1> SUFFICES ASSUME Inv PROVE WellFormed
  OBVIOUS
<1>1. PICK sub : Shape(tree, keys, sub)
  BY DEF Inv, Formed
<1>2. InOrder \in Seq(Int) /\ ToSet(InOrder) = keys /\ Sorted(InOrder)
  BY <1>1, InOrderIs
<1>3. ASSUME NEW i \in 1..(Len(InOrder) - 1)
      PROVE  InOrder[i] < InOrder[i + 1]
  <2>1. Len(InOrder) \in Nat
    BY <1>2
  <2>2. i \in 1..Len(InOrder) /\ i + 1 \in 1..Len(InOrder) /\ i < i + 1
    BY <2>1
  <2> QED
    BY <1>2, <2>2 DEF Sorted
<1>4. ASSUME NEW k \in keys, NEW c \in {tree.left[k], tree.right[k]} \ {Nil}
      PROVE  tree.parent[c] = k
  <2>1. tree["left"] = tree.left /\ tree["right"] = tree.right
    BY <1>1, Fields DEF Shape, Linked
  <2>2. PICK d \in Sides : tree[d][k] = c
    BY <2>1 DEF Sides
  <2> QED
    BY <1>1, <2>2 DEF Shape, Linked
<1> QED
  BY <1>2, <1>3, <1>4 DEF WellFormed, Inv, Counted

(* At every step of an insertion or a deletion the tree holds the keys inserted
   and not deleted since, each once and in order, and children point back. *)
THEOREM KeysInOrder == Spec => []WellFormed
<1> QED
  BY Invariance, KeptInOrder, PTL

LEMMA KeptBalanced == Inv => Balanced
<1> SUFFICES ASSUME Inv PROVE Balanced
  OBVIOUS
<1>1. PICK sub, bh :
        /\ Shape(tree, keys, sub)
        /\ pc = "idle" => Settled(tree, keys, bh)
        /\ pc \in {"insert", "lost"} => Inserting(tree, keys, bh, node)
        /\ pc = "delete" => Deleting(tree, keys, bh, node)
  BY DEF Inv, Formed
<1>2. pc \in {"idle", "insert", "delete", "lost"}
  BY DEF Inv, Counted
<1>3. BlackHeight # -1
  <2>1. PICK nd, del : /\ Heights(tree, keys, bh, nd, del)
                       /\ IF pc = "delete" THEN del = TRUE /\ nd = node ELSE del = FALSE
    <3>1. CASE pc = "delete"
      <4>1. Heights(tree, keys, bh, node, TRUE)
        BY <1>1, <3>1 DEF Deleting
      <4> QED
        BY <3>1, <4>1
    <3>2. CASE pc # "delete"
      <4>1. Heights(tree, keys, bh, Nil, FALSE)
        BY <1>1, <1>2, <3>2 DEF Settled, Inserting
      <4> QED
        BY <3>2, <4>1
    <3> QED
      BY <3>1, <3>2
  <2> QED
    BY <1>1, <2>1, BlackHeightIs
<1>4. Black(tree, Nil)
  BY <1>1, <1>2 DEF Black, Settled, Inserting, Deleting
<1>5. Red(tree, tree.root) => pc # "idle" /\ tree.root = node
  BY <1>1, <1>2 DEF Red, Settled, Inserting, Deleting
<1>6. ASSUME NEW k \in keys, Red(tree, k), Red(tree, tree.parent[k]), k # tree.root
      PROVE  \/ pc \in {"insert", "lost"} /\ node = k
             \/ pc = "delete" /\ node \in {k, tree.parent[k]}
  <2>1. RedPair(tree, k)
    BY <1>6 DEF RedPair, Red
  <2>2. pc # "idle"
    BY <1>1, <2>1 DEF Settled
  <2>3. pc \in {"insert", "lost"} => node = k
    BY <1>1, <2>1 DEF Inserting
  <2>4. pc = "delete" => node \in {k, tree.parent[k]}
    BY <1>1, <2>1 DEF Deleting
  <2> QED
    BY <1>2, <2>2, <2>3, <2>4
<1> QED
  BY <1>3, <1>4, <1>5, <1>6 DEF Balanced

(* The loops that fix the tree up lose no black node on any way and make no two
   red nodes meet but at the current node; without a loop the tree is red-black. *)
THEOREM RedBlack == Spec => []Balanced
<1> QED
  BY Invariance, KeptBalanced, PTL

LEMMA MinIs ==
  ASSUME NEW M \in SUBSET Int, NEW m, IsLeast(m, M)
  PROVE  Min(M) = m
<1>1. m \in M /\ \A y \in M : m <= y
  BY DEF IsLeast
<1>2. \A x \in M : (\A y \in M : x <= y) => x = m
  BY <1>1
<1>3. Min(M) \in M /\ \A y \in M : Min(M) <= y
  BY <1>1 DEF Min
<1> QED
  BY <1>2, <1>3

LEMMA Found == Inv => SearchesSucceed
<1> SUFFICES ASSUME Inv, pc = "idle", keys # {}, NEW k \in Keys
             PROVE  LET First(S) == IF S # {} THEN Min(S) ELSE Min(keys) IN
                    /\ EqKey(tree, k) = (IF k \in keys THEN k ELSE NULL)
                    /\ GtKey(tree, k)  = First({x \in keys : x > k})
                    /\ GeqKey(tree, k) = First({x \in keys : x >= k})
  BY DEF SearchesSucceed
<1>1. PICK sub : Shape(tree, keys, sub)
  BY DEF Inv, Formed
<1>2. keys \subseteq Keys /\ Keys \subseteq Int
  BY <1>1, CellFacts DEF Shape, Linked
<1>3. EqKey(tree, k) = (IF k \in keys THEN k ELSE NULL)
  <2>1. PICK s : s = Path(tree, Above(k))
    OBVIOUS
  <2>2. k \in ToSet(s) <=> k \in keys
    BY <1>1, <2>1, PathIs
  <2> QED
    BY <2>1, <2>2 DEF EqKey
<1>4. ASSUME NEW lefts, Upward(lefts)
      PROVE  LastLeft(tree, lefts) = IF keys \cap lefts # {} THEN Min(keys \cap lefts)
                                     ELSE Min(keys)
  <2>1. /\ keys \cap lefts # {} => IsLeast(LastLeft(tree, lefts), keys \cap lefts)
        /\ keys \cap lefts = {} => IsLeast(LastLeft(tree, lefts), keys)
    BY <1>1, <1>4, LastLeftIs
  <2>2. keys \cap lefts \in SUBSET Int /\ keys \in SUBSET Int
    BY <1>2
  <2> QED
    BY <2>1, <2>2, MinIs
<1>5. Upward(Above(k)) /\ Upward(AtOrAbove(k))
  BY <1>2 DEF Upward, Above, AtOrAbove
<1>6. keys \cap Above(k) = {x \in keys : x > k} /\ keys \cap AtOrAbove(k) = {x \in keys : x >= k}
  BY <1>2 DEF Above, AtOrAbove
<1>7. GtKey(tree, k) = IF {x \in keys : x > k} # {} THEN Min({x \in keys : x > k}) ELSE Min(keys)
  BY <1>4, <1>5, <1>6 DEF GtKey
<1>8. GeqKey(tree, k) = IF {x \in keys : x >= k} # {} THEN Min({x \in keys : x >= k})
                        ELSE Min(keys)
  BY <1>4, <1>5, <1>6 DEF GeqKey
<1> QED
  BY <1>3, <1>7, <1>8

(* Between two operations every search gives the key that it should. *)
THEOREM SearchesFind == Spec => []SearchesSucceed
<1> QED
  BY Invariance, Found, PTL
=============================================================================
