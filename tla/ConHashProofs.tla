---------------------------- MODULE ConHashProofs ----------------------------
(***************************************************************************)
(* Proofs about ConHash: the ring of the configuration server is what the  *)
(* list of its nodes says it is, however the points of their replicas      *)
(* collide.                                                                *)
(***************************************************************************)
EXTENDS ConHash, FiniteSetTheorems, FunctionTheorems, WellFoundedInduction, TLAPS

(* The points that have a virtual node. *)
Taken == {p \in Points : vnode[p] # None}

(* The types, but for the bound of the count, which follows from it. *)
Typed ==
  /\ hash \in [Nodes -> Placements]
  /\ state \in [Nodes -> {"init", "idle", "run"}]
  /\ vnode \in [Points -> Nodes \cup {None}]

(* The parts of RingExact: the count, and the owners. *)
CountExact == ivnodes = Cardinality(Taken)

OwnersListed == \A p \in Points : vnode[p] # None => InList(vnode[p]) /\ p \in hash[vnode[p]]

Ring == Typed /\ CountExact /\ OwnersListed

-----------------------------------------------------------------------------
(* The ring has H points, so no more than H virtual nodes. *)
LEMMA PointsFinite ==
  ASSUME NEW ps \in SUBSET Points
  PROVE  IsFiniteSet(ps) /\ Cardinality(ps) \in 0..H
<1>1. 0 \in Int /\ H - 1 \in Int /\ 0 <= H - 1 /\ H \in Nat
  BY ConstantsAssumption
<1>2. IsFiniteSet(Points) /\ Cardinality(Points) = H
  BY <1>1, FS_Interval DEF Points
<1>3. IsFiniteSet(ps) /\ Cardinality(ps) <= H /\ Cardinality(ps) \in Nat
  BY <1>2, FS_Subset, FS_CardinalityType
<1> QED
  BY <1>1, <1>3

(* A node that joins takes the points nobody has, and is counted for each of
   them once. *)
LEMMA AddRing ==
  ASSUME Ring, NEW n \in Nodes, NEW ps \in Placements, AddNode(n, ps)
  PROVE  Ring'
<1> USE ConstantsAssumption DEF Ring, Typed, InList
<1>1. PICK got \in SUBSET ps :
        /\ vnode' = [p \in Points |-> IF p \in NewPoints(got) THEN n ELSE vnode[p]]
        /\ ivnodes' = ivnodes + Cardinality(NewPoints(got))
  BY DEF AddNode
<1>2. PICK new : new = NewPoints(got)
  OBVIOUS
<1>3. /\ ps \in SUBSET Points /\ new \in SUBSET Points /\ new \subseteq ps
      /\ \A p \in new : vnode[p] = None
      /\ \A p \in Points : vnode'[p] = IF p \in new THEN n ELSE vnode[p]
  BY <1>1, <1>2 DEF NewPoints, Placements
<1>4. Taken' = Taken \cup new /\ Taken \cap new = {} /\ Taken \in SUBSET Points
  BY <1>3 DEF Taken
<1>5. Typed'
  BY <1>1, <1>3 DEF AddNode
<1>6. CountExact'
  <2>1. Cardinality(Taken') = Cardinality(Taken) + Cardinality(new) - Cardinality({})
    BY <1>3, <1>4, PointsFinite, FS_Union
  <2>2. Cardinality({}) = 0 /\ Cardinality(Taken) \in Nat /\ Cardinality(new) \in Nat
    BY <1>3, <1>4, PointsFinite, FS_EmptySet, FS_CardinalityType
  <2> QED
    BY <1>1, <1>2, <2>1, <2>2 DEF CountExact
<1>7. OwnersListed'
  <2> SUFFICES ASSUME NEW p \in Points, vnode'[p] # None
               PROVE  state'[vnode'[p]] # "init" /\ p \in hash'[vnode'[p]]
    BY DEF OwnersListed
  <2>1. CASE p \in new
    BY <1>3, <2>1 DEF AddNode
  <2>2. CASE p \notin new
    <3>1. /\ vnode'[p] = vnode[p] /\ vnode[p] \in Nodes
          /\ state[vnode[p]] # "init" /\ p \in hash[vnode[p]]
      BY <1>3, <2>2 DEF OwnersListed
    <3>2. vnode[p] # n
      BY <3>1 DEF AddNode
    <3> QED
      BY <3>1, <3>2 DEF AddNode
  <2> QED
    BY <2>1, <2>2
<1> QED
  BY <1>5, <1>6, <1>7

(* A node that leaves takes away what it owns: every virtual node of it is at a
   point its name hashes to. *)
LEMMA DelRing ==
  ASSUME Ring, NEW n \in Nodes, DelNode(n)
  PROVE  Ring'
<1> USE ConstantsAssumption DEF Ring, Typed, InList
<1>1. PICK own : own = OwnPoints(n)
  OBVIOUS
<1>2. /\ vnode' = [p \in Points |-> IF p \in own THEN None ELSE vnode[p]]
      /\ ivnodes' = ivnodes - Cardinality(own)
      /\ state' = [state EXCEPT ![n] = "init"] /\ hash' = [hash EXCEPT ![n] = {}]
  BY <1>1 DEF DelNode
<1>3. /\ own \in SUBSET Points
      /\ \A p \in Points : p \in own <=> vnode[p] = n
  BY <1>1 DEF OwnPoints, OwnersListed, Placements
<1>4. Taken' = Taken \ own /\ own \subseteq Taken /\ Taken \in SUBSET Points
  BY <1>2, <1>3 DEF Taken
<1>5. Typed'
  <2>1. {} \in Placements
    BY FS_EmptySet DEF Placements
  <2> QED
    BY <1>2, <2>1
<1>6. CountExact'
  <2>1. Cardinality(Taken') = Cardinality(Taken) - Cardinality(Taken \cap own)
    BY <1>3, <1>4, PointsFinite, FS_Difference
  <2>2. Taken \cap own = own
    BY <1>4
  <2> QED
    BY <1>2, <2>1, <2>2 DEF CountExact
<1>7. OwnersListed'
  BY <1>2, <1>3 DEF OwnersListed
<1> QED
  BY <1>5, <1>6, <1>7

(* The ring is exact from the start and stays so. *)
LEMMA StepRing == Ring /\ [Next]_vars => Ring'
<1> SUFFICES ASSUME Ring, [Next]_vars PROVE Ring'
  OBVIOUS
<1>1. CASE Reset
  BY <1>1 DEF Reset, Ring, Typed, CountExact, OwnersListed, Taken, InList
<1>2. CASE UNCHANGED vars
  BY <1>2 DEF vars, Ring, Typed, CountExact, OwnersListed, Taken, InList
<1> QED
  BY <1>1, <1>2, AddRing, DelRing DEF Next

(* The empty ring is exact. *)
LEMMA InitRing == Init => Ring
<1> SUFFICES ASSUME Init PROVE Ring
  OBVIOUS
<1>1. Taken = {} /\ Cardinality({}) = 0 /\ {} \in Placements
  BY FS_EmptySet, ConstantsAssumption DEF Init, Taken, Placements
<1> QED
  BY <1>1 DEF Init, Ring, Typed, CountExact, OwnersListed

(* The inductive invariant, for any nodes, ring and placements. *)
THEOREM RingInv == Spec => []Ring
<1> QED
  BY InitRing, StepRing, PTL DEF Spec

(* TypeOK of the run: the nodes and the points keep their types, and the count
   of virtual nodes its bound. *)
THEOREM TypeCorrect == Spec => []TypeOK
<1>1. Ring => TypeOK
  BY PointsFinite DEF Ring, Typed, CountExact, TypeOK, Taken
<1> QED
  BY <1>1, RingInv, PTL

(* What the run checks as RingExact: ivnodes counts the virtual nodes, and each
   of them belongs to a replica of a node of the list, so deleting a node leaves
   no pointer to what it frees, for any number of servers and replicas and any
   collisions of their points. *)
THEOREM RingCorrect == Spec => []RingExact
<1>1. Ring => RingExact
  BY ConstantsAssumption
    DEF Ring, Typed, CountExact, OwnersListed, RingExact, Owned, Taken, InList
<1> QED
  BY <1>1, RingInv, PTL

-----------------------------------------------------------------------------
(* There is a first one among any numbers. *)
LEMMA FirstNumber ==
  ASSUME NEW S \in SUBSET Nat, S # {}
  PROVE  \E x \in S : \A y \in S : x <= y
<1>1. PICK x \in S : \A y \in S : ~ (<<y, x>> \in OpToRel(<, Nat))
  BY NatLessThanWellFounded, WFMin
<1>2. \A y \in S : ~ (y < x)
  BY <1>1, Zenon DEF OpToRel
<1>3. x \in Nat /\ \A y \in S : y \in Nat
  OBVIOUS
<1>4. \A y \in S : x <= y
  BY <1>2, <1>3
<1> QED
  BY <1>4

(* Min gives it. *)
LEMMA MinIsFirst ==
  ASSUME NEW S \in SUBSET Nat, S # {}
  PROVE  Min(S) \in S /\ \A y \in S : Min(S) <= y
BY FirstNumber DEF Min

(* f is first at 0, and m steps of g from there. *)
Upto(f, m, first, g) ==
  f = [i \in 0..m |-> IF i = 0 THEN first ELSE g[<<f[i - 1], i>>]]

(* What is defined step by step from a first value exists: a function of the
   number of steps. *)
LEMMA StepsExist ==
  ASSUME NEW n \in Nat, NEW S, NEW first \in S, NEW g \in [S \X (1..n) -> S]
  PROVE  \E f \in [0..n -> S] : Upto(f, n, first, g)
<1> DEFINE T == {m \in 0..n : ~ \E f \in [0..m -> S] : Upto(f, m, first, g)}
<1>1. T = {}
  <2> SUFFICES ASSUME T # {} PROVE FALSE
    OBVIOUS
  <2>0. T \in SUBSET Nat
    OBVIOUS
  <2>1. PICK m \in T : \A k \in T : m <= k
    <3> HIDE DEF T
    <3> QED
      BY <2>0, FirstNumber
  <2>2. CASE m = 0
    <3>1. PICK f : f = [i \in 0..m |-> first]
      OBVIOUS
    <3>2. Upto(f, m, first, g) /\ f \in [0..m -> S]
      BY <2>2, <3>1 DEF Upto
    <3> QED
      BY <2>1, <3>2
  <2>3. CASE m # 0
    <3>1. m - 1 \in 0..n /\ m - 1 \notin T /\ m \in 1..n
      BY <2>1, <2>3
    <3>2. PICK f : Upto(f, m - 1, first, g) /\ f \in [0..(m - 1) -> S]
      BY <3>1
    <3>3. PICK v : v = g[<<f[m - 1], m>>]
      OBVIOUS
    <3>4. v \in S /\ f[0] = first /\ \A i \in 1..(m - 1) : f[i] = g[<<f[i - 1], i>>]
      BY <3>1, <3>2, <3>3 DEF Upto
    <3>5. PICK h : h = [i \in 0..m |-> IF i = m THEN v ELSE f[i]]
      OBVIOUS
    <3>6. h \in [0..m -> S] /\ \A i \in 0..(m - 1) : h[i] = f[i]
      BY <3>1, <3>2, <3>4, <3>5
    <3>7. \A i \in 0..m : h[i] = IF i = 0 THEN first ELSE g[<<h[i - 1], i>>]
      <4> SUFFICES ASSUME NEW i \in 0..m
                   PROVE  h[i] = IF i = 0 THEN first ELSE g[<<h[i - 1], i>>]
        OBVIOUS
      <4>1. CASE i = m
        <5>1. m - 1 \in 0..(m - 1) /\ h[m - 1] = f[m - 1] /\ h[m] = v
          BY <3>1, <3>5, <3>6
        <5> QED
          BY <2>3, <3>3, <4>1, <5>1
      <4>2. CASE i # m
        <5>1. i \in 0..(m - 1) /\ (i # 0 => i - 1 \in 0..(m - 1) /\ i \in 1..(m - 1))
          BY <3>1, <4>2
        <5> QED
          BY <3>4, <3>6, <5>1
      <4> QED
        BY <4>1, <4>2
    <3>8. Upto(h, m, first, g)
      BY <3>6, <3>7 DEF Upto
    <3> QED
      BY <2>1, <3>6, <3>8
  <2> QED
    BY <2>2, <2>3
<1>2. n \in 0..n /\ n \notin T
  BY <1>1
<1> QED
  BY <1>2

-----------------------------------------------------------------------------
(* The walk from h comes to every point, each at its distance from h. *)
LEMMA WalkDistance ==
  ASSUME NEW h \in Points, NEW i \in 1..H
  PROVE  /\ Walk(h)[i] \in Points
         /\ \A p \in Points : (p - h) % H \in 0..(H - 1)
                              /\ (Walk(h)[i] = p <=> (p - h) % H = i - 1)
<1>1. H \in Nat \ {0} /\ h \in 0..(H - 1) /\ i - 1 \in 0..(H - 1)
  BY ConstantsAssumption DEF Points
<1>2. Walk(h)[i] = (h + i - 1) % H
  BY DEF Walk
<1>3. PICK j \in 0..(H - 1) : j = i - 1
  BY <1>1
<1>4. h + i - 1 = h + j
  BY <1>1, <1>3
<1>5. (h + j) % H \in 0..(H - 1)
  BY <1>1, <1>3
<1>6. ASSUME NEW p \in 0..(H - 1)
      PROVE  (p - h) % H \in 0..(H - 1) /\ ((h + j) % H = p <=> (p - h) % H = j)
  BY <1>1, <1>3
<1> QED
  BY <1>2, <1>3, <1>4, <1>5, <1>6 DEF Points

(* How far a node is from h: no nearer point is its own, and one that far is. *)
LEMMA NodeDistance ==
  ASSUME NEW h \in Points, NEW n, Owned(n) # {}
  PROVE  /\ Distance(h, n) \in 0..(H - 1)
         /\ \A p \in Points : vnode[p] = n => Distance(h, n) <= (p - h) % H
         /\ \A i \in 1..H : Distance(h, n) = i - 1 => vnode[Walk(h)[i]] = n
<1>1. PICK S : S = {(p - h) % H : p \in Owned(n)}
  OBVIOUS
<1>2. \A p \in Points : (p - h) % H \in 0..(H - 1)
  BY WalkDistance, ConstantsAssumption DEF Points
<1>3. S \subseteq 0..(H - 1) /\ S \subseteq Nat /\ S # {}
  BY <1>1, <1>2, ConstantsAssumption DEF Owned
<1>4. Min(S) \in S /\ \A d \in S : Min(S) <= d
  BY <1>3, MinIsFirst
<1>5. Distance(h, n) = Min(S)
  BY <1>1 DEF Distance
<1>6. PICK p \in Points : vnode[p] = n /\ Min(S) = (p - h) % H
  BY <1>1, <1>4 DEF Owned
<1>7. \A i \in 1..H : (p - h) % H = i - 1 => Walk(h)[i] = p
  BY WalkDistance
<1> QED
  BY <1>1, <1>3, <1>4, <1>5, <1>6, <1>7 DEF Owned

(* After i points of the walk from h, ips are the nearest servers at work that it
   has come to, up to N of them. *)
Nearest(h, i, ips) ==
  /\ ips \in Seq(Nodes) /\ Len(ips) <= N
  /\ \A j \in 1..Len(ips) : ips[j] \in Serving /\ Distance(h, ips[j]) < i
  /\ \A j, k \in 1..Len(ips) : j < k => Distance(h, ips[j]) < Distance(h, ips[k])
  /\ \A n \in Serving : \A j \in 1..Len(ips) :
       Distance(h, n) < Distance(h, ips[j]) => Contains(ips, n)
  /\ \A n \in Serving : Len(ips) < N /\ Distance(h, n) < i => Contains(ips, n)

(* One more point of the walk. *)
LEMMA PickNearest ==
  ASSUME Typed, NEW h \in Points, NEW i \in 1..H, NEW ips, Nearest(h, i - 1, ips)
  PROVE  Nearest(h, i, Pick(ips, Walk(h)[i]))
<1>1. PICK p \in Points : p = Walk(h)[i] /\ (p - h) % H = i - 1
  BY WalkDistance
<1>2. PICK m \in Nodes \cup {None} : m = vnode[p]
  BY DEF Typed
<1>3. /\ i \in Nat \ {0} /\ N \in Nat \ {0} /\ None \notin Nodes
      /\ ips \in Seq(Nodes) /\ Len(ips) \in Nat /\ Len(ips) <= N
  BY ConstantsAssumption DEF Nearest
<1>4. \A n \in Serving : /\ n \in Nodes /\ Owned(n) # {} /\ state[n] = "run"
                         /\ Distance(h, n) \in Nat
                         /\ Distance(h, n) = i - 1 => n = m
  <2> SUFFICES ASSUME NEW n \in Serving
               PROVE  /\ n \in Nodes /\ Owned(n) # {} /\ state[n] = "run"
                      /\ Distance(h, n) \in Nat
                      /\ Distance(h, n) = i - 1 => n = m
    OBVIOUS
  <2>1. n \in Nodes /\ Owned(n) # {} /\ state[n] = "run"
    BY DEF Serving
  <2> QED
    BY <1>1, <1>2, <2>1, NodeDistance
<1>5. m # None /\ state[m] = "run" => m \in Serving /\ Distance(h, m) <= i - 1
  <2> SUFFICES ASSUME m # None, state[m] = "run" PROVE m \in Serving /\ Distance(h, m) <= i - 1
    OBVIOUS
  <2>1. m \in Nodes /\ Owned(m) # {}
    BY <1>2 DEF Owned
  <2> QED
    BY <1>1, <1>2, <2>1, NodeDistance DEF Serving
<1>6. CASE Len(ips) < N /\ m # None /\ state[m] = "run" /\ ~Contains(ips, m)
  <2>1. PICK new : new = Append(ips, m)
    OBVIOUS
  <2>2. Pick(ips, Walk(h)[i]) = new
    BY <1>1, <1>2, <1>6, <2>1 DEF Pick
  <2>3. /\ new \in Seq(Nodes) /\ Len(new) = Len(ips) + 1 /\ new[Len(ips) + 1] = m
        /\ \A j \in 1..Len(ips) : new[j] = ips[j] /\ j \in 1..Len(new)
        /\ \A j \in 1..Len(new) : j = Len(ips) + 1 \/ j \in 1..Len(ips)
    BY <1>2, <1>3, <1>6, <2>1
  <2>4. m \in Serving /\ Distance(h, m) = i - 1
    <3>1. m \in Serving /\ Distance(h, m) <= i - 1 /\ Distance(h, m) \in Nat
      BY <1>4, <1>5, <1>6
    <3>2. ~(Distance(h, m) < i - 1)
      BY <1>6, <3>1 DEF Nearest
    <3> QED
      BY <1>3, <3>1, <3>2
  <2>5. \A n : Contains(new, n) <=> Contains(ips, n) \/ n = m
    BY <1>3, <2>3 DEF Contains
  <2>6. \A j \in 1..Len(ips) : ips[j] \in Serving /\ Distance(h, ips[j]) < i - 1
    BY DEF Nearest
  <2>7. \A j \in 1..Len(new) : new[j] \in Serving /\ Distance(h, new[j]) < i
    BY <1>3, <1>4, <2>3, <2>4, <2>6
  <2>8. ASSUME NEW j \in 1..Len(new), NEW k \in 1..Len(new), j < k
        PROVE  Distance(h, new[j]) < Distance(h, new[k])
    <3>1. j \in 1..Len(ips) /\ new[j] = ips[j]
      BY <1>3, <2>3, <2>8
    <3>2. CASE k = Len(ips) + 1
      BY <2>3, <2>4, <2>6, <3>1, <3>2
    <3>3. CASE k \in 1..Len(ips)
      BY <2>3, <2>8, <3>1, <3>3 DEF Nearest
    <3> QED
      BY <2>3, <3>2, <3>3
  <2>9. ASSUME NEW n \in Serving, Distance(h, n) < i PROVE Contains(new, n)
    <3>1. Distance(h, n) < i - 1 \/ n = m
      BY <1>3, <1>4, <2>9
    <3> QED
      BY <1>6, <2>5, <3>1 DEF Nearest
  <2>10. ASSUME NEW n \in Serving, NEW j \in 1..Len(new), Distance(h, n) < Distance(h, new[j])
         PROVE  Contains(new, n)
    <3>1. Distance(h, n) < i
      BY <1>3, <1>4, <2>7, <2>10
    <3> QED
      BY <2>9, <3>1
  <2> QED
    BY <1>3, <1>6, <2>2, <2>3, <2>7, <2>8, <2>9, <2>10 DEF Nearest
<1>7. CASE ~(Len(ips) < N /\ m # None /\ state[m] = "run" /\ ~Contains(ips, m))
  <2>1. Pick(ips, Walk(h)[i]) = ips
    BY <1>1, <1>2, <1>7 DEF Pick
  <2>2. \A j \in 1..Len(ips) : ips[j] \in Serving /\ Distance(h, ips[j]) < i
    BY <1>3, <1>4 DEF Nearest
  <2>3. ASSUME NEW n \in Serving, Len(ips) < N, Distance(h, n) < i PROVE Contains(ips, n)
    <3>1. CASE Distance(h, n) = i - 1
      <4>1. n = m /\ m # None /\ state[m] = "run"
        BY <1>3, <1>4, <3>1
      <4> QED
        BY <1>7, <2>3, <4>1
    <3>2. CASE Distance(h, n) # i - 1
      <4>1. Distance(h, n) < i - 1
        BY <1>3, <1>4, <2>3, <3>2
      <4> QED
        BY <2>3, <4>1 DEF Nearest
    <3> QED
      BY <3>1, <3>2
  <2> QED
    BY <2>1, <2>2, <2>3 DEF Nearest
<1> QED
  BY <1>6, <1>7

(* The walk exists: from no servers on, each point adds what Pick adds. *)
LEMMA WalkExists ==
  ASSUME Typed, NEW h \in Points
  PROVE  \E f : f = [i \in 0..H |-> IF i = 0 THEN <<>> ELSE Pick(f[i - 1], Walk(h)[i])]
<1>1. H \in Nat /\ <<>> \in Seq(Nodes) /\ None \notin Nodes
  BY ConstantsAssumption
<1>2. PICK g : g = [x \in Seq(Nodes) \X (1..H) |-> Pick(x[1], Walk(h)[x[2]])]
  OBVIOUS
<1>3. ASSUME NEW ips \in Seq(Nodes), NEW i \in 1..H
      PROVE  /\ g[<<ips, i>>] = Pick(ips, Walk(h)[i])
             /\ Pick(ips, Walk(h)[i]) \in Seq(Nodes)
  <2>1. vnode[Walk(h)[i]] \in Nodes \cup {None}
    BY WalkDistance DEF Typed
  <2> QED
    BY <1>2, <2>1 DEF Pick
<1>4. g \in [Seq(Nodes) \X (1..H) -> Seq(Nodes)]
  BY <1>2, <1>3
<1>5. PICK f \in [0..H -> Seq(Nodes)] : Upto(f, H, <<>>, g)
  BY <1>1, <1>4, StepsExist
<1>6. \A i \in 0..H : i # 0 => g[<<f[i - 1], i>>] = Pick(f[i - 1], Walk(h)[i])
  BY <1>1, <1>3, <1>5
<1>7. f = [i \in 0..H |-> IF i = 0 THEN <<>> ELSE Pick(f[i - 1], Walk(h)[i])]
  BY <1>5, <1>6 DEF Upto
<1> QED
  BY <1>7

(* A lookup that walks round the ring gives the nearest servers of all. *)
LEMMA LookupNearest ==
  ASSUME Typed, NEW h \in Points, ivnodes # 0
  PROVE  Nearest(h, H, Lookup(h))
<1>1. PICK f : /\ f = [i \in 0..H |-> IF i = 0 THEN <<>> ELSE Pick(f[i - 1], Walk(h)[i])]
               /\ Lookup(h) = f[H]
  BY WalkExists DEF Lookup
<1>2. H \in Nat \ {0} /\ N \in Nat \ {0}
  BY ConstantsAssumption
<1>3. f[0] = <<>> /\ \A i \in 1..H : f[i] = Pick(f[i - 1], Walk(h)[i])
  BY <1>1, <1>2
<1>4. PICK T : T = {i \in 0..H : ~Nearest(h, i, f[i])}
  OBVIOUS
<1>5. T = {}
  <2> SUFFICES ASSUME T # {} PROVE FALSE
    OBVIOUS
  <2>1. T \in SUBSET Nat
    BY <1>4
  <2>2. PICK i \in T : \A j \in T : i <= j
    BY <2>1, FirstNumber
  <2>3. CASE i = 0
    <3>1. \A n \in Serving : ~(Distance(h, n) < 0)
      BY NodeDistance, <1>2 DEF Serving
    <3>2. <<>> \in Seq(Nodes) /\ Len(<<>>) = 0 /\ 1..0 = {}
      OBVIOUS
    <3>3. Nearest(h, 0, <<>>)
      BY <1>2, <3>1, <3>2 DEF Nearest
    <3> QED
      BY <1>3, <1>4, <2>2, <2>3, <3>3
  <2>4. CASE i # 0
    <3>1. i \in 1..H /\ i - 1 \in 0..H /\ i - 1 < i
      BY <1>2, <1>4, <2>4
    <3>2. Nearest(h, i - 1, f[i - 1])
      BY <1>4, <2>1, <2>2, <3>1
    <3> QED
      BY <1>3, <1>4, <2>2, <3>1, <3>2, PickNearest
  <2> QED
    BY <2>3, <2>4
<1>6. H \in 0..H /\ H \notin T
  BY <1>2, <1>5
<1>7. Nearest(h, H, f[H])
  BY <1>4, <1>6
<1> QED
  BY <1>1, <1>7

(* There are finitely many servers at work, as each has a point. *)
LEMMA ServingFinite ==
  ASSUME Typed
  PROVE  IsFiniteSet(Serving) /\ Cardinality(Serving) \in Nat
<1>1. PICK ps : ps = {p \in Points : vnode[p] \in Serving}
  OBVIOUS
<1>2. PICK f : f = [p \in ps |-> vnode[p]]
  OBVIOUS
<1>3. f \in Surjection(ps, Serving)
  BY <1>1, <1>2 DEF Surjection, Serving, Owned
<1>4. IsFiniteSet(ps)
  BY <1>1, PointsFinite
<1> QED
  BY <1>3, <1>4, FS_Surjection, FS_CardinalityType

(* The elements of a sequence without repetitions are as many as it is long. *)
LEMMA ElementsCount ==
  ASSUME NEW ips, NEW l \in Nat, \A j, k \in 1..l : ips[j] = ips[k] => j = k,
         NEW S, S = {ips[j] : j \in 1..l}
  PROVE  Cardinality(S) = l
<1>1. PICK f : f = [j \in 1..l |-> ips[j]]
  OBVIOUS
<1>2. f \in Surjection(1..l, S) /\ f \in Injection(1..l, S)
  BY <1>1 DEF Surjection, Injection, IsInjective
<1>3. IsFiniteSet(1..l) /\ Cardinality(1..l) = l
  <2>1. 1 \in Int /\ l \in Int
    OBVIOUS
  <2>2. IsFiniteSet(1..l) /\ Cardinality(1..l) = IF 1 > l THEN 0 ELSE l - 1 + 1
    BY <2>1, FS_Interval, ZenonT(60)
  <2>3. (IF 1 > l THEN 0 ELSE l - 1 + 1) = l
    OBVIOUS
  <2> QED
    BY <2>2, <2>3
<1> QED
  BY <1>2, <1>3, FS_Surjection

(* The nearest servers are counted as the run counts them. *)
LEMMA NearestCount ==
  ASSUME Typed, NEW h \in Points, NEW ips, Nearest(h, H, ips)
  PROVE  /\ Len(ips) \in Nat
         /\ Len(ips) = IF Cardinality(Serving) < N THEN Cardinality(Serving) ELSE N
         /\ \A i \in 1..Len(ips) :
              Cardinality({n \in Serving : Distance(h, n) < Distance(h, ips[i])}) = i - 1
<1>1. /\ Len(ips) \in Nat /\ Len(ips) <= N /\ N \in Nat
      /\ IsFiniteSet(Serving) /\ Cardinality(Serving) \in Nat
  BY ServingFinite, ConstantsAssumption DEF Nearest
<1>2. \A n \in Serving : Distance(h, n) \in Nat /\ Distance(h, n) < H
  BY NodeDistance, ConstantsAssumption DEF Serving
<1>3. \A j, k \in 1..Len(ips) : ips[j] = ips[k] => j = k
  <2> SUFFICES ASSUME NEW j \in 1..Len(ips), NEW k \in 1..Len(ips), ips[j] = ips[k], j # k
               PROVE  FALSE
    OBVIOUS
  <2>1. j < k \/ k < j
    BY <1>1
  <2>2. Distance(h, ips[j]) \in Nat
    BY <1>2 DEF Nearest
  <2> QED
    BY <2>1, <2>2 DEF Nearest
<1>4. PICK S : S = {ips[j] : j \in 1..Len(ips)}
  OBVIOUS
<1>5. S \subseteq Serving /\ Cardinality(S) = Len(ips)
  <2>1. Cardinality(S) = Len(ips)
    BY <1>1, <1>3, <1>4, ElementsCount, SMTT(30)
  <2> QED
    BY <1>4, <2>1 DEF Nearest
<1>6. Len(ips) <= Cardinality(Serving)
  BY <1>1, <1>5, FS_Subset
<1>7. Len(ips) < N => Len(ips) = Cardinality(Serving)
  <2>1. Len(ips) < N => Serving \subseteq S
    BY <1>2, <1>4 DEF Nearest, Contains
  <2>2. Len(ips) < N => Serving = S
    BY <1>5, <2>1
  <2> QED
    BY <1>5, <2>2
<1>8. ASSUME NEW i \in 1..Len(ips)
      PROVE  Cardinality({n \in Serving : Distance(h, n) < Distance(h, ips[i])}) = i - 1
  <2>1. i - 1 \in Nat /\ \A j \in 1..(i - 1) : j \in 1..Len(ips) /\ j < i
    BY <1>1
  <2>2. PICK before : before = {ips[j] : j \in 1..(i - 1)}
    OBVIOUS
  <2>3. Cardinality(before) = i - 1
    <3>1. PICK l \in Nat : l = i - 1
      BY <2>1
    <3>2. \A j, k \in 1..l : ips[j] = ips[k] => j = k
      BY <1>3, <2>1, <3>1
    <3>3. before = {ips[j] : j \in 1..l}
      BY <2>2, <3>1
    <3>4. Cardinality(before) = l
      BY <3>1, <3>2, <3>3, ElementsCount
    <3> QED
      BY <3>1, <3>4
  <2>4. ASSUME NEW n \in Serving, Distance(h, n) < Distance(h, ips[i]) PROVE n \in before
    <3>1. PICK j \in 1..Len(ips) : ips[j] = n
      BY <2>4 DEF Nearest, Contains
    <3>2. ~(i < j) /\ j # i
      <4>1. Distance(h, n) \in Nat /\ Distance(h, ips[i]) \in Nat
        BY <1>2 DEF Nearest
      <4>2. i < j => Distance(h, ips[i]) < Distance(h, ips[j])
        BY <3>1 DEF Nearest
      <4> QED
        BY <2>4, <3>1, <4>1, <4>2
    <3>3. j \in 1..(i - 1)
      BY <1>1, <3>2
    <3> QED
      BY <2>2, <3>1, <3>3
  <2>5. \A j \in 1..(i - 1) : ips[j] \in Serving /\ Distance(h, ips[j]) < Distance(h, ips[i])
    BY <2>1 DEF Nearest
  <2>6. {n \in Serving : Distance(h, n) < Distance(h, ips[i])} = before
    BY <2>2, <2>4, <2>5
  <2> QED
    BY <2>3, <2>6
<1> QED
  BY <1>1, <1>6, <1>7, <1>8

(* The smaller of two numbers. *)
LEMMA MinOfTwo ==
  ASSUME NEW a \in Nat, NEW b \in Nat
  PROVE  Min({a, b}) = IF b < a THEN b ELSE a
<1>1. Min({a, b}) \in {a, b} /\ \A y \in {a, b} : Min({a, b}) <= y
  BY MinIsFirst
<1> QED
  BY <1>1

(* Every lookup gives the nearest servers. *)
LEMMA RingNearest == Ring => \A h \in Points : Nearest(h, H, Lookup(h))
<1> SUFFICES ASSUME Ring, NEW h \in Points PROVE Nearest(h, H, Lookup(h))
  OBVIOUS
<1>1. CASE ivnodes = 0
  <2>1. Lookup(h) = <<>>
    BY <1>1 DEF Lookup
  <2>2. Serving = {}
    <3>1. Taken = {}
      BY <1>1, PointsFinite, FS_EmptySet DEF Ring, CountExact, Taken
    <3> QED
      BY <3>1, ConstantsAssumption DEF Taken, Serving, Owned
  <2> QED
    BY <2>1, <2>2, ConstantsAssumption DEF Nearest
<1>2. CASE ivnodes # 0
  BY <1>2, LookupNearest DEF Ring
<1> QED
  BY <1>1, <1>2

(* What the run checks as LookupIsNearest: the walk over virtual nodes gives the
   nearest N different servers at work, the nearest first, or all of them if they
   are fewer, for any ring, collisions and servers that do not work yet. *)
THEOREM LookupCorrect == Spec => []LookupIsNearest
<1>1. Ring => LookupIsNearest
  <2> SUFFICES ASSUME Ring, NEW h \in Points
      PROVE  LET ips == Lookup(h) IN
             /\ Len(ips) = Min({N, Cardinality(Serving)})
             /\ GetHostsByKey(h) = IF Cardinality(Serving) >= N THEN ips ELSE <<>>
             /\ \A i \in 1..Len(ips) :
                  /\ ips[i] \in Serving
                  /\ Cardinality({n \in Serving : Distance(h, n) < Distance(h, ips[i])}) = i - 1
    BY DEF LookupIsNearest
  <2>1. PICK ips : ips = Lookup(h)
    OBVIOUS
  <2>2. Nearest(h, H, ips)
    BY <2>1, RingNearest
  <2>3. Cardinality(Serving) \in Nat /\ N \in Nat
    BY ServingFinite, ConstantsAssumption DEF Ring
  <2>4. /\ Len(ips) \in Nat
        /\ Len(ips) = IF Cardinality(Serving) < N THEN Cardinality(Serving) ELSE N
        /\ \A i \in 1..Len(ips) :
             Cardinality({n \in Serving : Distance(h, n) < Distance(h, ips[i])}) = i - 1
    BY <2>2, NearestCount DEF Ring
  <2>5. Len(ips) = Min({N, Cardinality(Serving)})
    BY <2>3, <2>4, MinOfTwo
  <2>6. GetHostsByKey(h) = IF Cardinality(Serving) >= N THEN ips ELSE <<>>
    BY <2>1, <2>3, <2>4 DEF GetHostsByKey
  <2>7. \A i \in 1..Len(ips) : ips[i] \in Serving
    BY <2>2 DEF Nearest
  <2> QED
    BY <2>1, <2>4, <2>5, <2>6, <2>7
<1> QED
  BY <1>1, RingInv, PTL

-----------------------------------------------------------------------------
(* The servers before n in such a list are the nearer ones. *)
NearerFirst ==
  \A h \in Points : \A ips : Nearest(h, H, ips) => \A n \in ToSet(ips) :
    Before(ips, n) = {m \in Serving : Distance(h, m) < Distance(h, n)}

(* This holds in every state. *)
LEMMA NearerBefore == NearerFirst
<1> SUFFICES ASSUME NEW h \in Points, NEW ips, Nearest(h, H, ips), NEW n \in ToSet(ips)
             PROVE  Before(ips, n) = {m \in Serving : Distance(h, m) < Distance(h, n)}
  BY DEF NearerFirst
<1>1. Len(ips) \in Nat /\ ToSet(ips) = {ips[i] : i \in 1..Len(ips)}
  BY DEF Nearest, ToSet
<1>2. PICK j \in 1..Len(ips) : ips[j] = n
  BY <1>1
<1>3. \A m \in Serving : Distance(h, m) \in Nat
  BY NodeDistance, ConstantsAssumption DEF Serving
<1>4. ASSUME NEW i \in 1..Len(ips), NEW k \in 1..Len(ips), i < k, ips[k] = n
      PROVE  ips[i] \in Serving /\ Distance(h, ips[i]) < Distance(h, n)
  BY <1>4 DEF Nearest
<1>5. ASSUME NEW m \in Serving, Distance(h, m) < Distance(h, n)
      PROVE  \E i \in 1..Len(ips) : ips[i] = m /\ i < j
  <2>1. PICK i \in 1..Len(ips) : ips[i] = m
    BY <1>2, <1>5 DEF Nearest, Contains
  <2>2. n \in Serving /\ Distance(h, n) \in Nat /\ Distance(h, m) \in Nat
    BY <1>2, <1>3 DEF Nearest
  <2>3. i # j /\ ~(j < i)
    BY <1>2, <1>5, <2>1, <2>2 DEF Nearest
  <2> QED
    BY <1>1, <2>1, <2>3
<1>6. Before(ips, n) \subseteq {m \in Serving : Distance(h, m) < Distance(h, n)}
  <2> SUFFICES ASSUME NEW i \in 1..Len(ips), NEW k \in (i + 1)..Len(ips), ips[k] = n
               PROVE  ips[i] \in Serving /\ Distance(h, ips[i]) < Distance(h, n)
    BY DEF Before
  <2>1. k \in 1..Len(ips) /\ i < k
    BY <1>1
  <2> QED
    BY <1>4, <2>1
<1>7. {m \in Serving : Distance(h, m) < Distance(h, n)} \subseteq Before(ips, n)
  <2> SUFFICES ASSUME NEW m \in Serving, Distance(h, m) < Distance(h, n)
               PROVE  m \in Before(ips, n)
    OBVIOUS
  <2>1. PICK i \in 1..Len(ips) : ips[i] = m /\ i < j
    BY <1>5
  <2>2. j \in (i + 1)..Len(ips)
    BY <1>1, <2>1
  <2> QED
    BY <1>2, <2>1, <2>2 DEF Before
<1> QED
  BY <1>6, <1>7

(* A server that works before and after a step keeps its points, and it worked
   with points before if it does after. *)
LEMMA PointsKept ==
  ASSUME Ring, [Next]_vars, NEW n \in Nodes, state[n] = "run", state'[n] = "run"
  PROVE  Owned(n)' = Owned(n)
<1>1. n # None
  BY ConstantsAssumption
<1>2. ASSUME NEW m \in Nodes, NEW ps \in Placements, AddNode(m, ps) PROVE Owned(n)' = Owned(n)
  <2>1. PICK new : /\ vnode' = [p \in Points |-> IF p \in new THEN m ELSE vnode[p]]
                   /\ \A p \in new : vnode[p] = None
    BY <1>2 DEF AddNode, NewPoints
  <2>2. m # n
    BY <1>2 DEF AddNode, InList
  <2> QED
    BY <1>1, <2>1, <2>2 DEF Owned
<1>3. ASSUME NEW m \in Nodes, DelNode(m) PROVE Owned(n)' = Owned(n)
  <2>1. PICK own : /\ vnode' = [p \in Points |-> IF p \in own THEN None ELSE vnode[p]]
                   /\ \A p \in own : vnode[p] = m
    BY <1>3 DEF DelNode, OwnPoints
  <2>2. m # n
    BY <1>3 DEF DelNode, Ring, Typed
  <2> QED
    BY <1>1, <2>1, <2>2 DEF Owned
<1>4. CASE Reset \/ UNCHANGED vars
  BY <1>4 DEF Reset, vars, Owned
<1> QED
  BY <1>2, <1>3, <1>4 DEF Next

(* Two nodes are not equally far. *)
LEMMA DistancesDiffer ==
  ASSUME NEW h \in Points, NEW m \in Serving, NEW n \in Serving, Distance(h, m) = Distance(h, n)
  PROVE  m = n
<1>1. Distance(h, n) \in 0..(H - 1) /\ H \in Nat /\ Owned(m) # {} /\ Owned(n) # {}
  BY NodeDistance, ConstantsAssumption DEF Serving
<1>2. PICK i \in 1..H : Distance(h, n) = i - 1
  <2>1. Distance(h, n) + 1 \in 1..H /\ (Distance(h, n) + 1) - 1 = Distance(h, n)
    BY <1>1
  <2> QED
    BY <2>1
<1> QED
  BY <1>1, <1>2, NodeDistance

(* One step of the ring and one key. *)
LEMMA StepAgrees ==
  ASSUME Ring, Ring', [Next]_vars, NEW h \in Points,
         Nearest(h, H, Lookup(h)), Nearest(h, H, Lookup(h))'
  PROVE  Agree(Lookup(h), Lookup(h)',
               {n \in Nodes : state[n] # "run" /\ state'[n] = "run"},
               {n \in Nodes : state[n] = "run" /\ state'[n] # "run"})
<1>1. PICK old, new : old = Lookup(h) /\ new = Lookup(h)'
  OBVIOUS
<1>2. PICK began, stopped : /\ began = {n \in Nodes : state[n] # "run" /\ state'[n] = "run"}
                            /\ stopped = {n \in Nodes : state[n] = "run" /\ state'[n] # "run"}
  OBVIOUS
<1>3. \A n \in ToSet(old) : n \in Serving
  BY <1>1 DEF Nearest, ToSet
<1>4. \A n \in ToSet(new) : n \in Serving'
  BY <1>1 DEF Nearest, ToSet
<1>5. \A n \in Serving : n \notin stopped => n \in Serving' /\ Distance(h, n)' = Distance(h, n)
  BY <1>2, PointsKept DEF Serving, Distance
<1>6. \A n \in Serving' : n \notin began => n \in Serving /\ Distance(h, n)' = Distance(h, n)
  BY <1>2, PointsKept DEF Serving, Distance
<1>7. Serving \cap began = {} /\ Serving' \cap stopped = {}
  BY <1>2 DEF Serving
<1>8. \A n \in Serving : Distance(h, n) \in Nat
  BY NodeDistance, ConstantsAssumption DEF Serving
<1>9. ASSUME NEW n \in ToSet(old) \cap ToSet(new)
      PROVE  Before(old, n) \ stopped = Before(new, n) \ began
  <2>1. Before(old, n) = {m \in Serving : Distance(h, m) < Distance(h, n)}
    BY <1>1, NearerBefore DEF NearerFirst
  <2>2. Before(new, n) = {m \in Serving' : Distance(h, m)' < Distance(h, n)'}
    <3>1. NearerFirst'
      BY NearerBefore, PTL
    <3> QED
      BY <1>1, <3>1 DEF NearerFirst
  <2>3. Distance(h, n)' = Distance(h, n)
    BY <1>3, <1>4, <1>5, <1>7
  <2> QED
    BY <1>5, <1>6, <1>7, <2>1, <2>2, <2>3
<1>10. ASSUME NEW n \in ToSet(old) \ stopped, n \notin ToSet(new)
       PROVE  ToSet(new) \ began \subseteq ToSet(old)
  <2> SUFFICES ASSUME NEW m \in ToSet(new) \ began PROVE m \in ToSet(old)
    OBVIOUS
  <2>1. /\ n \in Serving /\ n \in Serving' /\ Distance(h, n)' = Distance(h, n)
        /\ m \in Serving /\ Distance(h, m)' = Distance(h, m)
        /\ Distance(h, n) \in Nat /\ Distance(h, m) \in Nat
    BY <1>3, <1>4, <1>5, <1>6, <1>8
  <2>2. ~(Distance(h, n)' < Distance(h, m)')
    BY <1>1, <1>10, <2>1 DEF Nearest, ToSet, Contains
  <2>3. m # n
    BY <1>10
  <2>4. Distance(h, m) # Distance(h, n)
    BY <2>1, <2>3, DistancesDiffer
  <2>5. Distance(h, m) < Distance(h, n)
    BY <2>1, <2>2, <2>4
  <2> QED
    BY <1>1, <2>1, <2>5, SMTT(30) DEF Nearest, ToSet, Contains
<1> QED
  BY <1>1, <1>2, <1>9, <1>10 DEF Agree

(* What the run checks as MinimalDisruption: when a server joins, leaves or begins
   to work, the servers of every key, without that one, keep their order and their
   places, for any ring and any collisions. *)
THEOREM DisruptionMinimal == Spec => MinimalDisruption
<1>1. /\ Ring /\ Ring' /\ [Next]_vars
      /\ \A h \in Points : Nearest(h, H, Lookup(h))
      /\ (\A h \in Points : Nearest(h, H, Lookup(h)))'
      => \A lists \in {<<Lookup(h), Lookup(h)'>> : h \in Points} :
           Agree(lists[1], lists[2],
                 {n \in Nodes : state[n] # "run" /\ state'[n] = "run"},
                 {n \in Nodes : state[n] = "run" /\ state'[n] # "run"})
  BY StepAgrees
<1> QED
  BY <1>1, RingInv, RingNearest, PTL DEF Spec, MinimalDisruption
=============================================================================
