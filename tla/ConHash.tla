------------------------------- MODULE ConHash -------------------------------
(***************************************************************************)
(* The ring of the configuration server (conhash.c, conhash_inter.c), and  *)
(* the servers it gives for a key (config-server.c, router.c).             *)
(*                                                                         *)
(* The hash of a replica of a node is any point of a small ring, so that   *)
(* replicas collide; it is chosen when the node is added, a name that is   *)
(* added again standing for another server.  The red-black tree is the set *)
(* of points that have a virtual node; its successor functions go round    *)
(* the ring (RBTree).                                                      *)
(***************************************************************************)
EXTENDS Integers, Sequences, SequencesExt, FiniteSetsExt

CONSTANTS
  Nodes,        \* addresses of servers
  None,         \* no node
  N,            \* replicas of a key (def.h)
  MaxReplicas,  \* bound: virtual nodes of a node (REP_PER_NODE)
  H,            \* bound: points of the ring
  MallocFails   \* whether the memory of a virtual node may be refused

ASSUME ConstantsAssumption ==
  /\ None \notin Nodes /\ N \in Nat \ {0} /\ H \in Nat \ {0}
  /\ MaxReplicas \in Nat /\ MallocFails \in BOOLEAN

Points == 0..(H - 1)

(* The points the replicas of a node may have. *)
Placements == {ps \in SUBSET Points : Cardinality(ps) <= MaxReplicas}

VARIABLES
  hash,      \* of a node: the points of its replicas (cb_hashfunc)
  state,     \* of a node: NODE_STATE_INIT (not in the list), _IDLE or _RUN
  vnode,     \* of a point: the node whose virtual node the tree has there
  ivnodes    \* the count of virtual nodes
vars == <<hash, state, vnode, ivnodes>>

InList(n) == state[n] # "init"

-----------------------------------------------------------------------------
(* Looking up *)

(* The points in the order of the search, from h on. *)
Walk(h) == [i \in 1..H |-> (h + i - 1) % H]

(* Mutant: the same server twice. *)
PickAgain(ips, p) ==
  IF Len(ips) < N /\ vnode[p] # None /\ state[vnode[p]] = "run"
  THEN Append(ips, vnode[p]) ELSE ips

(* A virtual node gives its server, if it is at work and not given yet. *)
Pick(ips, p) ==
  IF /\ Len(ips) < N /\ vnode[p] # None
     /\ state[vnode[p]] = "run" /\ ~Contains(ips, vnode[p])
  THEN Append(ips, vnode[p]) ELSE ips

(* conhash_lookup: at most N servers, once around the ring. *)
Lookup(h) ==
  LET found[i \in 0..H] == IF i = 0 THEN <<>> ELSE Pick(found[i - 1], Walk(h)[i])
  IN IF ivnodes = 0 THEN <<>> ELSE found[H]

(* __getHostsByKey: N servers, or none at all (ROUTER_FAILED). *)
GetHostsByKey(h) == IF Len(Lookup(h)) < N THEN <<>> ELSE Lookup(h)

-----------------------------------------------------------------------------
(* Changing the ring *)

(* Mutant: the duplication of a point is not checked. *)
AnyPoints(ps) == ps

(* __conhash_add_replicas: the points of replicas no virtual node has. *)
NewPoints(ps) == {p \in ps : vnode[p] = None}

(* conhash_add_node: nothing if it is in the list already.  A replica that
   gets no memory is skipped. *)
AddNode(n, ps) ==
  /\ ~InList(n)
  /\ hash' = [hash EXCEPT ![n] = ps]
  /\ \E got \in SUBSET ps :
       /\ MallocFails \/ got = ps
       /\ LET new == NewPoints(got) IN
          /\ vnode' = [p \in Points |-> IF p \in new THEN n ELSE vnode[p]]
          /\ ivnodes' = ivnodes + Cardinality(new)
  /\ state' = [state EXCEPT ![n] = "idle"]

(* Mutant: the virtual nodes at the points of n, whoever owns them. *)
PointsAnybodys(n) == {p \in hash[n] : vnode[p] # None}

(* __conhash_del_replicas: the virtual nodes of n at the points of n. *)
OwnPoints(n) == {p \in hash[n] : vnode[p] = n}

(* conhash_del_node: nothing if it is not in the list. *)
DelNode(n) ==
  /\ InList(n)
  /\ LET own == OwnPoints(n) IN
     /\ vnode' = [p \in Points |-> IF p \in own THEN None ELSE vnode[p]]
     /\ ivnodes' = ivnodes - Cardinality(own)
  /\ state' = [state EXCEPT ![n] = "init"]
  /\ hash' = [hash EXCEPT ![n] = {}]

(* conhash_reset: the nodes of the list start working. *)
Reset ==
  /\ state' = [n \in Nodes |-> IF InList(n) THEN "run" ELSE "init"]
  /\ UNCHANGED <<hash, vnode, ivnodes>>

Init ==
  /\ hash = [n \in Nodes |-> {}]
  /\ state = [n \in Nodes |-> "init"]
  /\ vnode = [p \in Points |-> None]
  /\ ivnodes = 0

Next ==
  \/ \E n \in Nodes, ps \in Placements : AddNode(n, ps)
  \/ \E n \in Nodes : DelNode(n)
  \/ Reset

Spec == Init /\ [][Next]_vars

-----------------------------------------------------------------------------
(* Properties *)

(* The types, and the bound of the count. *)
TypeOK ==
  /\ hash \in [Nodes -> Placements]
  /\ state \in [Nodes -> {"init", "idle", "run"}]
  /\ vnode \in [Points -> Nodes \cup {None}]
  /\ ivnodes \in 0..H

Owned(n) == {p \in Points : vnode[p] = n}

(* ivnodes, which conhash_lookup trusts to tell an empty ring, is the number
   of virtual nodes, and each of them belongs to a replica of a node of the
   list: deleting a node leaves no pointer to the memory it frees. *)
RingExact ==
  /\ ivnodes = Cardinality({p \in Points : vnode[p] # None})
  /\ \A n \in Nodes : \A p \in Owned(n) :
       InList(n) /\ p \in hash[n]

Serving == {n \in Nodes : state[n] = "run" /\ Owned(n) # {}}

(* How far round the ring a node is from h. *)
Distance(h, n) == Min({(p - h) % H : p \in Owned(n)})

(* The walk over virtual nodes gives what the definition of consistent hashing
   asks for: the N nearest different servers at work that have a virtual node,
   the nearest first, or all of them if they are fewer; the router fails then. *)
LookupIsNearest ==
  \A h \in Points :
    LET ips == Lookup(h) IN
    /\ Len(ips) = Min({N, Cardinality(Serving)})
    /\ GetHostsByKey(h) = IF Cardinality(Serving) >= N THEN ips ELSE <<>>
    /\ \A i \in 1..Len(ips) :
         /\ ips[i] \in Serving
         /\ Cardinality({n \in Serving : Distance(h, n) < Distance(h, ips[i])}) = i - 1

(* The servers that come before n in a list. *)
Before(ips, n) == {ips[i] : i \in {j \in 1..Len(ips) : \E k \in (j + 1)..Len(ips) : ips[k] = n}}

(* Two lists, one before and one after some servers began or stopped working:
   without those, one is the beginning of the other. *)
Agree(old, new, began, stopped) ==
  /\ ToSet(old) \ stopped \subseteq ToSet(new) \/ ToSet(new) \ began \subseteq ToSet(old)
  /\ \A n \in ToSet(old) \cap ToSet(new) : Before(old, n) \ stopped = Before(new, n) \ began

(* What a node that joins or leaves does not own stays where it is
   (chap04.tex:110-121), even when points collide: the servers of a key, without
   those that began or stopped working, keep their order and their places. *)
MinimalDisruption == [][
  \A lists \in {<<Lookup(h), Lookup(h)'>> : h \in Points} :
    Agree(lists[1], lists[2],
          {n \in Nodes : state[n] # "run" /\ state'[n] = "run"},
          {n \in Nodes : state[n] = "run" /\ state'[n] # "run"})]_vars
=============================================================================
