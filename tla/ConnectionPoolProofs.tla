------------------------ MODULE ConnectionPoolProofs ------------------------
(***************************************************************************)
(* Proofs about ConnectionPool: the links of the list agree for ever, and  *)
(* as long as an idle connection is left whenever one is taken, workers    *)
(* share no connection and no reply.                                       *)
(***************************************************************************)
EXTENDS ConnectionPool, FiniteSetTheorems, FunctionTheorems, SequenceTheorems, TLAPS

(* A worker that has no command under way has no connection. *)
Unused == \A w \in Workers : pc[w] \in {"start", "failed"} => connection[w] = NULL

Typed == TypeOK /\ Unused

-----------------------------------------------------------------------------
(* NULL, the header and the connections are different. *)
LEMMA NodesApart ==
  /\ NULL \notin Nodes /\ header \notin Connections /\ header \in Nodes
  /\ Connections \subseteq Nodes /\ tail \in Connections
BY ConstantsAssumption DEF Nodes, Connections, tail

(* What a worker that gives a connection back owes is late: still a sequence of
   requests. *)
LEMMA LateRequests ==
  ASSUME NEW s \in Seq(Workers \cup {Late, Cut}), NEW w \in Workers
  PROVE  /\ ReplaceAll(s, w, Late) \in Seq(Workers \cup {Late, Cut})
         /\ s = <<>> => ReplaceAll(s, w, Late) = <<>>
<1>1. Len(s) \in Nat /\ \A i \in 1..Len(s) : s[i] \in Workers \cup {Late, Cut}
  BY LenProperties, ElementOfSeq
<1>2. PICK t : t = ReplaceAll(s, w, Late)
  OBVIOUS
<1>3. t = [i \in 1..Len(s) |-> IF s[i] = w THEN Late ELSE s[i]]
  BY <1>2 DEF ReplaceAll
<1>4. t \in [1..Len(s) -> Workers \cup {Late, Cut}]
  BY <1>1, <1>3
<1>5. t \in Seq(Workers \cup {Late, Cut}) /\ Len(t) = Len(s)
  BY <1>1, <1>4
<1> QED
  BY <1>2, <1>5, EmptySeq

(* Types are kept: the links that are followed blindly are there. *)
LEMMA StepTyped == Typed /\ [Next]_vars => Typed'
<1> SUFFICES ASSUME Typed, [Next]_vars PROVE Typed'
  OBVIOUS
<1> USE NodesApart DEF Typed, TypeOK, Unused, listVars, historyVars, Goto, ClearBuffer
<1>1. ASSUME NEW w \in Workers, Open(w) PROVE Typed'
  <2>0. PICK q : q = next[header]
    OBVIOUS
  <2>1. q \in Connections \cup {NULL}
    BY <2>0
  <2>2. /\ connection' = [connection EXCEPT ![w] = q]
        /\ pc' = [pc EXCEPT ![w] = IF q = NULL THEN "failed" ELSE "write"]
        /\ UNCHANGED <<requests, reply>> /\ pc[w] = "start"
    BY <1>1, <2>0 DEF Open, AfterOpen
  <2>3. CASE q # NULL /\ state[q] = "IDLE"
    <3>1. /\ state' = [state EXCEPT ![q] = "TRANSFERING"]
          /\ buffer' = [buffer EXCEPT ![q] = <<>>]
          /\ next' = [next EXCEPT ![header] = next[q], ![tail] = q, ![q] = NULL]
          /\ previous' = [Assign(previous, next[q], header) EXCEPT ![q] = tail]
          /\ exhausted' = (exhausted \/ Idle = {q})
          /\ clean' = IF requests[q] = <<>> THEN clean \cup {w} ELSE clean
      BY <1>1, <2>0, <2>3 DEF Open, MoveToTail
    <3>2. Assign(previous, next[q], header) \in [Connections -> Nodes]
      BY <2>1, <2>3 DEF Assign
    <3>3. <<>> \in Seq(Workers \cup {Late})
      OBVIOUS
    <3>4. /\ next' \in [Nodes -> Connections \cup {NULL}]
          /\ previous' \in [Connections -> Nodes]
          /\ state' \in [Connections -> {"IDLE", "TRANSFERING"}]
          /\ buffer' \in [Connections -> Seq(Workers \cup {Late})]
          /\ exhausted' \in BOOLEAN /\ clean' \subseteq Workers
      BY <2>1, <2>3, <3>1, <3>2, <3>3
    <3> QED
      BY <2>1, <2>2, <2>3, <3>4
  <2>4. CASE ~(q # NULL /\ state[q] = "IDLE")
    BY <1>1, <2>0, <2>1, <2>2, <2>4 DEF Open
  <2> QED
    BY <2>3, <2>4
<1>2. ASSUME NEW w \in Workers, Write(w) PROVE Typed'
  <2>1. Append(requests[connection[w]], w) \in Seq(Workers \cup {Late, Cut})
    BY <1>2 DEF Write
  <2> QED
    BY <1>2, <2>1 DEF Write, Send
<1>3. ASSUME NEW w \in Workers, WriteFails(w) PROVE Typed'
  <2>1. Append(requests[connection[w]], Cut) \in Seq(Workers \cup {Late, Cut})
    BY <1>3 DEF WriteFails
  <2>2. requests' \in [Connections -> Seq(Workers \cup {Late, Cut})]
    BY <1>3, <2>1 DEF WriteFails, Send
  <2> QED
    BY <1>3, <2>2 DEF WriteFails
<1>4. ASSUME NEW w \in Workers, Receive(w) PROVE Typed'
  <2>0. PICK c : c = connection[w]
    OBVIOUS
  <2>1. /\ c \in Connections /\ buffer[c] # <<>> /\ buffer[c] \in Seq(Workers \cup {Late})
        /\ pc' = [pc EXCEPT ![w] = "close"] /\ pc[w] = "recv"
        /\ reply' = [reply EXCEPT ![w] = Head(buffer[c])]
        /\ \E rest \in {Tail(buffer[c]), <<>>} : buffer' = [buffer EXCEPT ![c] = rest]
        /\ UNCHANGED <<listVars, requests, connection, historyVars>>
    BY <1>4, <2>0 DEF Receive
  <2>2. /\ Head(buffer[c]) \in Workers \cup {Late}
        /\ Tail(buffer[c]) \in Seq(Workers \cup {Late})
    BY <2>1, HeadTailProperties
  <2>3. PICK rest \in {Tail(buffer[c]), <<>>} : buffer' = [buffer EXCEPT ![c] = rest]
    BY <2>1
  <2>4. rest \in Seq(Workers \cup {Late})
    <3>1. <<>> \in Seq(Workers \cup {Late})
      OBVIOUS
    <3> QED
      BY <2>2, <2>3, <3>1, Zenon
  <2>5. buffer' \in [Connections -> Seq(Workers \cup {Late})]
    BY <2>1, <2>3, <2>4
  <2> QED
    BY <2>1, <2>2, <2>5
<1>5. ASSUME NEW w \in Workers, ReceiveFails(w) PROVE Typed'
  BY <1>5 DEF ReceiveFails
<1>6. ASSUME NEW w \in Workers, Close(w) PROVE Typed'
  <2>0. PICK c : c = connection[w]
    OBVIOUS
  <2>1. c \in Connections /\ pc[w] = "close"
    BY <1>6, <2>0 DEF Close
  <2>2. PICK unlinked, h : /\ unlinked = [next EXCEPT ![previous[c]] = next[c]]
                           /\ h = unlinked[header]
    OBVIOUS
  <2>3. unlinked \in [Nodes -> Connections \cup {NULL}] /\ h \in Connections \cup {NULL}
    BY <2>1, <2>2
  <2>4. /\ next' = [unlinked EXCEPT ![c] = h, ![header] = c]
        /\ previous' = [Assign(Assign(previous, next[c], previous[c]), h, c)
                          EXCEPT ![c] = header]
    BY <1>6, <2>0, <2>2 DEF Close, MoveToHead
  <2>5. Assign(Assign(previous, next[c], previous[c]), h, c) \in [Connections -> Nodes]
    <3>1. Assign(previous, next[c], previous[c]) \in [Connections -> Nodes]
      BY <2>1 DEF Assign
    <3> QED
      BY <2>1, <2>3, <3>1 DEF Assign
  <2>6. /\ next' \in [Nodes -> Connections \cup {NULL}]
        /\ previous' \in [Connections -> Nodes]
    BY <2>1, <2>3, <2>4, <2>5
  <2>7. requests' \in [Connections -> Seq(Workers \cup {Late, Cut})]
    BY <1>6, <2>0, <2>1, LateRequests DEF Close
  <2> QED
    BY <1>6, <2>0, <2>1, <2>6, <2>7 DEF Close
<1>7. ASSUME NEW w \in Workers, Fail(w) PROVE Typed'
  BY <1>7 DEF Fail
<1>8. ASSUME NEW c \in Connections, Answer(c) PROVE Typed'
  <2>1. requests[c] # <<>> /\ requests[c] \in Seq(Workers \cup {Late, Cut})
    BY <1>8 DEF Answer
  <2>2. /\ Head(requests[c]) \in Workers \cup {Late}
        /\ Tail(requests[c]) \in Seq(Workers \cup {Late, Cut})
    BY <1>8, <2>1, HeadTailProperties DEF Answer
  <2>3. Append(buffer[c], Head(requests[c])) \in Seq(Workers \cup {Late})
    BY <2>2
  <2> QED
    BY <1>8, <2>2, <2>3 DEF Answer
<1>10. ASSUME NEW c \in Connections, Swallow(c) PROVE Typed'
  <2>1. requests[c] \in Seq(Workers \cup {Late, Cut}) /\ buffer[c] \in Seq(Workers \cup {Late})
    OBVIOUS
  <2>2. PICK rest : rest = SubSeq(requests[c], 3, Len(requests[c]))
    OBVIOUS
  <2>3. rest \in Seq(Workers \cup {Late, Cut})
    BY <2>1, <2>2, SubSeqProperties
  <2>4. <<Cut>> \o rest \in Seq(Workers \cup {Late, Cut})
    BY <2>3
  <2>5. \A replies \in {<<>>, <<Late>>, <<Late, Late>>} :
          buffer[c] \o replies \in Seq(Workers \cup {Late})
    <3>1. {<<>>, <<Late>>, <<Late, Late>>} \subseteq Seq(Workers \cup {Late})
      OBVIOUS
    <3> QED
      BY <2>1, <3>1, ConcatProperties
  <2>6. requests' \in [Connections -> Seq(Workers \cup {Late, Cut})]
    BY <1>10, <2>2, <2>3, <2>4 DEF Swallow
  <2>7. buffer' \in [Connections -> Seq(Workers \cup {Late})]
    <3>1. PICK replies \in {<<>>, <<Late>>, <<Late, Late>>} :
            buffer' = [buffer EXCEPT ![c] = buffer[c] \o replies]
      BY <1>10 DEF Swallow
    <3>2. PICK b : b = buffer[c] \o replies
      OBVIOUS
    <3>3. b \in Seq(Workers \cup {Late})
      BY <2>5, <3>2, Zenon
    <3>4. buffer' = [buffer EXCEPT ![c] = b]
      BY <3>1, <3>2, Zenon
    <3> QED
      BY <3>3, <3>4
  <2> QED
    BY <1>10, <2>6, <2>7 DEF Swallow
<1>9. CASE UNCHANGED vars
  BY <1>9 DEF vars
<1> QED
  BY <1>1, <1>2, <1>3, <1>4, <1>5, <1>6, <1>7, <1>8, <1>9, <1>10 DEF Next

(* The list that the constructor makes has the types. *)
LEMMA InitTyped == Init => Typed
<1> SUFFICES ASSUME Init PROVE Typed
  OBVIOUS
<1>1. /\ next \in [Nodes -> Connections \cup {NULL}]
      /\ previous \in [Connections -> Nodes]
  BY ConstantsAssumption, NodesApart DEF Init, Nodes, Connections
<1>2. <<>> \in Seq(Workers \cup {Late}) /\ <<>> \in Seq(Workers \cup {Late, Cut})
  OBVIOUS
<1> QED
  BY <1>1, <1>2, NodesApart DEF Init, Typed, TypeOK, Unused

(* TypeOK of the run, for any number of connections and workers: no NULL link is
   followed blindly, and no command is executed on no connection. *)
THEOREM TypeCorrect == Spec => []TypeOK
<1>1. Typed => TypeOK
  BY DEF Typed
<1> QED
  BY <1>1, InitTyped, StepTyped, PTL DEF Spec

-----------------------------------------------------------------------------
(* Who is linked to a node knows it: previous leads back wherever next leads. *)
LinksAgree == \A n \in Nodes : next[n] # NULL => previous[next[n]] = n

(* Each step keeps the links in agreement, whatever is in the list. *)
LEMMA StepLinks == Typed /\ LinksAgree /\ [Next]_vars => LinksAgree'
<1> SUFFICES ASSUME Typed, LinksAgree, [Next]_vars PROVE LinksAgree'
  OBVIOUS
<1> USE NodesApart DEF Typed, listVars
<1>0. /\ next \in [Nodes -> Connections \cup {NULL}]
      /\ previous \in [Connections -> Nodes]
  BY DEF TypeOK
<1>1. ASSUME UNCHANGED <<next, previous>> PROVE LinksAgree'
  BY <1>1 DEF LinksAgree
<1>2. ASSUME NEW w \in Workers, Open(w) PROVE LinksAgree'
  <2>0. PICK q : q = next[header]
    OBVIOUS
  <2>1. CASE q # NULL /\ state[q] = "IDLE"
    <3>1. /\ q \in Connections /\ previous[q] = header
          /\ next' = [next EXCEPT ![header] = next[q], ![tail] = q, ![q] = NULL]
          /\ previous' = [Assign(previous, next[q], header) EXCEPT ![q] = tail]
      BY <1>0, <1>2, <2>0, <2>1 DEF Open, MoveToTail, LinksAgree
    <3> SUFFICES ASSUME NEW n \in Nodes, next'[n] # NULL PROVE previous'[next'[n]] = n
      BY DEF LinksAgree
    <3>2. \A c \in Connections :
            previous'[c] = IF c = q THEN tail ELSE IF c = next[q] THEN header ELSE previous[c]
      BY <1>0, <3>1 DEF Assign
    <3>3. n # q /\ next'[n] = IF n = tail THEN q ELSE IF n = header THEN next[q] ELSE next[n]
      BY <1>0, <3>1
    <3>4. CASE n = tail
      BY <3>1, <3>2, <3>3, <3>4
    <3>5. CASE n = header
      BY <1>0, <3>1, <3>2, <3>3, <3>5 DEF LinksAgree
    <3>6. CASE n # tail /\ n # header
      <4>1. next'[n] = next[n] /\ next[n] \in Connections /\ previous[next[n]] = n
        BY <1>0, <3>3, <3>6 DEF LinksAgree
      <4>2. next[n] # q /\ next[n] # next[q]
        BY <1>0, <3>1, <3>3, <3>6, <4>1 DEF LinksAgree
      <4> QED
        BY <3>2, <4>1, <4>2
    <3> QED
      BY <3>4, <3>5, <3>6
  <2>2. CASE ~(q # NULL /\ state[q] = "IDLE")
    BY <1>1, <1>2, <2>0, <2>2 DEF Open
  <2> QED
    BY <2>1, <2>2
<1>3. ASSUME NEW w \in Workers, Close(w) PROVE LinksAgree'
  <2>0. PICK c : c = connection[w]
    OBVIOUS
  <2>1. PICK p, unlinked, h :
          p = previous[c] /\ unlinked = [next EXCEPT ![p] = next[c]] /\ h = unlinked[header]
    OBVIOUS
  <2>2. /\ c \in Connections /\ p \in Nodes /\ h \in Connections \cup {NULL}
        /\ unlinked \in [Nodes -> Connections \cup {NULL}]
        /\ next' = [unlinked EXCEPT ![c] = h, ![header] = c]
        /\ previous' = [Assign(Assign(previous, next[c], p), h, c) EXCEPT ![c] = header]
    BY <1>0, <1>3, <2>0, <2>1 DEF Close, MoveToHead, TypeOK
  <2>3. \A d \in Connections :
          previous'[d] = IF d = c THEN header ELSE IF d = h THEN c
                         ELSE IF d = next[c] THEN p ELSE previous[d]
    BY <1>0, <2>2 DEF Assign
  <2>4. \A n \in Nodes : unlinked[n] = IF n = p THEN next[c] ELSE next[n]
    BY <1>0, <2>1
  <2>5. \A n \in Nodes : next'[n] = IF n = header THEN c ELSE IF n = c THEN h ELSE unlinked[n]
    BY <2>2
  <2> SUFFICES ASSUME NEW n \in Nodes, next'[n] # NULL PROVE previous'[next'[n]] = n
    BY DEF LinksAgree
  <2>6. CASE n = header
    BY <2>2, <2>3, <2>5, <2>6
  <2>7. CASE n = c
    <3>1. next'[n] = h /\ h \in Connections
      BY <2>2, <2>5, <2>7
    <3>2. h # c
      BY <1>0, <2>1, <2>2, <2>4, <3>1 DEF LinksAgree
    <3> QED
      BY <2>3, <2>7, <3>1, <3>2
  <2>8. CASE n # header /\ n # c
    <3>1. next'[n] = unlinked[n] /\ unlinked[n] \in Connections
      BY <2>2, <2>5, <2>8
    <3>2. CASE n = p
      <4>1. unlinked[n] = next[c] /\ previous[next[c]] = c
        BY <2>2, <2>4, <3>1, <3>2 DEF LinksAgree
      <4>2. next[c] # c
        BY <2>1, <2>8, <3>2, <4>1
      <4>3. h # next[c]
        BY <1>0, <2>1, <2>2, <2>4, <2>8, <3>1, <3>2, <4>1 DEF LinksAgree
      <4> QED
        BY <2>3, <3>1, <3>2, <4>1, <4>2, <4>3
    <3>3. CASE n # p
      <4>1. unlinked[n] = next[n] /\ previous[next[n]] = n
        BY <2>4, <3>1, <3>3 DEF LinksAgree
      <4>2. next[n] # c /\ next[n] # next[c]
        BY <2>1, <2>2, <2>8, <3>1, <3>3, <4>1 DEF LinksAgree
      <4>3. h # next[n]
        BY <1>0, <2>1, <2>2, <2>4, <2>8, <3>1, <4>1, <4>2 DEF LinksAgree
      <4> QED
        BY <2>3, <3>1, <4>1, <4>2, <4>3
    <3> QED
      BY <3>2, <3>3
  <2> QED
    BY <2>6, <2>7, <2>8
<1>4. ASSUME NEW w \in Workers,
             Write(w) \/ WriteFails(w) \/ Receive(w) \/ ReceiveFails(w) \/ Fail(w)
      PROVE  LinksAgree'
  BY <1>1, <1>4 DEF Write, WriteFails, Receive, ReceiveFails, Fail
<1>5. ASSUME NEW c \in Connections, Answer(c) \/ Swallow(c) PROVE LinksAgree'
  BY <1>1, <1>5 DEF Answer, Swallow
<1>6. CASE UNCHANGED vars
  BY <1>1, <1>6 DEF vars
<1> QED
  BY <1>2, <1>3, <1>4, <1>5, <1>6 DEF Next

(* The links of the list agree, for any number of connections and workers, even
   after all connections were taken at once: no two nodes have the same next, and
   previous leads back. *)
THEOREM LinksCorrect == Spec => []LinksAgree
<1>1. Init => LinksAgree
  BY ConstantsAssumption, NodesApart DEF Init, LinksAgree, Nodes, Connections
<1> QED
  BY <1>1, InitTyped, StepTyped, StepLinks, PTL DEF Spec

-----------------------------------------------------------------------------
(* next leads from the header through L, which has no connection twice, but does
   not have to end there. *)
Path(n, L) ==
  /\ n \in Nat /\ L \in [1..n -> Connections]
  /\ n # 0 => next[header] = L[1]
  /\ \A i \in 1..(n - 1) : next[L[i]] = L[i + 1]
  /\ \A i, j \in 1..n : L[i] = L[j] => i = j

(* No path visits all connections of this one and more. *)
Longest(n, L) ==
  /\ Path(n, L)
  /\ \A m, M : Path(m, M) => ~({L[i] : i \in 1..n} \subseteq {M[i] : i \in 1..m}
                               /\ {L[i] : i \in 1..n} # {M[i] : i \in 1..m})

(* Different connections are no more than there are. *)
LEMMA PathLength ==
  ASSUME NEW n \in Nat, NEW L \in [1..n -> Connections],
         \A i, j \in 1..n : L[i] = L[j] => i = j
  PROVE  n \in 0..CONNECTION_NUM
<1>1. 1 \in Int /\ CONNECTION_NUM \in Nat /\ n \in Int
  BY ConstantsAssumption
<1>2. /\ IsFiniteSet(Connections) /\ Cardinality(Connections) = CONNECTION_NUM
      /\ IsFiniteSet(1..n) /\ Cardinality(1..n) = n
  BY <1>1, FS_Interval DEF Connections
<1>3. ASSUME CONNECTION_NUM < n PROVE FALSE
  <2>1. \E i, j \in 1..n : i # j /\ L[i] = L[j]
    BY <1>2, <1>3, FS_PigeonHole
  <2> QED
    BY <2>1
<1> QED
  BY <1>1, <1>3

(* Of the sets of connections that a path leaves out, one has no subset among
   them: some path cannot be continued. *)
LEMMA PathEnds == \E n, L : Longest(n, L)
<1> DEFINE Left(n, L) == Connections \ {L[i] : i \in 1..n}
           T == {X \in SUBSET Connections : \E n, L : Path(n, L) /\ X = Left(n, L)}
<1>1. T \subseteq FiniteSubsetsOf(Connections)
  <2>1. IsFiniteSet(Connections)
    <3>1. 1 \in Int /\ CONNECTION_NUM \in Int
      BY ConstantsAssumption
    <3> QED
      BY <3>1, FS_Interval DEF Connections
  <2> QED
    BY <2>1, FS_Subset DEF FiniteSubsetsOf
<1>2. T # {}
  <2>1. PICK L : L = [i \in 1..0 |-> tail]
    OBVIOUS
  <2>2. Path(0, L)
    BY <2>1 DEF Path
  <2> QED
    BY <2>2
<1>3. PICK X \in T : \A Y \in T : <<Y, X>> \notin StrictSubsetOrdering(Connections)
  BY <1>1, <1>2, FS_StrictSubsetOrderingWellFounded, WFMin
<1>4. PICK n, L : Path(n, L) /\ X = Left(n, L)
  OBVIOUS
<1>5. ASSUME NEW m, NEW M, Path(m, M)
      PROVE  ~({L[i] : i \in 1..n} \subseteq {M[i] : i \in 1..m}
                 /\ {L[i] : i \in 1..n} # {M[i] : i \in 1..m})
  <2>1. Left(m, M) \in T
    BY <1>5
  <2>2. ~(Left(m, M) \subseteq X /\ Left(m, M) # X)
    BY <1>3, <2>1 DEF StrictSubsetOrdering
  <2>3. {L[i] : i \in 1..n} \subseteq Connections /\ {M[i] : i \in 1..m} \subseteq Connections
    BY <1>4, <1>5 DEF Path
  <2> QED
    BY <1>4, <2>2, <2>3
<1>6. Longest(n, L)
  <2>1. Path(n, L)
    BY <1>4
  <2> QED
    BY <1>5, <2>1 DEF Longest
<1> HIDE DEF Left, T
<1> QED
  BY <1>6

(* When links agree, previous leads back along a path. *)
LEMMA PathBack ==
  ASSUME LinksAgree, NEW n, NEW L, Path(n, L)
  PROVE  \A i \in 1..n : previous[L[i]] = IF i = 1 THEN header ELSE L[i - 1]
<1> USE NodesApart
<1> SUFFICES ASSUME NEW i \in 1..n PROVE previous[L[i]] = IF i = 1 THEN header ELSE L[i - 1]
  OBVIOUS
<1>1. n \in Nat /\ L \in [1..n -> Connections]
  BY DEF Path
<1>2. CASE i = 1
  BY <1>1, <1>2 DEF Path, LinksAgree
<1>3. CASE i # 1
  <2>1. i - 1 \in 1..(n - 1) /\ i - 1 \in 1..n /\ (i - 1) + 1 = i
    BY <1>1, <1>3
  <2>2. next[L[i - 1]] = L[i] /\ L[i - 1] \in Nodes /\ L[i] # NULL
    BY <1>1, <2>1 DEF Path
  <2> QED
    BY <1>3, <2>2 DEF LinksAgree
<1> QED
  BY <1>2, <1>3

(* Links that agree make a list: a path that next continues would come back to one
   of its connections, and previous leads from that one elsewhere. *)
LEMMA ListEnds == Typed /\ LinksAgree => WellLinked
<1> SUFFICES ASSUME Typed, LinksAgree PROVE WellLinked
  OBVIOUS
<1> USE NodesApart
<1>0. next \in [Nodes -> Connections \cup {NULL}]
  BY DEF Typed, TypeOK
<1>a. PICK n, L : Longest(n, L)
  BY PathEnds
<1>1. /\ Path(n, L)
      /\ \A m, M : Path(m, M) => ~({L[i] : i \in 1..n} \subseteq {M[i] : i \in 1..m}
                                   /\ {L[i] : i \in 1..n} # {M[i] : i \in 1..m})
  BY <1>a DEF Longest
<1>2. n \in 0..CONNECTION_NUM /\ n \in Nat /\ L \in [1..n -> Connections]
  BY <1>1, PathLength DEF Path
<1>3. \A i \in 1..n : previous[L[i]] = IF i = 1 THEN header ELSE L[i - 1]
  BY <1>1, PathBack
<1>4. PICK l : l = IF n = 0 THEN header ELSE L[n]
  OBVIOUS
<1>5. l \in Nodes
  BY <1>2, <1>4
<1>6. next[l] = NULL
  <2> SUFFICES ASSUME next[l] # NULL PROVE FALSE
    OBVIOUS
  <2>1. PICK e \in Connections : e = next[l] /\ previous[e] = l
    BY <1>0, <1>5 DEF LinksAgree
  <2>2. \A i \in 1..n : L[i] # e
    <3> SUFFICES ASSUME NEW i \in 1..n, L[i] = e PROVE FALSE
      OBVIOUS
    <3>1. l = L[n] /\ n \in 1..n
      BY <1>2, <1>4
    <3>2. CASE i = 1
      BY <1>2, <1>3, <2>1, <3>1, <3>2
    <3>3. CASE i # 1
      <4>1. L[i - 1] = L[n] /\ i - 1 \in 1..n /\ i - 1 # n
        BY <1>2, <1>3, <2>1, <3>1, <3>3
      <4> QED
        BY <1>1, <3>1, <4>1 DEF Path
    <3> QED
      BY <3>2, <3>3
  <2>3. PICK m, M : m = n + 1 /\ M = [i \in 1..m |-> IF i = m THEN e ELSE L[i]]
    OBVIOUS
  <2>4. /\ m \in Nat /\ m - 1 = n /\ m \in 1..m /\ M[m] = e
        /\ \A i \in 1..n : i \in 1..m /\ i # m /\ M[i] = L[i]
        /\ \A i \in 1..m : i = m \/ i \in 1..n
    BY <1>2, <2>3
  <2>5. Path(m, M)
    <3>1. M \in [1..m -> Connections]
      BY <1>2, <2>3, <2>4
    <3>2. next[header] = M[1]
      <4>1. CASE n = 0
        BY <1>4, <2>1, <2>3, <2>4, <4>1
      <4>2. CASE n # 0
        <5>1. 1 \in 1..n
          BY <1>2, <4>2
        <5> QED
          BY <1>1, <2>4, <4>2, <5>1 DEF Path
      <4> QED
        BY <4>1, <4>2
    <3>3. ASSUME NEW i \in 1..(m - 1) PROVE next[M[i]] = M[i + 1]
      <4>1. i \in 1..n /\ M[i] = L[i]
        BY <2>4
      <4>2. CASE i = n
        BY <1>2, <1>4, <2>1, <2>3, <2>4, <4>1, <4>2
      <4>3. CASE i # n
        <5>1. i \in 1..(n - 1) /\ i + 1 \in 1..n
          BY <1>2, <4>1, <4>3
        <5> QED
          BY <1>1, <2>4, <4>1, <5>1 DEF Path
      <4> QED
        BY <4>2, <4>3
    <3>4. ASSUME NEW i \in 1..m, NEW j \in 1..m, M[i] = M[j] PROVE i = j
      <4>1. CASE i = m
        BY <2>2, <2>4, <3>4, <4>1
      <4>2. CASE j = m
        BY <2>2, <2>4, <3>4, <4>2
      <4>3. CASE i # m /\ j # m
        <5>1. i \in 1..n /\ j \in 1..n /\ L[i] = L[j]
          BY <2>4, <3>4, <4>3
        <5> QED
          BY <1>1, <5>1 DEF Path
      <4> QED
        BY <4>1, <4>2, <4>3
    <3> QED
      BY <2>4, <3>1, <3>2, <3>3, <3>4 DEF Path
  <2>6. {L[i] : i \in 1..n} \subseteq {M[i] : i \in 1..m}
    BY <2>4
  <2>7. e \in {M[i] : i \in 1..m} /\ e \notin {L[i] : i \in 1..n}
    BY <2>2, <2>4
  <2> QED
    BY <1>1, <2>5, <2>6, <2>7
<1>7. IsList(n, L)
  <2>1. next[header] = IF n = 0 THEN NULL ELSE L[1]
    BY <1>1, <1>4, <1>6 DEF Path
  <2>2. ASSUME NEW i \in 1..n PROVE next[L[i]] = IF i = n THEN NULL ELSE L[i + 1]
    <3>1. CASE i = n
      BY <1>2, <1>4, <1>6, <3>1
    <3>2. CASE i # n
      <4>1. i \in 1..(n - 1)
        BY <1>2, <3>2
      <4> QED
        BY <1>1, <3>2, <4>1 DEF Path
    <3> QED
      BY <3>1, <3>2
  <2> QED
    BY <1>3, <2>1, <2>2 DEF IsList
<1> QED
  BY <1>2, <1>7 DEF WellLinked

(* What the run checks as WellLinked: for any number of connections and workers,
   even after all connections were taken at once, following next from the header
   ends, and previous leads back. *)
THEOREM ListCorrect == Spec => []WellLinked
<1>1. Init => LinksAgree
  BY ConstantsAssumption, NodesApart DEF Init, LinksAgree, Nodes, Connections
<1> QED
  BY <1>1, InitTyped, StepTyped, StepLinks, ListEnds, PTL DEF Spec

-----------------------------------------------------------------------------
(* L is the list of the idle connections: next leads from the header through all
   of them, each once, and tail, which nobody moves, is the last. *)
IsIdleList(L, n) ==
  /\ n \in Nat \ {0} /\ L \in [1..n -> Idle]
  /\ next[header] = L[1] /\ L[n] = tail
  /\ \A i \in 1..(n - 1) : next[L[i]] = L[i + 1]
  /\ \A i, j \in 1..n : L[i] = L[j] => i = j
  /\ \A c \in Idle : \E i \in 1..n : L[i] = c

IdleListed == \E n, L : IsIdleList(L, n)

(* A connection that is in use leads nowhere and hangs at the tail. *)
BusyLast == \A c \in Connections \ Idle : next[c] = NULL /\ previous[c] = tail

Exclusive == ~exhausted => IdleListed /\ BusyLast /\ RetrievesIdle

(* Taking the head, when it is not the only idle connection, takes it off the list
   and hangs it at the tail. *)
LEMMA OpenExclusive ==
  ASSUME Typed, Exclusive, NEW w \in Workers, Open(w), ~exhausted'
  PROVE  /\ Exclusive'
         /\ next[header] \in Idle /\ connection' = [connection EXCEPT ![w] = next[header]]
<1> USE NodesApart DEF Typed
<1>0. /\ next \in [Nodes -> Connections \cup {NULL}]
      /\ previous \in [Connections -> Nodes]
      /\ state \in [Connections -> {"IDLE", "TRANSFERING"}]
      /\ connection \in [Workers -> Connections \cup {NULL}]
  BY DEF TypeOK
<1>1. ~exhausted
  BY DEF Open, historyVars, TypeOK
<1>2. PICK n, L : IsIdleList(L, n)
  BY <1>1 DEF Exclusive, IdleListed
<1>3. PICK q : q = L[1]
  OBVIOUS
<1>4. /\ n \in Nat \ {0} /\ q \in Idle /\ q \in Connections /\ q = next[header]
      /\ q # NULL /\ state[q] = "IDLE"
  BY <1>2, <1>3 DEF IsIdleList, Idle
<1>5. /\ state' = [state EXCEPT ![q] = "TRANSFERING"]
      /\ next' = [next EXCEPT ![header] = next[q], ![tail] = q, ![q] = NULL]
      /\ previous' = [Assign(previous, next[q], header) EXCEPT ![q] = tail]
      /\ connection' = [connection EXCEPT ![w] = q]
      /\ Idle # {q}
  BY <1>4 DEF Open, MoveToTail
<1>6. Idle' = Idle \ {q}
  BY <1>0, <1>4, <1>5 DEF Idle
<1>7. n > 1 /\ tail # q
  <2>1. n # 1
    <3>1. ASSUME n = 1 PROVE Idle = {q}
      BY <1>2, <1>3, <1>4, <3>1 DEF IsIdleList
    <3> QED
      BY <1>5, <3>1
  <2> QED
    BY <1>2, <1>3, <1>4, <2>1 DEF IsIdleList
<1>8. next[q] = L[2] /\ L[2] \in Idle
  BY <1>2, <1>3, <1>7 DEF IsIdleList
<1>9. IdleListed'
  <2>1. PICK M, m : m = n - 1 /\ M = [i \in 1..m |-> L[i + 1]]
    OBVIOUS
  <2>2. m \in Nat \ {0} /\ \A i \in 1..m : i + 1 \in 1..n /\ M[i] = L[i + 1]
    BY <1>4, <1>7, <2>1
  <2>3. \A i \in 1..m : M[i] \in Idle'
    BY <1>2, <1>3, <1>4, <1>6, <2>2 DEF IsIdleList
  <2>4. M \in [1..m -> Idle']
    BY <2>1, <2>3
  <2>5. M[m] = tail /\ next'[header] = M[1]
    BY <1>0, <1>2, <1>4, <1>5, <1>7, <1>8, <2>1, <2>2 DEF IsIdleList
  <2>6. \A i \in 1..(m - 1) : next'[M[i]] = M[i + 1]
    <3> SUFFICES ASSUME NEW i \in 1..(m - 1) PROVE next'[M[i]] = M[i + 1]
      OBVIOUS
    <3>1. /\ M[i] = L[i + 1] /\ M[i + 1] = L[i + 2] /\ next[L[i + 1]] = L[i + 2]
          /\ i + 1 \in 1..n /\ i + 1 # n /\ i + 1 # 1
      BY <1>2, <1>4, <2>1, <2>2 DEF IsIdleList
    <3>2. L[i + 1] # L[n] /\ L[i + 1] # L[1] /\ L[i + 1] \in Connections
      BY <1>2, <1>4, <3>1 DEF IsIdleList, Idle
    <3>3. L[i + 1] # tail /\ L[i + 1] # q /\ L[i + 1] # header
      BY <1>2, <1>3, <3>2 DEF IsIdleList
    <3> QED
      BY <1>0, <1>5, <3>1, <3>2, <3>3
  <2>7. \A i, j \in 1..m : M[i] = M[j] => i = j
    BY <1>2, <1>4, <2>1, <2>2 DEF IsIdleList
  <2>8. \A c \in Idle' : \E i \in 1..m : M[i] = c
    <3> SUFFICES ASSUME NEW c \in Idle' PROVE \E i \in 1..m : M[i] = c
      OBVIOUS
    <3>1. PICK j \in 1..n : L[j] = c
      BY <1>2, <1>6 DEF IsIdleList
    <3>2. j - 1 \in 1..m
      <4>1. j # 1
        BY <1>3, <1>6, <3>1
      <4> QED
        BY <1>4, <2>1, <4>1
    <3> QED
      BY <2>2, <3>1, <3>2
  <2>9. IsIdleList(M, m)'
    BY <2>2, <2>4, <2>5, <2>6, <2>7, <2>8 DEF IsIdleList, tail
  <2> QED
    BY <2>9 DEF IdleListed
<1>10. BusyLast'
  <2> SUFFICES ASSUME NEW c \in Connections, c \notin Idle'
               PROVE  next'[c] = NULL /\ previous'[c] = tail
    BY DEF BusyLast, tail
  <2>1. CASE c = q
    BY <1>0, <1>4, <1>5, <2>1 DEF Assign
  <2>2. CASE c # q
    <3>1. c \notin Idle /\ next[c] = NULL /\ previous[c] = tail
      BY <1>1, <1>6, <2>2 DEF Exclusive, BusyLast
    <3>2. c # tail /\ c # next[q]
      BY <1>2, <1>4, <1>8, <3>1 DEF IsIdleList
    <3> QED
      BY <1>0, <1>4, <1>5, <2>2, <3>1, <3>2 DEF Assign
  <2> QED
    BY <2>1, <2>2
<1>11. RetrievesIdle'
  <2>1. \A v \in Workers : connection[v] # q
    BY <1>1, <1>4 DEF Exclusive, RetrievesIdle
  <2> QED
    BY <1>0, <1>1, <1>4, <1>5, <2>1 DEF Exclusive, RetrievesIdle
<1> QED
  BY <1>4, <1>5, <1>9, <1>10, <1>11 DEF Exclusive

(* Putting one back, which hangs at the tail, puts it at the head of the list. *)
LEMMA CloseExclusive ==
  ASSUME Typed, Exclusive, NEW w \in Workers, Close(w), ~exhausted
  PROVE  Exclusive'
<1> USE NodesApart DEF Typed
<1>0. /\ next \in [Nodes -> Connections \cup {NULL}]
      /\ previous \in [Connections -> Nodes]
      /\ state \in [Connections -> {"IDLE", "TRANSFERING"}]
      /\ connection \in [Workers -> Connections \cup {NULL}]
  BY DEF TypeOK
<1>1. PICK c : c = connection[w]
  OBVIOUS
<1>2. c \in Connections /\ c \notin Idle /\ next[c] = NULL /\ previous[c] = tail
  BY <1>0, <1>1 DEF Close, TypeOK, Exclusive, RetrievesIdle, BusyLast, Idle
<1>3. PICK n, L : IsIdleList(L, n)
  BY DEF Exclusive, IdleListed
<1>4. PICK h : h = L[1]
  OBVIOUS
<1>5. /\ n \in Nat \ {0} /\ h \in Idle /\ h \in Connections /\ h = next[header] /\ tail \in Idle
  BY <1>3, <1>4 DEF IsIdleList, Idle
<1>6. /\ state' = [state EXCEPT ![c] = "IDLE"]
      /\ next' = [[next EXCEPT ![tail] = NULL] EXCEPT ![c] = h, ![header] = c]
      /\ previous' = [[previous EXCEPT ![h] = c] EXCEPT ![c] = header]
      /\ connection' = [connection EXCEPT ![w] = NULL]
  <2>1. PICK unlinked : unlinked = [next EXCEPT ![tail] = NULL]
    OBVIOUS
  <2>2. unlinked[header] = h
    BY <1>0, <1>5, <2>1
  <2>3. MoveToHead(c) /\ state' = [state EXCEPT ![c] = "IDLE"]
        /\ connection' = [connection EXCEPT ![w] = NULL]
    BY <1>1 DEF Close
  <2>4. h # NULL
    BY <1>5
  <2> QED
    BY <1>2, <2>1, <2>2, <2>3, <2>4 DEF MoveToHead, Assign
<1>7. Idle' = Idle \cup {c}
  BY <1>0, <1>2, <1>6 DEF Idle
<1>8. IdleListed'
  <2>1. PICK M, m : m = n + 1 /\ M = [i \in 1..m |-> IF i = 1 THEN c ELSE L[i - 1]]
    OBVIOUS
  <2>2. /\ m \in Nat \ {0} /\ M[1] = c /\ 1 \in 1..m
        /\ \A i \in 2..m : i - 1 \in 1..n /\ M[i] = L[i - 1]
    BY <1>5, <2>1
  <2>3. M \in [1..m -> Idle']
    BY <1>3, <1>7, <2>1, <2>2 DEF IsIdleList
  <2>4. M[m] = tail /\ next'[header] = M[1]
    BY <1>0, <1>2, <1>3, <1>5, <1>6, <2>1, <2>2 DEF IsIdleList
  <2>5. \A i \in 1..(m - 1) : next'[M[i]] = M[i + 1]
    <3> SUFFICES ASSUME NEW i \in 1..(m - 1) PROVE next'[M[i]] = M[i + 1]
      OBVIOUS
    <3>1. CASE i = 1
      <4>1. i + 1 \in 2..m /\ (i + 1) - 1 = 1
        BY <1>5, <2>1, <3>1
      <4>2. M[i + 1] = h /\ M[i] = c
        BY <1>4, <2>2, <3>1, <4>1
      <4>3. next'[c] = h
        BY <1>0, <1>2, <1>6
      <4> QED
        BY <4>2, <4>3
    <3>2. CASE i # 1
      <4>1. /\ i - 1 \in 1..(n - 1) /\ M[i] = L[i - 1] /\ M[i + 1] = L[i]
            /\ next[L[i - 1]] = L[i] /\ L[i - 1] \in Idle /\ L[i - 1] # L[n]
        BY <1>3, <1>5, <2>1, <2>2, <3>2 DEF IsIdleList
      <4>2. L[i - 1] # tail /\ L[i - 1] # c /\ L[i - 1] # header /\ L[i - 1] \in Connections
        BY <1>2, <1>3, <4>1 DEF IsIdleList, Idle
      <4> QED
        BY <1>0, <1>6, <4>1, <4>2
    <3> QED
      BY <3>1, <3>2
  <2>6. \A i, j \in 1..m : M[i] = M[j] => i = j
    <3> SUFFICES ASSUME NEW i \in 1..m, NEW j \in 1..m, M[i] = M[j] PROVE i = j
      OBVIOUS
    <3>1. \A k \in 2..m : M[k] = L[k - 1] /\ M[k] # c
      BY <1>2, <1>3, <2>2 DEF IsIdleList
    <3>2. i \in 2..m /\ j \in 2..m => i - 1 = j - 1
      BY <1>3, <2>2, <3>1 DEF IsIdleList
    <3>3. M[1] = c /\ m \in Nat
      BY <2>2
    <3>4. CASE i = 1
      BY <3>1, <3>3, <3>4
    <3>5. CASE j = 1
      BY <3>1, <3>3, <3>5
    <3>6. CASE i # 1 /\ j # 1
      BY <3>2, <3>3, <3>6
    <3> QED
      BY <3>4, <3>5, <3>6
  <2>7. \A d \in Idle' : \E i \in 1..m : M[i] = d
    <3> SUFFICES ASSUME NEW d \in Idle, d # c PROVE \E i \in 1..m : M[i] = d
      BY <1>7, <2>2
    <3>1. PICK j \in 1..n : L[j] = d
      BY <1>3 DEF IsIdleList
    <3>2. j + 1 \in 2..m /\ (j + 1) - 1 = j
      BY <1>5, <2>1
    <3>3. M[j + 1] = L[j]
      BY <2>2, <3>2
    <3> QED
      BY <3>1, <3>2, <3>3
  <2>8. IsIdleList(M, m)'
    BY <2>2, <2>3, <2>4, <2>5, <2>6, <2>7 DEF IsIdleList, tail
  <2> QED
    BY <2>8 DEF IdleListed
<1>9. BusyLast'
  <2> SUFFICES ASSUME NEW d \in Connections, d \notin Idle'
               PROVE  next'[d] = NULL /\ previous'[d] = tail
    BY DEF BusyLast, tail
  <2>1. d # c /\ d # h /\ d # tail /\ next[d] = NULL /\ previous[d] = tail
    BY <1>5, <1>7 DEF Exclusive, BusyLast
  <2> QED
    BY <1>0, <1>6, <2>1
<1>10. RetrievesIdle'
  BY <1>0, <1>1, <1>2, <1>6 DEF Exclusive, RetrievesIdle
<1> QED
  BY <1>8, <1>9, <1>10 DEF Exclusive

(* Every step keeps the idle connections in the list, and workers apart. *)
LEMMA StepExclusive == Typed /\ Exclusive /\ [Next]_vars => Exclusive'
<1> SUFFICES ASSUME Typed, Exclusive, [Next]_vars PROVE Exclusive'
  OBVIOUS
<1> USE DEF listVars, historyVars
<1>1. ASSUME UNCHANGED <<listVars, connection, exhausted>> PROVE Exclusive'
  BY <1>1 DEF Exclusive, IdleListed, IsIdleList, Idle, BusyLast, RetrievesIdle
<1>2. ASSUME NEW w \in Workers, Open(w) PROVE Exclusive'
  BY <1>2, OpenExclusive DEF Exclusive
<1>3. ASSUME NEW w \in Workers, Close(w) PROVE Exclusive'
  BY <1>3, CloseExclusive DEF Close, Exclusive
<1>4. ASSUME NEW w \in Workers,
             Write(w) \/ WriteFails(w) \/ Receive(w) \/ ReceiveFails(w) \/ Fail(w)
      PROVE  Exclusive'
  BY <1>1, <1>4 DEF Write, WriteFails, Receive, ReceiveFails, Fail
<1>5. ASSUME NEW c \in Connections, Answer(c) \/ Swallow(c) PROVE Exclusive'
  BY <1>1, <1>5 DEF Answer, Swallow
<1>6. CASE UNCHANGED vars
  BY <1>1, <1>6 DEF vars
<1> QED
  BY <1>2, <1>3, <1>4, <1>5, <1>6 DEF Next

(* The constructor's list is one of idle connections. *)
LEMMA InitExclusive == Init => Exclusive
<1> SUFFICES ASSUME Init PROVE Exclusive
  OBVIOUS
<1>1. Idle = Connections /\ CONNECTION_NUM \in Nat \ {0}
  BY ConstantsAssumption DEF Init, Idle
<1>2. PICK L : L = [i \in 1..CONNECTION_NUM |-> i]
  OBVIOUS
<1>3. IsIdleList(L, CONNECTION_NUM)
  BY <1>1, <1>2, NodesApart DEF IsIdleList, Init, Connections, Nodes, tail
<1>4. BusyLast /\ RetrievesIdle
  BY <1>1 DEF BusyLast, RetrievesIdle, Init
<1> QED
  BY <1>3, <1>4 DEF Exclusive, IdleListed

(* As long as an idle connection is left whenever one is taken, the list holds the
   idle connections and ends with the one that tail points to. *)
THEOREM ExclusiveInv == Spec => [](Typed /\ Exclusive)
<1> QED
  BY InitTyped, StepTyped, InitExclusive, StepExclusive, PTL DEF Spec

(* What the run checks as ExclusiveUse: under that provision no two workers share
   a connection, and what a worker has is marked as in use, for any number of
   connections and workers. *)
THEOREM ExclusiveCorrect == Spec => []ExclusiveUse
<1>1. Exclusive => ExclusiveUse
  BY DEF Exclusive, ExclusiveUse
<1> QED
  BY <1>1, ExclusiveInv, PTL

(* The list of the links is the idle connections in their order and, after them,
   at most one that is in use: those hang at the tail and lead nowhere. *)
LEMMA IdleAhead == Typed /\ LinksAgree /\ Exclusive => IdleFirst
<1> SUFFICES ASSUME Typed, LinksAgree, Exclusive, ~exhausted PROVE IdleFirst
  BY DEF IdleFirst
<1> USE NodesApart
<1>1. PICK n, L : IsIdleList(L, n)
  BY DEF Exclusive, IdleListed
<1>2. n \in Nat \ {0} /\ L \in [1..n -> Connections] /\ \A i \in 1..n : L[i] \in Idle
  BY <1>1 DEF IsIdleList, Idle
<1>3. Path(n, L)
  BY <1>1, <1>2 DEF IsIdleList, Path
<1>4. \A i \in 1..n : previous[L[i]] = IF i = 1 THEN header ELSE L[i - 1]
  BY <1>3, PathBack
<1>5. /\ n \in 1..n /\ L[n] = tail /\ next[header] = L[1]
      /\ \A i \in 1..n : i # n => next[L[i]] = L[i + 1]
      /\ \A c \in Idle : \E i \in 1..n : L[i] = c
  BY <1>1, <1>2 DEF IsIdleList
<1>6. CASE next[tail] = NULL
  <2>1. IsList(n, L)
    BY <1>2, <1>4, <1>5, <1>6 DEF IsList
  <2>2. n \in 0..CONNECTION_NUM
    BY <1>2, <1>3, PathLength DEF Path
  <2>3. \A i, j \in 1..n : i < j /\ state[L[j]] = "IDLE" => state[L[i]] = "IDLE"
    BY <1>2 DEF Idle
  <2> QED
    BY <1>2, <1>5, <2>1, <2>2, <2>3 DEF IdleFirst
<1>7. CASE next[tail] # NULL
  <2>1. PICK x \in Connections : x = next[tail] /\ previous[x] = tail
    BY <1>7 DEF Typed, TypeOK, LinksAgree
  <2>2. \A i \in 1..n : L[i] # x
    <3> SUFFICES ASSUME NEW i \in 1..n, L[i] = x PROVE FALSE
      OBVIOUS
    <3>1. CASE i = 1
      BY <1>4, <2>1, <3>1
    <3>2. CASE i # 1
      <4>1. L[i - 1] = L[n] /\ i - 1 \in 1..n /\ i - 1 # n
        BY <1>2, <1>4, <1>5, <2>1, <3>2
      <4> QED
        BY <1>1, <1>5, <4>1 DEF IsIdleList
    <3> QED
      BY <3>1, <3>2
  <2>3. x \notin Idle /\ next[x] = NULL
    BY <1>5, <2>1, <2>2 DEF Exclusive, BusyLast
  <2>4. PICK m, M : m = n + 1 /\ M = [i \in 1..m |-> IF i = m THEN x ELSE L[i]]
    OBVIOUS
  <2>5. /\ m \in Nat /\ m # 0 /\ 1 \in 1..n /\ M[m] = x /\ M[1] = L[1]
        /\ \A i \in 1..n : i \in 1..m /\ i # m /\ M[i] = L[i]
        /\ \A i \in 1..m : i = m \/ i \in 1..n
        /\ M \in [1..m -> Connections]
    BY <1>2, <2>4
  <2>6. IsList(m, M)
    <3>1. ASSUME NEW i \in 1..m
          PROVE  /\ next[M[i]] = IF i = m THEN NULL ELSE M[i + 1]
                 /\ previous[M[i]] = IF i = 1 THEN header ELSE M[i - 1]
      <4>1. CASE i = m
        BY <1>2, <1>5, <2>1, <2>3, <2>4, <2>5, <4>1
      <4>2. CASE i = n
        BY <1>2, <1>4, <1>5, <2>1, <2>4, <2>5, <4>2
      <4>3. CASE i \in 1..n /\ i # n
        <5>1. i + 1 \in 1..n /\ i # m
          BY <1>2, <2>5, <4>3
        <5>2. i = 1 \/ i - 1 \in 1..n
          BY <1>2, <4>3
        <5> QED
          BY <1>4, <1>5, <2>5, <4>3, <5>1, <5>2
      <4> QED
        BY <2>5, <4>1, <4>2, <4>3
    <3> QED
      BY <1>5, <2>5, <3>1 DEF IsList
  <2>7. m \in 0..CONNECTION_NUM
    <3>1. \A i, j \in 1..m : M[i] = M[j] => i = j
      BY <1>1, <2>2, <2>5 DEF IsIdleList
    <3> QED
      BY <2>5, <3>1, PathLength
  <2>8. \A c \in Idle : \E i \in 1..m : M[i] = c
    BY <1>5, <2>5
  <2>9. \A i, j \in 1..m : i < j /\ state[M[j]] = "IDLE" => state[M[i]] = "IDLE"
    <3> SUFFICES ASSUME NEW i \in 1..m, NEW j \in 1..m, i < j PROVE state[M[i]] = "IDLE"
      OBVIOUS
    <3>1. i \in 1..n
      BY <1>2, <2>4
    <3> QED
      BY <1>2, <2>5, <3>1 DEF Idle
  <2> QED
    BY <2>5, <2>6, <2>7, <2>8, <2>9 DEF IdleFirst
<1> QED
  BY <1>6, <1>7

(* What the run checks as IdleFirst: as long as an idle connection is left whenever
   one is taken, all idle connections are in the list, before the busy ones, for any
   number of connections and workers. *)
THEOREM IdleFirstCorrect == Spec => []IdleFirst
<1>1. Init => LinksAgree
  BY ConstantsAssumption, NodesApart DEF Init, LinksAgree, Nodes, Connections
<1> QED
  BY <1>1, InitTyped, StepTyped, StepLinks, ExclusiveInv, IdleAhead, PTL DEF Spec

-----------------------------------------------------------------------------
(* What is on the wire of a connection that had nothing to be answered when w opened
   it: nothing yet, the request of w, or the reply to it. *)
Silent(c)      == requests[c] = <<>> /\ buffer[c] = <<>>
Asked(c, w)    == requests[c] = <<w>> /\ buffer[c] = <<>>
Replied(c, w)  == requests[c] = <<>> /\ buffer[c] = <<w>>

OwnWire(w) ==
  /\ pc[w] = "write" => Silent(connection[w])
  /\ pc[w] = "recv" => Asked(connection[w], w) \/ Replied(connection[w], w)
  /\ reply[w] \in {w, NULL}

(* Only workers that have read a reply, and go on to close, have one; only workers
   with a connection have a clean one. *)
NoneRead ==
  /\ \A w \in Workers : pc[w] # "close" => reply[w] = NULL
  /\ \A w \in clean : pc[w] \in {"write", "recv", "close"}

OwnWires == NoneRead /\ (~exhausted => \A w \in clean : OwnWire(w))

(* A worker that is not where the wire of c is used, and a worker of another
   connection, are not disturbed. *)
LEMMA OthersWire ==
  ASSUME Typed, OwnWires, ~exhausted, ~exhausted', NEW v \in clean, v \in Workers,
         \/ pc[v] \notin {"write", "recv"}
         \/ /\ requests'[connection[v]] = requests[connection[v]]
            /\ buffer'[connection[v]] = buffer[connection[v]],
         pc'[v] = pc[v], reply'[v] = reply[v], connection'[v] = connection[v]
  PROVE  OwnWire(v)'
BY DEF OwnWires, OwnWire, Silent, Asked, Replied

(* Each worker finds on its connection what it has written, or the reply to it. *)
LEMMA StepWires == Typed /\ Exclusive /\ OwnWires /\ [Next]_vars => OwnWires'
<1> SUFFICES ASSUME Typed, Exclusive, OwnWires, [Next]_vars PROVE OwnWires'
  OBVIOUS
<1> USE NodesApart DEF Typed, listVars, historyVars, Goto
<1>0. /\ requests \in [Connections -> Seq(Workers \cup {Late, Cut})]
      /\ buffer \in [Connections -> Seq(Workers \cup {Late})]
      /\ connection \in [Workers -> Connections \cup {NULL}]
      /\ pc \in [Workers -> {"start", "failed", "write", "recv", "close"}]
      /\ reply \in [Workers -> Workers \cup {Late, NULL}]
      /\ clean \subseteq Workers /\ exhausted \in BOOLEAN
      /\ NULL \notin Connections
      /\ \A w \in Workers : pc[w] \in {"write", "recv", "close"} => connection[w] \in Connections
  BY DEF TypeOK, Nodes
<1>1. ASSUME ~exhausted, NEW v \in Workers, NEW w \in Workers, v # w, connection[v] # NULL
      PROVE  connection[v] # connection[w]
  BY <1>1 DEF Exclusive, RetrievesIdle
<1>2. CASE UNCHANGED vars
  BY <1>2 DEF vars, OwnWires, NoneRead, OwnWire, Silent, Asked, Replied
<1>3. ASSUME NEW w \in Workers, Open(w) PROVE OwnWires'
  <2>0. PICK q : q = next[header]
    OBVIOUS
  <2>1. /\ pc[w] = "start" /\ connection' = [connection EXCEPT ![w] = q]
        /\ UNCHANGED <<requests, reply>>
        /\ \E l \in {"failed", "write"} : pc' = [pc EXCEPT ![w] = l]
        /\ ~exhausted' => ~exhausted
    BY <1>3, <2>0 DEF Open, AfterOpen
  <2>2. NoneRead'
    <3>1. w \notin clean
      BY <2>1 DEF OwnWires, NoneRead
    <3>2. CASE clean' = clean
      BY <1>0, <2>1, <3>1, <3>2 DEF OwnWires, NoneRead
    <3>3. CASE clean' # clean
      <4>1. clean' = clean \cup {w} /\ pc' = [pc EXCEPT ![w] = "write"]
        BY <1>3, <2>0, <3>3 DEF Open, AfterOpen
      <4> QED
        BY <1>0, <2>1, <4>1 DEF OwnWires, NoneRead
    <3> QED
      BY <3>2, <3>3
  <2>3. ASSUME ~exhausted', NEW v \in clean' PROVE OwnWire(v)'
    <3>1. ~exhausted /\ q \in Idle /\ q \in Connections
      BY <1>3, <2>0, <2>1, <2>3, OpenExclusive DEF Idle
    <3>2. /\ buffer' = [buffer EXCEPT ![q] = <<>>]
          /\ clean' = IF requests[q] = <<>> THEN clean \cup {w} ELSE clean
          /\ pc' = [pc EXCEPT ![w] = "write"]
      BY <1>3, <2>0, <3>1 DEF Open, ClearBuffer, AfterOpen, Idle
    <3>3. CASE v = w /\ requests[q] = <<>>
      <4>1. pc'[w] = "write" /\ connection'[w] = q /\ reply'[w] = NULL
        BY <1>0, <2>1, <3>2 DEF OwnWires, NoneRead
      <4>2. Silent(q)'
        BY <1>0, <2>1, <3>1, <3>2, <3>3 DEF Silent
      <4> QED
        BY <3>3, <4>1, <4>2 DEF OwnWire
    <3>4. CASE v # w
      <4>1. v \in clean /\ v \in Workers
        BY <1>0, <2>3, <3>2, <3>4
      <4>2. pc[v] \in {"write", "recv"} => connection[v] # q
        BY <1>0, <3>1, <4>1 DEF Exclusive, RetrievesIdle, Idle
      <4> QED
        BY <1>0, <2>1, <2>3, <3>1, <3>2, <3>4, <4>1, <4>2, OthersWire
    <3>5. CASE v = w /\ requests[q] # <<>>
      BY <2>1, <2>3, <3>2, <3>5 DEF OwnWires, NoneRead
    <3> QED
      BY <3>3, <3>4, <3>5
  <2> QED
    BY <2>2, <2>3 DEF OwnWires
<1>4. ASSUME NEW w \in Workers, NEW c, c = connection[w], c \in Connections,
             UNCHANGED <<connection, historyVars>>,
             \A d \in Connections \ {c} : requests'[d] = requests[d] /\ buffer'[d] = buffer[d],
             NEW l \in {"recv", "close"}, pc' = [pc EXCEPT ![w] = l],
             \A v \in Workers \ {w} : reply'[v] = reply[v],
             l = "recv" => reply'[w] = reply[w] /\ pc[w] = "write",
             pc[w] \in {"write", "recv"},
             ~exhausted /\ w \in clean => OwnWire(w)'
      PROVE  OwnWires'
  <2>1. NoneRead'
    BY <1>0, <1>4 DEF OwnWires, NoneRead
  <2>2. ASSUME ~exhausted', NEW v \in clean', v # w PROVE OwnWire(v)'
    <3>1. ~exhausted /\ v \in clean /\ v \in Workers
      BY <1>0, <1>4, <2>2
    <3>2. pc[v] \in {"write", "recv"} => connection[v] # c /\ connection[v] \in Connections
      BY <1>0, <1>1, <1>4, <2>2, <3>1
    <3> QED
      BY <1>0, <1>4, <2>2, <3>1, <3>2, OthersWire
  <2> QED
    BY <1>4, <2>1, <2>2 DEF OwnWires
<1>5. ASSUME NEW w \in Workers, Write(w) PROVE OwnWires'
  <2>0. PICK c : c = connection[w]
    OBVIOUS
  <2>1. /\ pc[w] = "write" /\ requests' = [requests EXCEPT ![c] = Append(requests[c], w)]
        /\ pc' = [pc EXCEPT ![w] = "recv"] /\ UNCHANGED <<buffer, connection, reply, historyVars>>
        /\ c \in Connections
    BY <1>0, <1>5, <2>0 DEF Write, Send
  <2>2. ASSUME ~exhausted, w \in clean PROVE OwnWire(w)'
    <3>1. Silent(c) /\ reply[w] \in {w, NULL}
      BY <2>0, <2>1, <2>2 DEF OwnWires, OwnWire
    <3>2. Append(<<>>, w) = <<w>>
      OBVIOUS
    <3>3. Asked(c, w)'
      BY <1>0, <2>1, <3>1, <3>2 DEF Silent, Asked
    <3> QED
      BY <1>0, <2>0, <2>1, <3>1, <3>3 DEF OwnWire
  <2> QED
    BY <1>0, <1>4, <2>0, <2>1, <2>2
<1>6. ASSUME NEW w \in Workers, WriteFails(w) PROVE OwnWires'
  <2>0. PICK c : c = connection[w]
    OBVIOUS
  <2>1. /\ pc[w] = "write" /\ pc' = [pc EXCEPT ![w] = "close"] /\ c \in Connections
        /\ UNCHANGED <<buffer, connection, reply, historyVars>>
        /\ requests' = requests \/ requests' = [requests EXCEPT ![c] = Append(requests[c], Cut)]
    BY <1>0, <1>6, <2>0 DEF WriteFails, Send
  <2>2. ASSUME ~exhausted, w \in clean PROVE OwnWire(w)'
    BY <1>0, <2>1, <2>2 DEF OwnWires, OwnWire
  <2>3. \A d \in Connections \ {c} : requests'[d] = requests[d]
    BY <1>0, <2>1
  <2> QED
    BY <1>0, <1>4, <2>0, <2>1, <2>2, <2>3
<1>7. ASSUME NEW w \in Workers, Receive(w) PROVE OwnWires'
  <2>0. PICK c : c = connection[w]
    OBVIOUS
  <2>1. /\ pc[w] = "recv" /\ buffer[c] # <<>> /\ pc' = [pc EXCEPT ![w] = "close"]
        /\ reply' = [reply EXCEPT ![w] = Head(buffer[c])] /\ c \in Connections
        /\ UNCHANGED <<requests, connection, historyVars>>
        /\ \E rest \in {Tail(buffer[c]), <<>>} : buffer' = [buffer EXCEPT ![c] = rest]
    BY <1>0, <1>7, <2>0 DEF Receive
  <2>2. ASSUME ~exhausted, w \in clean PROVE OwnWire(w)'
    <3>1. buffer[c] = <<w>>
      BY <2>0, <2>1, <2>2 DEF OwnWires, OwnWire, Asked, Replied
    <3>2. Head(<<w>>) = w
      OBVIOUS
    <3> QED
      BY <1>0, <2>1, <3>1, <3>2 DEF OwnWire
  <2>3. \A d \in Connections \ {c} : buffer'[d] = buffer[d]
    BY <1>0, <2>1
  <2>4. \A v \in Workers \ {w} : reply'[v] = reply[v]
    BY <1>0, <2>1
  <2> QED
    BY <1>0, <1>4, <2>0, <2>1, <2>2, <2>3, <2>4
<1>8. ASSUME NEW w \in Workers, ReceiveFails(w) PROVE OwnWires'
  <2>1. /\ pc[w] = "recv" /\ pc' = [pc EXCEPT ![w] = "close"] /\ connection[w] \in Connections
        /\ UNCHANGED <<requests, buffer, connection, reply, historyVars>>
    BY <1>0, <1>8 DEF ReceiveFails
  <2>2. ASSUME ~exhausted, w \in clean PROVE OwnWire(w)'
    BY <1>0, <2>1, <2>2 DEF OwnWires, OwnWire
  <2> QED
    BY <1>0, <1>4, <2>1, <2>2
<1>9. ASSUME NEW w \in Workers, Close(w) PROVE OwnWires'
  <2>0. PICK c : c = connection[w]
    OBVIOUS
  <2>1. /\ pc[w] = "close" /\ pc' = [pc EXCEPT ![w] = "start"] /\ c \in Connections
        /\ buffer' = [buffer EXCEPT ![c] = <<>>]
        /\ requests' = [requests EXCEPT ![c] = ReplaceAll(requests[c], w, Late)]
        /\ connection' = [connection EXCEPT ![w] = NULL]
        /\ reply' = [reply EXCEPT ![w] = NULL]
        /\ clean' = clean \ {w} /\ exhausted' = exhausted
    BY <1>0, <1>9, <2>0 DEF Close, ClearBuffer
  <2>2. NoneRead'
    BY <1>0, <2>1 DEF OwnWires, NoneRead
  <2>3. ASSUME ~exhausted', NEW v \in clean' PROVE OwnWire(v)'
    <3>1. v \in clean /\ v # w /\ v \in Workers /\ ~exhausted
      BY <1>0, <2>1, <2>3
    <3>2. pc[v] \in {"write", "recv"} => connection[v] # c /\ connection[v] \in Connections
      BY <1>0, <1>1, <2>0, <3>1
    <3> QED
      BY <1>0, <2>1, <2>3, <3>1, <3>2, OthersWire
  <2> QED
    BY <2>2, <2>3 DEF OwnWires
<1>10. ASSUME NEW w \in Workers, Fail(w) PROVE OwnWires'
  <2>1. /\ pc[w] = "failed" /\ pc' = [pc EXCEPT ![w] = "start"]
        /\ UNCHANGED <<requests, buffer, connection, reply, historyVars>>
    BY <1>10 DEF Fail
  <2> QED
    BY <1>0, <2>1 DEF OwnWires, NoneRead, OwnWire, Silent, Asked, Replied
<1>11. ASSUME NEW c \in Connections, Answer(c) \/ Swallow(c) PROVE OwnWires'
  <2>1. /\ UNCHANGED <<connection, pc, reply, historyVars>>
        /\ \A d \in Connections \ {c} : requests'[d] = requests[d] /\ buffer'[d] = buffer[d]
    <3>1. CASE Answer(c)
      BY <1>0, <3>1 DEF Answer
    <3>2. CASE Swallow(c)
      <4>1. /\ UNCHANGED <<connection, pc, reply, historyVars>>
            /\ \E left : requests' = [requests EXCEPT ![c] = left]
            /\ \E replies : buffer' = [buffer EXCEPT ![c] = buffer[c] \o replies]
        BY <3>2 DEF Swallow
      <4> QED
        BY <1>0, <4>1
    <3> QED
      BY <1>11, <3>1, <3>2
  <2>2. NoneRead'
    BY <2>1 DEF OwnWires, NoneRead
  <2>3. ASSUME ~exhausted', NEW v \in clean' PROVE OwnWire(v)'
    <3>0. v \in clean /\ v \in Workers /\ ~exhausted /\ OwnWire(v)
      BY <1>0, <2>1, <2>3 DEF OwnWires
    <3>1. CASE connection[v] # c \/ pc[v] \notin {"write", "recv"}
      BY <1>0, <2>1, <2>3, <3>0, <3>1, OthersWire
    <3>2. CASE connection[v] = c /\ pc[v] \in {"write", "recv"}
      <4>1. requests[c] \in {<<>>, <<v>>}
        BY <3>0, <3>2 DEF OwnWire, Silent, Asked, Replied
      <4>2. Head(<<v>>) = v /\ Len(<<v>>) = 1 /\ Len(<<>>) = 0
        OBVIOUS
      <4>3. ~Swallow(c)
        BY <4>1, <4>2 DEF Swallow
      <4>4. /\ requests[c] # <<>> /\ requests' = [requests EXCEPT ![c] = Tail(requests[c])]
            /\ buffer' = [buffer EXCEPT ![c] = Append(buffer[c], Head(requests[c]))]
        BY <1>11, <4>3 DEF Answer
      <4>5. pc[v] = "recv" /\ Asked(c, v)
        BY <3>0, <3>2, <4>4 DEF OwnWire, Silent, Asked, Replied
      <4>6. Tail(<<v>>) = <<>> /\ Append(<<>>, v) = <<v>>
        OBVIOUS
      <4>7. Replied(c, v)'
        BY <1>0, <4>2, <4>4, <4>5, <4>6 DEF Asked, Replied
      <4> QED
        BY <2>1, <3>0, <3>2, <4>5, <4>7 DEF OwnWire
    <3> QED
      BY <3>1, <3>2
  <2> QED
    BY <2>2, <2>3 DEF OwnWires
<1> QED
  BY <1>2, <1>3, <1>5, <1>6, <1>7, <1>8, <1>9, <1>10, <1>11 DEF Next

(* Nobody has read anything at first. *)
LEMMA InitWires == Init => OwnWires
BY DEF Init, OwnWires, NoneRead

(* What the run checks as OwnReply: as long as an idle connection is left whenever one
   is taken, a worker whose connection had nothing to be answered when it opened it
   reads no reply but that to its own command, for any number of connections and
   workers, although commands that failed leave replies and cut-off requests on the
   connections.  Of a connection with a request left to be answered it says nothing. *)
THEOREM OwnReplyCorrect == Spec => []OwnReply
<1>1. OwnWires => OwnReply
  BY DEF OwnWires, OwnWire, OwnReply
<1> QED
  BY <1>1, ExclusiveInv, InitWires, StepWires, PTL DEF Spec
=============================================================================
