-------------------------- MODULE ReplicationProofs --------------------------
(***************************************************************************)
(* Proofs about Replication: what the quorums of the router guarantee, for *)
(* any number of servers, calls and losses, and that its calls are quorum  *)
(* calls.                                                                  *)
(***************************************************************************)
EXTENDS Replication, FiniteSetTheorems, TLAPS

(* The calls are numbered in the order they are made; only the last one may be
   pending, and the ones to come have left nothing anywhere. *)
Numbered ==
  \A c \in Calls :
    /\ c > call <=> op[c] = "none"
    /\ c > call <=> status[c] = "unborn"
    /\ c < call => status[c] # "pending"
    /\ c > call => tasks[c] = {} /\ acked[c] = {} /\ ~settled[c]

(* A server whose answer was counted has no task of the call left, and a call
   that succeeded has counted enough of them. *)
Tallied ==
  \A c \in Calls :
    /\ tasks[c] \cap acked[c] = {}
    /\ status[c] \in {"ok", "no"} => Enough(c)

(* The mutations before a settled call have no tasks, then and ever after. *)
OldersDone ==
  \A c \in Calls : settled[c] =>
    \A d \in 1..(c - 1) : op[d] \in Mutations => tasks[d] = {}

Typed == TypeOK /\ Numbered /\ Tallied /\ OldersDone

-----------------------------------------------------------------------------
(* What a command leaves of a store is a store. *)
LEMMA EffectType ==
  ASSUME NEW c \in Calls, NEW s \in [blob : 0..MaxCalls, mark : BOOLEAN]
  PROVE  Effect(c, s) \in [blob : 0..MaxCalls, mark : BOOLEAN]
<1> USE ConstantsAssumption DEF Calls
<1>1. /\ c \in 0..MaxCalls /\ 0 \in 0..MaxCalls
      /\ s.blob \in 0..MaxCalls /\ s.mark \in BOOLEAN
  OBVIOUS
<1> QED
  BY <1>1 DEF Effect

(* Only a mutation changes a store, and the second time it changes nothing. *)
LEMMA EffectTwice ==
  ASSUME NEW c \in Calls, NEW s \in [blob : 0..MaxCalls, mark : BOOLEAN]
  PROVE  /\ Effect(c, Effect(c, s)) = Effect(c, s)
         /\ op[c] \notin Mutations => Effect(c, s) = s
<1> USE ConstantsAssumption DEF Calls
<1>1. op[c] \notin Mutations => Effect(c, s) = s
  BY DEF Effect, Mutations
<1>2. Effect(c, Effect(c, s)) = Effect(c, s)
  <2>1. CASE op[c] = "saveBlob"
    BY <2>1 DEF Effect
  <2>2. CASE op[c] = "createBucket"
    BY <2>2 DEF Effect
  <2>3. CASE op[c] = "deleteBlob"
    BY <2>3 DEF Effect
  <2>4. CASE op[c] = "deleteBucket"
    BY <2>4 DEF Effect
  <2>5. CASE op[c] \notin Mutations
    BY <1>1, <2>5
  <2> QED
    BY <2>1, <2>2, <2>3, <2>4, <2>5 DEF Mutations
<1> QED
  BY <1>1, <1>2

(* A reply is a blob's name or a number of the program. *)
LEMMA ReplyType ==
  ASSUME NEW c \in Calls, NEW s \in [blob : 0..MaxCalls, mark : BOOLEAN]
  PROVE  Reply(c, s) \in 0..MaxCalls
BY ConstantsAssumption DEF Calls, Reply

(* A threshold is a number of replicas. *)
LEMMA ThresholdType ==
  ASSUME NEW o \in Operations
  PROVE  Threshold(o) \in Servers
BY ConstantsAssumption DEF Threshold, Servers, Mutations, Tests

(* What one command at a server, counted or lost, does to the tasks and the
   stores. *)
LEMMA TaskEffect ==
  ASSUME TypeOK, NEW c \in Calls, NEW s \in Servers, Apply(c, s) \/ Lose(c, s)
  PROVE  /\ s \in tasks[c]
         /\ tasks' = [tasks EXCEPT ![c] = @ \ {s}]
         /\ \A t \in Servers \ {s} : store'[t] = store[t]
         /\ store'[s] \in {store[s], Effect(c, store[s])}
         /\ store' \in [Servers -> [blob : 0..MaxCalls, mark : BOOLEAN]]
         /\ UNCHANGED <<call, op, status, result, settled>>
<1>1. store[s] \in [blob : 0..MaxCalls, mark : BOOLEAN]
  BY DEF TypeOK
<1>2. Effect(c, store[s]) \in [blob : 0..MaxCalls, mark : BOOLEAN]
  BY <1>1, EffectType
<1>3. store' \in {store, [store EXCEPT ![s] = Effect(c, store[s])]}
  BY DEF Apply, Lose
<1>4. /\ \A t \in Servers \ {s} : store'[t] = store[t]
      /\ store'[s] \in {store[s], Effect(c, store[s])}
      /\ store' \in [Servers -> [blob : 0..MaxCalls, mark : BOOLEAN]]
  BY <1>2, <1>3 DEF TypeOK
<1> QED
  BY <1>4 DEF Apply, Lose, TypeOK

(* Which answers a command at a server adds: none, or its own to a call that
   waits for it. *)
LEMMA AnswerEffect ==
  ASSUME TypeOK, NEW c \in Calls, NEW s \in Servers, Apply(c, s) \/ Lose(c, s)
  PROVE  \/ UNCHANGED <<acked, reply>>
         \/ /\ c = call /\ status[c] = "pending"
            /\ acked' = [acked EXCEPT ![c] = @ \cup {s}]
            /\ reply' = [reply EXCEPT ![s] = Reply(c, store[s])]
            /\ store'[s] = Effect(c, store[s])
BY DEF Apply, Lose, TypeOK

(* Types are kept, by every action. *)
LEMMA StepType == TypeOK /\ [Next]_vars => TypeOK'
<1> SUFFICES ASSUME TypeOK, [Next]_vars PROVE TypeOK'
  OBVIOUS
<1> USE ConstantsAssumption
<1>1. ASSUME NEW o \in Operations, NEW n \in Servers, Issue(o, n) PROVE TypeOK'
  BY <1>1, SMTT(30) DEF Issue, TypeOK, Servers, Calls
<1>2. ASSUME NEW c \in Calls, NEW s \in Servers, Apply(c, s) \/ Lose(c, s) PROVE TypeOK'
  <2>1. tasks' \in [Calls -> SUBSET Servers]
    BY <1>2, TaskEffect DEF TypeOK
  <2>2. Reply(c, store[s]) \in 0..MaxCalls
    BY ReplyType DEF TypeOK
  <2>3. /\ acked' \in [Calls -> SUBSET Servers]
        /\ reply' \in [Servers -> 0..MaxCalls]
    BY <1>2, <2>2, AnswerEffect DEF TypeOK
  <2> QED
    BY <1>2, <2>1, <2>3, TaskEffect DEF TypeOK
<1>3. CASE Return
  <2>1. call \in Calls
    BY <1>3 DEF Return, TypeOK, Calls
  <2>2. Answers \subseteq 0..MaxCalls
    BY <2>1 DEF Answers, TypeOK
  <2> QED
    BY <1>3, <2>1, <2>2 DEF Return, TypeOK
<1>4. CASE ReturnFailed
  <2>1. status' \in [Calls -> {"unborn", "pending", "ok", "no", "failed"}]
    BY <1>4 DEF ReturnFailed, TypeOK
  <2>2. reply' \in [Servers -> 0..MaxCalls]
    BY <1>4 DEF ReturnFailed
  <2> QED
    BY <1>4, <2>1, <2>2 DEF ReturnFailed, TypeOK
<1>5. CASE UNCHANGED vars
  BY <1>5 DEF vars, TypeOK
<1> QED
  BY <1>1, <1>2, <1>3, <1>4, <1>5 DEF Next

(* The order of the calls, their counts and what settled means are kept. *)
LEMMA StepTyped == Typed /\ [Next]_vars => Typed'
<1> SUFFICES ASSUME Typed, [Next]_vars PROVE Typed'
  OBVIOUS
<1> USE ConstantsAssumption DEF Typed
<1>0. TypeOK'
  BY StepType
<1>1. ASSUME NEW o \in Operations, NEW n \in Servers, Issue(o, n) PROVE Typed'
  <2>0. PICK c : c = call + 1
    OBVIOUS
  <2>1. /\ c \in Calls /\ call \in 0..MaxCalls /\ call' = c
        /\ op' = [op EXCEPT ![c] = o] /\ o # "none"
        /\ status' = [status EXCEPT ![c] = "pending"]
        /\ tasks' = [tasks EXCEPT ![c] = 1..n]
        /\ settled' = [settled EXCEPT ![c] =
             \A d \in 1..call : op[d] \in Mutations => tasks[d] = {}]
        /\ acked' = acked /\ acked[c] = {}
        /\ call > 0 => status[call] # "pending"
    BY <1>1, <2>0 DEF Issue, TypeOK, Numbered, Calls, Mutations, Tests
  <2>2. Numbered'
    BY <2>0, <2>1 DEF Numbered, TypeOK, Calls
  <2>3. Tallied'
    BY <2>0, <2>1 DEF Tallied, TypeOK, Enough
  <2>4. OldersDone'
    <3> SUFFICES ASSUME NEW e \in Calls, settled'[e],
                        NEW d \in 1..(e - 1), op'[d] \in Mutations
                 PROVE  tasks'[d] = {}
      BY DEF OldersDone
    <3>1. e <= c /\ d < c /\ d \in Calls
      BY <2>0, <2>1, e > c => e > call DEF Numbered, TypeOK, Calls
    <3>2. op[d] = op'[d] /\ tasks'[d] = tasks[d]
      BY <2>1, <3>1 DEF TypeOK
    <3>3. CASE e = c
      BY <2>0, <2>1, <3>1, <3>2, <3>3 DEF TypeOK
    <3>4. CASE e # c
      BY <2>1, <3>2, <3>4 DEF OldersDone, TypeOK
    <3> QED
      BY <3>3, <3>4
  <2> QED
    BY <1>0, <2>2, <2>3, <2>4
<1>2. ASSUME NEW c \in Calls, NEW s \in Servers, Apply(c, s) \/ Lose(c, s) PROVE Typed'
  <2>1. /\ s \in tasks[c] /\ tasks' = [tasks EXCEPT ![c] = @ \ {s}]
        /\ UNCHANGED <<call, op, status, settled>>
    BY <1>2, TaskEffect
  <2>2. acked' \in {acked, [acked EXCEPT ![c] = @ \cup {s}]} /\ c <= call
    BY <1>2, <2>1, AnswerEffect DEF Numbered, TypeOK, Calls
  <2>3. Numbered'
    BY <2>1, <2>2 DEF Numbered, TypeOK, Calls
  <2>4. Tallied'
    <3>1. \A d \in Calls : tasks'[d] \cap acked'[d] = {}
      BY <2>1, <2>2 DEF Tallied, TypeOK
    <3>2. ASSUME NEW d \in Calls, status[d] \in {"ok", "no"} PROVE acked'[d] = acked[d]
      BY <1>2, <3>2, AnswerEffect DEF TypeOK
    <3> QED
      BY <2>1, <3>1, <3>2 DEF Tallied, Enough
  <2>5. OldersDone'
    BY <2>1 DEF OldersDone, TypeOK, Calls
  <2> QED
    BY <1>0, <2>3, <2>4, <2>5
<1>3. CASE Return
  <2>0. PICK v \in {"no", "ok"} :
          v = IF op[call] \in Tests /\ Answers = {0} THEN "no" ELSE "ok"
    OBVIOUS
  <2>1. /\ call \in Calls /\ Enough(call) /\ status[call] = "pending"
        /\ UNCHANGED <<call, op, tasks, acked, settled>>
        /\ status' = [status EXCEPT ![call] = v]
    BY <1>3, <2>0 DEF Return, TypeOK, Calls
  <2> QED
    BY <1>0, <2>0, <2>1 DEF Numbered, Tallied, OldersDone, TypeOK, Calls, Enough
<1>4. CASE ReturnFailed
  <2>1. /\ call \in Calls /\ status[call] = "pending"
        /\ UNCHANGED <<call, op, tasks, acked, settled>>
        /\ status' = [status EXCEPT ![call] = "failed"]
    BY <1>4 DEF ReturnFailed, TypeOK, Calls
  <2> QED
    BY <1>0, <2>1 DEF Numbered, Tallied, OldersDone, TypeOK, Calls, Enough
<1>5. CASE UNCHANGED vars
  BY <1>0, <1>5 DEF vars, Numbered, Tallied, OldersDone, Enough
<1> QED
  BY <1>1, <1>2, <1>3, <1>4, <1>5 DEF Next

(* They hold before the first call. *)
LEMMA InitTyped == Init => Typed
BY ConstantsAssumption DEF Init, Typed, TypeOK, Numbered, Tallied, OldersDone, Servers, Calls

(* The types, the order of the calls and their counts, for any number of
   servers and calls. *)
THEOREM TypedInv == Spec => []Typed
<1> QED
  BY InitTyped, StepTyped, PTL DEF Spec

(* TypeOK of the runs: what the servers hold, what the calls are and what they
   return keep their types. *)
THEOREM TypeCorrect == Spec => []TypeOK
<1>1. Typed => TypeOK
  BY DEF Typed
<1> QED
  BY <1>1, TypedInv, PTL

-----------------------------------------------------------------------------
(* c is the last mutation, and it was settled. *)
Latest(c) ==
  /\ c <= call /\ op[c] \in Mutations /\ settled[c]
  /\ \A d \in (c + 1)..call : op[d] \notin Mutations

(* A server whose answer to it was counted shows its effect. *)
Applied ==
  \A c \in Calls : Latest(c) => \A s \in acked[c] : Effect(c, store[s]) = store[s]

(* What such a server answered to a later query is what it still would. *)
Answered ==
  \A c \in Calls : Latest(c) /\ c < call /\ status[call] = "pending" =>
    \A s \in acked[c] \cap acked[call] : reply[s] = Reply(call, store[s])

(* c is a save that was settled, and nothing is deleted since. *)
Undeleted(c) ==
  /\ c <= call /\ op[c] = "saveBlob" /\ settled[c]
  /\ \A d \in (c + 1)..call : op[d] \notin {"deleteBlob", "deleteBucket"}

(* A server whose answer to it was counted holds its blob or a later one. *)
Kept == \A c \in Calls : Undeleted(c) => \A s \in acked[c] : store[s].blob >= c

Copies == Applied /\ Answered /\ Kept

(* A mutation that is executed after one that was settled was issued after it,
   or is the same. *)
LEMMA LaterTask ==
  ASSUME Typed, NEW c \in Calls, NEW s \in Servers, Apply(c, s) \/ Lose(c, s),
         NEW e \in Calls, settled[e]
  PROVE  /\ op[c] \in Mutations => c >= e
         /\ c = e => s \notin acked[e]
         /\ c <= call
<1>1. s \in tasks[c]
  BY TaskEffect DEF Typed
<1>2. c <= call
  BY <1>1 DEF Typed, Numbered, TypeOK, Calls
<1> QED
  BY <1>1, <1>2, ConstantsAssumption DEF Typed, OldersDone, Tallied, Calls

(* The answers that were counted stay good: no command that comes later undoes
   the last mutation at the servers that answered. *)
LEMMA StepCopies == Typed /\ Copies /\ [Next]_vars => Copies'
<1> SUFFICES ASSUME Typed, Copies, [Next]_vars PROVE Copies'
  OBVIOUS
<1> USE ConstantsAssumption DEF Typed
<1>1. ASSUME NEW o \in Operations, NEW n \in Servers, Issue(o, n) PROVE Copies'
  <2>0. PICK c : c = call + 1
    OBVIOUS
  <2>1. /\ c \in Calls /\ call \in 0..MaxCalls /\ call' = c /\ acked[c] = {}
        /\ op' = [op EXCEPT ![c] = o] /\ status' = [status EXCEPT ![c] = "pending"]
        /\ UNCHANGED <<store, acked>>
    BY <1>1, <2>0 DEF Issue, TypeOK, Numbered, Calls
  <2>2. \A e \in Calls \ {c} : settled'[e] = settled[e]
    <3>1. PICK b : b = \A d \in 1..call : op[d] \in Mutations => tasks[d] = {}
      OBVIOUS
    <3>2. settled' = [settled EXCEPT ![c] = b]
      BY <1>1, <2>0, <3>1 DEF Issue
    <3> QED
      BY <3>2 DEF TypeOK
  <2>3. \A e \in Calls : e <= call => op'[e] = op[e]
    BY <2>0, <2>1 DEF TypeOK
  <2>4. \A e \in Calls : (Latest(e)' => e = c \/ Latest(e))
                         /\ (Undeleted(e)' => e = c \/ Undeleted(e))
    BY <2>0, <2>1, <2>2, <2>3 DEF Latest, Undeleted, Calls
  <2>5. Applied'
    <3> SUFFICES ASSUME NEW e \in Calls, Latest(e)', NEW s \in acked[e]
                 PROVE  (Effect(e, store[s]) = store[s])'
      BY <2>1 DEF Applied
    <3>1. Latest(e) /\ e # c
      BY <2>1, <2>4
    <3>2. Effect(e, store[s]) = store[s] /\ op'[e] = op[e]
      BY <2>3, <3>1 DEF Copies, Applied, Latest
    <3> QED
      BY <2>1, <3>2 DEF Effect
  <2>6. Answered'
    BY <2>1 DEF Answered
  <2>7. Kept'
    BY <2>1, <2>4 DEF Copies, Kept
  <2> QED
    BY <2>5, <2>6, <2>7 DEF Copies
<1>2. ASSUME NEW c \in Calls, NEW s \in Servers, Apply(c, s) \/ Lose(c, s) PROVE Copies'
  <2>1. /\ s \in tasks[c] /\ s \in Servers
        /\ \A t \in Servers \ {s} : store'[t] = store[t]
        /\ store'[s] \in {store[s], Effect(c, store[s])}
        /\ store' \in [Servers -> [blob : 0..MaxCalls, mark : BOOLEAN]]
        /\ UNCHANGED <<call, op, status, settled>>
    BY <1>2, TaskEffect
  <2>2. /\ store \in [Servers -> [blob : 0..MaxCalls, mark : BOOLEAN]]
        /\ acked \in [Calls -> SUBSET Servers]
        /\ reply \in [Servers -> 0..MaxCalls]
    BY DEF TypeOK
  <2>3. op[c] \notin Mutations => store'[s] = store[s]
    BY <2>1, <2>2, EffectTwice
  <2>4. \A e \in Calls : acked'[e] = acked[e] \/ (e = c /\ acked'[e] = acked[e] \cup {s}
                                                  /\ store'[s] = Effect(c, store[s]))
    BY <1>2, <2>2, AnswerEffect
  <2>5. \A e \in Calls : (Latest(e)' <=> Latest(e)) /\ (Undeleted(e)' <=> Undeleted(e))
    BY <2>1 DEF Latest, Undeleted
  <2>6. Applied'
    <3> SUFFICES ASSUME NEW e \in Calls, Latest(e), NEW t \in acked'[e]
                 PROVE  (Effect(e, store[t]) = store[t])'
      BY <2>5 DEF Applied
    <3>1. /\ op[c] \in Mutations => c = e
          /\ c = e => s \notin acked[e]
      BY <1>2, LaterTask DEF Latest, Calls
    <3>2. Effect(e, store'[t]) = store'[t]
      <4>1. CASE t \in acked[e]
        <5>1. t \in Servers /\ Effect(e, store[t]) = store[t]
          BY <2>2, <4>1 DEF Copies, Applied
        <5>2. store'[t] = store[t]
          BY <2>1, <2>3, <3>1, <4>1, <5>1
        <5> QED
          BY <5>1, <5>2
      <4>2. CASE t \notin acked[e]
        <5>1. e = c /\ t = s /\ store'[s] = Effect(c, store[s])
          BY <2>4, <4>2
        <5> QED
          BY <2>2, <5>1, EffectTwice
      <4> QED
        BY <4>1, <4>2
    <3> QED
      BY <2>1, <3>2 DEF Effect
  <2>7. Answered'
    <3> SUFFICES ASSUME NEW e \in Calls, Latest(e), e < call, status[call] = "pending",
                        NEW t \in acked'[e] \cap acked'[call]
                 PROVE  (reply[t] = Reply(call, store[t]))'
      BY <2>1, <2>5 DEF Answered
    <3>0. call \in Calls /\ op[call] \notin Mutations
      <4>1. call \in 0..MaxCalls /\ e \in Int
        BY DEF TypeOK, Calls
      <4>2. call \in (e + 1)..call
        BY <4>1
      <4> QED
        BY <4>1, <4>2 DEF Latest, Calls
    <3>1. /\ op[c] \in Mutations => c = e
          /\ c = e => s \notin acked[e]
      BY <1>2, LaterTask DEF Latest, Calls
    <3>2. acked'[e] = acked[e]
      BY <1>2, <2>2, AnswerEffect DEF Calls
    <3>3. t \in Servers /\ t \in acked[e] /\ store'[t] = store[t]
      BY <2>1, <2>2, <2>3, <3>1, <3>2
    <3>4. reply'[t] = Reply(call, store[t])
      <4>1. CASE UNCHANGED <<acked, reply>>
        BY <3>3, <4>1 DEF Copies, Answered
      <4>2. CASE /\ c = call
                 /\ acked' = [acked EXCEPT ![c] = @ \cup {s}]
                 /\ reply' = [reply EXCEPT ![s] = Reply(c, store[s])]
        BY <2>2, <3>0, <3>3, <4>2 DEF Copies, Answered
      <4> QED
        BY <1>2, <4>1, <4>2, AnswerEffect
    <3> QED
      BY <2>1, <3>3, <3>4 DEF Reply
  <2>8. Kept'
    <3> SUFFICES ASSUME NEW e \in Calls, Undeleted(e), NEW t \in acked'[e]
                 PROVE  store'[t].blob >= e
      BY <2>5 DEF Kept
    <3>1. /\ op[c] \in Mutations => c >= e
          /\ c = e => s \notin acked[e]
          /\ c <= call
      BY <1>2, LaterTask DEF Undeleted
    <3>2. Effect(c, store[s]).blob \in {store[s].blob, c} \/ c < e
      BY <2>2, <3>1 DEF Undeleted, Effect, Mutations, Calls
    <3>3. c = e => Effect(c, store[s]).blob = c
      BY <2>2 DEF Undeleted, Effect
    <3>4. t \in Servers /\ (t \in acked[e] \/ (e = c /\ t = s))
      BY <2>2, <2>4
    <3>5. t \in acked[e] => store[t].blob >= e
      BY DEF Copies, Kept
    <3>6. c < e => store'[s] = store[s]
      BY <2>3, <3>1 DEF Calls
    <3> QED
      BY <2>1, <2>2, <2>4, <3>1, <3>2, <3>3, <3>4, <3>5, <3>6 DEF Calls
  <2> QED
    BY <2>6, <2>7, <2>8 DEF Copies
<1>3. ASSUME UNCHANGED <<store, call, op, acked, settled>>,
             UNCHANGED <<status, reply>> \/ (call > 0 /\ status'[call] # "pending")
      PROVE  Copies'
  <2>1. Applied' /\ Kept'
    BY <1>3 DEF Copies, Applied, Kept, Latest, Undeleted, Effect
  <2>2. Answered'
    BY <1>3 DEF Copies, Answered, Latest, Reply
  <2> QED
    BY <2>1, <2>2 DEF Copies
<1>4. CASE Return
  <2>1. call \in Calls /\ status'[call] # "pending" /\ call > 0
    BY <1>4 DEF Return, TypeOK, Calls
  <2> QED
    BY <1>3, <1>4, <2>1 DEF Return
<1>5. CASE ReturnFailed
  <2>1. call \in Calls /\ status'[call] # "pending" /\ call > 0
    BY <1>5 DEF ReturnFailed, TypeOK, Calls
  <2> QED
    BY <1>3, <1>5, <2>1 DEF ReturnFailed
<1>6. CASE UNCHANGED vars
  BY <1>3, <1>6 DEF vars
<1> QED
  BY <1>1, <1>2, <1>4, <1>5, <1>6 DEF Next

(* Nothing is answered before the first call. *)
LEMMA InitCopies == Init => Copies
BY DEF Init, Copies, Applied, Answered, Kept

(* What the answers that were counted say about the servers, for any number of
   servers, calls and losses. *)
THEOREM CopiesInv == Spec => [](Typed /\ Copies)
<1> QED
  BY InitTyped, StepTyped, InitCopies, StepCopies, PTL DEF Spec

-----------------------------------------------------------------------------
(* The servers and the answers of a call can be counted. *)
LEMMA Countable ==
  ASSUME TypeOK
  PROVE  /\ IsFiniteSet(Servers) /\ Cardinality(Servers) = N
         /\ \A c \in Calls : IsFiniteSet(acked[c]) /\ Cardinality(acked[c]) \in Nat
<1>1. 1 \in Int /\ N \in Int /\ N >= 1
  BY ConstantsAssumption
<1>2. IsFiniteSet(Servers) /\ Cardinality(Servers) = N
  BY <1>1, FS_Interval DEF Servers
<1>3. ASSUME NEW c \in Calls
      PROVE  IsFiniteSet(acked[c]) /\ Cardinality(acked[c]) \in Nat
  <2>1. acked[c] \subseteq Servers
    BY DEF TypeOK
  <2> QED
    BY <1>2, <2>1, FS_Subset, FS_CardinalityType
<1> QED
  BY <1>2, <1>3

(* The blobs that were saved are held: a consequence of Kept, for the servers
   that answered are as many as W. *)
LEMMA KeptIsHeld == Typed /\ Copies => SavedIsHeld
<1> SUFFICES ASSUME Typed, Copies, NEW c \in 1..call,
                    op[c] = "saveBlob", status[c] = "ok", settled[c],
                    \A d \in (c + 1)..call : op[d] \notin {"deleteBlob", "deleteBucket"}
             PROVE  Cardinality({s \in Servers : store[s].blob >= c}) >= W
  BY DEF SavedIsHeld
<1> USE ConstantsAssumption DEF Typed
<1>1. c \in Calls /\ acked[c] \subseteq Servers
  BY DEF TypeOK, Calls
<1>2. \A s \in acked[c] : store[s].blob >= c
  BY <1>1 DEF Copies, Kept, Undeleted
<1>3. PICK held : held = {s \in Servers : store[s].blob >= c}
  OBVIOUS
<1>4. acked[c] \subseteq held /\ held \subseteq Servers
  BY <1>1, <1>2, <1>3
<1>5. /\ Cardinality(acked[c]) <= Cardinality(held)
      /\ Cardinality(acked[c]) \in Nat /\ Cardinality(held) \in Nat
  BY <1>4, Countable, FS_Subset, FS_CardinalityType
<1>6. Cardinality(acked[c]) >= W
  <2>1. Threshold(op[c]) = W
    BY DEF Threshold, Tests
  <2> QED
    BY <1>1, <2>1 DEF Tallied, Enough
<1> QED
  BY <1>3, <1>5, <1>6

(* What the runs check as SavedIsHeld: a blob whose save returned with success
   and that nobody deletes is never lost from the write quorum; W servers hold
   it or a later one, whatever the calls after it do, lose or leave behind.  This
   is for a settled save only: when it was issued no older mutation had tasks left.
   Of a save that overlaps with the late tasks of an older one it says nothing. *)
THEOREM SavedCorrect == Spec => []SavedIsHeld
<1> QED
  BY CopiesInv, KeptIsHeld, PTL

(* The step in which a load succeeds after a save: the two quorums share a
   server, and its answer is the saved blob. *)
LEMMA QuorumsMeet ==
  ASSUME R + W > N, Typed, Copies, Return, op[call] = "loadBlob",
         NEW c \in Calls, LastMutation(c, "saveBlob"), settled[c]
  PROVE  c \in result'
<1> USE ConstantsAssumption DEF Typed
<1>1. /\ call \in Calls /\ c < call /\ status[call] = "pending"
      /\ op[call] \notin Mutations
  BY DEF LastMutation, Return, TypeOK, Calls, Mutations
<1>2. Latest(c)
  BY <1>1 DEF LastMutation, Latest, Mutations, Calls
<1>3. Cardinality(acked[c]) >= W
  <2>1. Threshold(op[c]) = W
    BY DEF LastMutation, Threshold, Tests
  <2> QED
    BY <2>1 DEF LastMutation, Tallied, Enough
<1>4. Cardinality(acked[call]) >= R
  BY DEF Return, Enough, Threshold, Mutations, Tests
<1>5. acked[c] \cap acked[call] # {}
  <2>1. acked[c] \subseteq Servers /\ acked[call] \subseteq Servers
    BY <1>1 DEF TypeOK
  <2>2. /\ IsFiniteSet(Servers) /\ Cardinality(Servers) = N
        /\ Cardinality(acked[c]) \in Nat /\ Cardinality(acked[call]) \in Nat
    BY <1>1, Countable
  <2>3. Cardinality(acked[c]) + Cardinality(acked[call]) > Cardinality(Servers)
    BY <1>3, <1>4, <2>2
  <2> QED
    BY <2>1, <2>2, <2>3, FS_MajoritiesIntersect
<1>6. PICK s \in acked[c] \cap acked[call] : TRUE
  BY <1>5
<1>7. store[s].blob = c
  <2>1. store[s] \in [blob : 0..MaxCalls, mark : BOOLEAN]
    BY <1>1, <1>6 DEF TypeOK
  <2>2. Effect(c, store[s]) = store[s]
    BY <1>2, <1>6 DEF Copies, Applied
  <2>3. Effect(c, store[s]).blob = c
    BY <2>1 DEF Effect, LastMutation
  <2> QED
    BY <2>2, <2>3
<1>8. reply[s] = c
  BY <1>1, <1>2, <1>6, <1>7 DEF Copies, Answered, Reply
<1> QED
  BY <1>6, <1>8 DEF Return, Answers

(* The steps that leave the answers of FreshAnswer and DeletedStaysDeleted
   alone: all but the return of a call that succeeds. *)
LEMMA UntilReturn ==
  ASSUME Typed, [Next]_vars, ~Return
  PROVE  \/ UNCHANGED <<call, op, status, result, settled>>
         \/ status'[call'] \in {"pending", "failed"}
<1> USE DEF Typed
<1>1. ASSUME NEW o \in Operations, NEW n \in Servers, Issue(o, n)
      PROVE  status'[call'] = "pending"
  BY <1>1, ConstantsAssumption DEF Issue, TypeOK, Calls
<1>2. ASSUME NEW c \in Calls, NEW s \in Servers, Apply(c, s) \/ Lose(c, s)
      PROVE  UNCHANGED <<call, op, status, result, settled>>
  BY <1>2, TaskEffect
<1>3. CASE ReturnFailed
  BY <1>3 DEF ReturnFailed, TypeOK, Calls
<1> QED
  BY <1>1, <1>2, <1>3 DEF Next, vars

(* A load that succeeds has the latest blob among its answers. *)
LEMMA StepFresh ==
  ASSUME R + W > N
  PROVE  Typed /\ Copies /\ FreshAnswer /\ [Next]_vars => FreshAnswer'
<1> SUFFICES ASSUME Typed, Copies, FreshAnswer, [Next]_vars PROVE FreshAnswer'
  OBVIOUS
<1>1. CASE UNCHANGED <<call, op, status, result, settled>>
  BY <1>1 DEF FreshAnswer, LastMutation, Succeeded
<1>2. CASE status'[call'] \in {"pending", "failed"}
  BY <1>2 DEF FreshAnswer, Succeeded
<1>3. CASE Return
  <2> SUFFICES ASSUME NEW c \in Calls, LastMutation(c, "saveBlob")', settled'[c],
                      Succeeded("loadBlob")'
               PROVE  c \in result'
    BY DEF FreshAnswer
  <2>1. LastMutation(c, "saveBlob") /\ settled[c] /\ op[call] = "loadBlob"
    BY <1>3 DEF Return, LastMutation, Succeeded, Typed, TypeOK, Calls
  <2> QED
    BY <1>3, <2>1, QuorumsMeet
<1> QED
  BY <1>1, <1>2, <1>3, UntilReturn

(* What the runs check as FreshAnswer: if R + W > N, a load that succeeds right
   after a settled save that succeeded returns that blob or has it among its
   answers.  The quorums meet in any case, but the common server has kept the blob
   only because no older mutation had tasks left when the save was issued; without
   that the run of OneAnswerIsLatest has a counterexample. *)
THEOREM FreshCorrect ==
  ASSUME R + W > N
  PROVE  Spec => []FreshAnswer
<1>1. Init => FreshAnswer
  BY DEF Init, FreshAnswer, LastMutation, Calls
<1>2. Typed /\ Copies /\ FreshAnswer /\ [Next]_vars => FreshAnswer'
  BY StepFresh
<1> QED
  BY <1>1, <1>2, CopiesInv, PTL DEF Spec

(* A deletion that succeeded has the answers of all the servers. *)
LEMMA DeletionIsComplete ==
  ASSUME Typed, NEW c \in Calls, op[c] \in {"deleteBlob", "deleteBucket"},
         status[c] = "ok"
  PROVE  acked[c] = Servers
<1>1. Threshold(op[c]) = N
  BY DEF Threshold, Tests
<1>2. Cardinality(acked[c]) >= N
  BY <1>1 DEF Typed, Tallied, Enough
<1>3. /\ acked[c] \subseteq Servers /\ IsFiniteSet(Servers)
      /\ Cardinality(Servers) = N /\ Cardinality(acked[c]) \in Nat /\ N \in Nat
  BY Countable, ConstantsAssumption DEF Typed, TypeOK
<1>4. Cardinality(acked[c]) = Cardinality(Servers)
  BY <1>2, <1>3, FS_Subset
<1> QED
  BY <1>3, <1>4, FS_Subset

(* What a call answers that succeeds after a deletion: the blob, or the bucket,
   is at no server. *)
LEMMA NothingLeft ==
  ASSUME Typed, Copies, Return, op[call] \notin Mutations,
         NEW c \in Calls, settled[c],
         LastMutation(c, "deleteBlob") \/ LastMutation(c, "deleteBucket")
  PROVE  /\ op[call] \in {"loadBlob", "existBlob"} => Answers = {0}
         /\ op[call] = "existBucket" /\ op[c] = "deleteBucket" => Answers = {0}
<1> USE ConstantsAssumption DEF Typed
<1>1. /\ call \in Calls /\ c < call /\ status[call] = "pending"
      /\ op[c] \in {"deleteBlob", "deleteBucket"} /\ status[c] = "ok"
  BY DEF LastMutation, Return, TypeOK, Calls
<1>2. Latest(c)
  BY <1>1 DEF LastMutation, Latest, Mutations, Calls
<1>3. acked[c] = Servers
  BY <1>1, DeletionIsComplete
<1>4. acked[call] # {}
  <2>1. op[call] # "none"
    BY <1>1 DEF Numbered, TypeOK, Calls
  <2>2. Threshold(op[call]) \in Servers
    BY <1>1, <2>1, ThresholdType DEF TypeOK
  <2>3. Cardinality(acked[call]) >= 1 /\ Cardinality(acked[call]) \in Nat
    BY <1>1, <2>2, Countable DEF Return, Enough, Servers
  <2> QED
    BY <2>3, FS_EmptySet
<1>5. ASSUME NEW s \in acked[call]
      PROVE  /\ reply[s] = Reply(call, store[s])
             /\ store[s].blob = 0
             /\ op[c] = "deleteBucket" => store[s].mark = FALSE
  <2>1. s \in Servers /\ store[s] \in [blob : 0..MaxCalls, mark : BOOLEAN]
    BY <1>1 DEF TypeOK
  <2>2. reply[s] = Reply(call, store[s])
    BY <1>1, <1>2, <1>3, <2>1 DEF Copies, Answered
  <2>3. Effect(c, store[s]) = store[s]
    BY <1>2, <1>3, <2>1 DEF Copies, Applied
  <2>4. CASE op[c] = "deleteBlob"
    <3>1. Effect(c, store[s]).blob = 0
      BY <2>1, <2>4 DEF Effect
    <3> QED
      BY <2>2, <2>3, <2>4, <3>1
  <2>5. CASE op[c] = "deleteBucket"
    <3>1. Effect(c, store[s]).blob = 0 /\ Effect(c, store[s]).mark = FALSE
      BY <2>1, <2>5 DEF Effect
    <3> QED
      BY <2>2, <2>3, <3>1
  <2> QED
    BY <1>1, <2>4, <2>5
<1>6. ASSUME op[call] \in {"loadBlob", "existBlob"}, NEW s \in acked[call]
      PROVE  reply[s] = 0
  <2>1. CASE op[call] = "loadBlob"
    BY <1>5, <2>1 DEF Reply
  <2>2. CASE op[call] = "existBlob"
    BY <1>5, <2>2 DEF Reply
  <2> QED
    BY <1>6, <2>1, <2>2
<1>7. ASSUME op[call] = "existBucket", op[c] = "deleteBucket", NEW s \in acked[call]
      PROVE  reply[s] = 0
  BY <1>5, <1>7 DEF Reply
<1> QED
  BY <1>4, <1>6, <1>7 DEF Answers

(* What was deleted stays deleted, in every step. *)
LEMMA StepDeleted ==
  Typed /\ Copies /\ DeletedStaysDeleted /\ [Next]_vars => DeletedStaysDeleted'
<1> SUFFICES ASSUME Typed, Copies, DeletedStaysDeleted, [Next]_vars
             PROVE  DeletedStaysDeleted'
  OBVIOUS
<1>1. CASE UNCHANGED <<call, op, status, result, settled>>
  BY <1>1 DEF DeletedStaysDeleted, LastMutation, Succeeded
<1>2. CASE status'[call'] \in {"pending", "failed"}
  BY <1>2 DEF DeletedStaysDeleted, Succeeded
<1>3. CASE Return
  <2> SUFFICES ASSUME NEW c \in Calls, settled'[c],
                      (LastMutation(c, "deleteBlob") \/ LastMutation(c, "deleteBucket"))'
               PROVE  /\ Succeeded("loadBlob")' => result' = {0}
                      /\ ~Succeeded("existBlob")'
                      /\ LastMutation(c, "deleteBucket")' => ~Succeeded("existBucket")'
    BY DEF DeletedStaysDeleted
  <2>1. /\ LastMutation(c, "deleteBlob") \/ LastMutation(c, "deleteBucket")
        /\ LastMutation(c, "deleteBucket")' => op[c] = "deleteBucket"
        /\ settled[c] /\ call \in Calls /\ op' = op /\ call' = call
    BY <1>3 DEF Return, LastMutation, Typed, TypeOK, Calls
  <2>2. /\ op[call] = "loadBlob" => result' = Answers
        /\ op[call] \in Tests /\ Answers = {0} => status'[call] = "no"
    BY <1>3, <2>1 DEF Return, Typed, TypeOK
  <2>3. CASE op[call] \in Mutations
    BY <2>1, <2>3 DEF Succeeded, Mutations
  <2>4. CASE op[call] \notin Mutations
    <3>1. /\ op[call] \in {"loadBlob", "existBlob"} => Answers = {0}
          /\ op[call] = "existBucket" /\ op[c] = "deleteBucket" => Answers = {0}
      BY <1>3, <2>1, <2>4, NothingLeft
    <3> QED
      BY <2>1, <2>2, <3>1 DEF Succeeded, Tests
  <2> QED
    BY <2>3, <2>4
<1> QED
  BY <1>1, <1>2, <1>3, UntilReturn

(* What the runs check as DeletedStaysDeleted: no load and no test right after a
   settled deletion that succeeded finds what it has deleted, whatever the
   thresholds of the loads and saves are.  If a task of an older save was left when
   the deletion was issued, it may bring the blob back, and nothing is said. *)
THEOREM DeletionCorrect == Spec => []DeletedStaysDeleted
<1>1. Init => DeletedStaysDeleted
  BY DEF Init, DeletedStaysDeleted, LastMutation, Calls
<1> QED
  BY <1>1, StepDeleted, CopiesInv, PTL DEF Spec

-----------------------------------------------------------------------------
(* The variables of QuorumCall: what the refinement mapping gives them. *)
Status == [c \in Calls |-> IF status[c] = "no" THEN "ok" ELSE status[c]]
Need   == [c \in Calls |-> IF op[c] = "none" THEN 0 ELSE Threshold(op[c])]

(* Before the first call, no quorum call was made. *)
LEMMA InitRefines == Init => QC!Init
<1> SUFFICES ASSUME Init PROVE QC!Init
  OBVIOUS
<1>1. Status = [c \in Calls |-> "unborn"]
  BY DEF Init, Status, Calls
<1>2. Need = [c \in Calls |-> 0]
  BY DEF Init, Need, Calls
<1> QED
  BY <1>1, <1>2 DEF Init, QC!Init, QC!Commands, Calls, Status, Need

(* Every step is a step of a quorum call, or none: Issue issues one, the counted
   answer acknowledges, the return decides. *)
LEMMA StepRefines == Typed /\ [Next]_vars => [QC!Next]_(QC!vars)
<1> SUFFICES ASSUME Typed, [Next]_vars PROVE [QC!Next]_(QC!vars)
  OBVIOUS
<1> USE ConstantsAssumption DEF Typed
<1>1. /\ QC!Commands = Calls /\ QC!Replicas = Servers
      /\ QC!vars = <<Status, Need, acked>>
      /\ status \in [Calls -> {"unborn", "pending", "ok", "no", "failed"}]
      /\ acked \in [Calls -> SUBSET Servers] /\ call \in 0..MaxCalls
  BY DEF QC!Commands, QC!Replicas, QC!vars, Status, Need, Calls, Servers, TypeOK
<1>2. ASSUME UNCHANGED <<op, status, acked>> PROVE UNCHANGED QC!vars
  BY <1>2 DEF QC!vars, Threshold
<1>3. ASSUME NEW o \in Operations, NEW n \in Servers, Issue(o, n) PROVE QC!Next
  <2>0. PICK c : c = call + 1
    OBVIOUS
  <2>1. /\ c \in Calls /\ acked' = acked /\ o # "none"
        /\ op' = [op EXCEPT ![c] = o] /\ status' = [status EXCEPT ![c] = "pending"]
        /\ call > 0 => status[call] # "pending"
    BY <1>3, <2>0 DEF Issue, TypeOK, Calls, Mutations, Tests
  <2>2. Status[c] = "unborn"
    BY <1>1, <2>0, <2>1 DEF Status, Numbered
  <2>3. \A d \in Calls : d < c => Status[d] \in {"ok", "failed"}
    <3> SUFFICES ASSUME NEW d \in Calls, d < c PROVE Status[d] \in {"ok", "failed"}
      OBVIOUS
    <3>1. d <= call /\ status[d] # "unborn" /\ status[d] # "pending"
      BY <1>1, <2>0, <2>1 DEF Numbered, Calls
    <3> QED
      BY <1>1, <3>1 DEF Status
  <2>4. Status' = [Status EXCEPT ![c] = "pending"]
    BY <1>1, <2>1 DEF Status
  <2>5. Need' = [Need EXCEPT ![c] = Threshold(o)]
    <3>1. Need' = [d \in Calls |-> IF op'[d] = "none" THEN 0 ELSE Threshold(op'[d])]
      BY DEF Need, Threshold
    <3> QED
      BY <2>1, <3>1 DEF Need, TypeOK
  <2>6. QC!Issue(c, Threshold(o))
    BY <1>1, <2>1, <2>2, <2>3, <2>4, <2>5 DEF QC!Issue, Status, Need
  <2>7. Threshold(o) \in Servers
    BY ThresholdType
  <2> QED
    BY <1>1, <2>1, <2>6, <2>7 DEF QC!Next
<1>4. ASSUME NEW c \in Calls, NEW s \in Servers, Apply(c, s) \/ Lose(c, s)
      PROVE  [QC!Next]_(QC!vars)
  <2>1. s \in tasks[c] /\ UNCHANGED <<op, status>>
    BY <1>4, TaskEffect
  <2>2. UNCHANGED <<Status, Need>>
    BY <2>1 DEF Status, Need, Threshold
  <2>3. CASE UNCHANGED acked
    BY <1>2, <2>1, <2>3
  <2>4. CASE status[c] = "pending" /\ acked' = [acked EXCEPT ![c] = @ \cup {s}]
    <3>1. s \notin acked[c] /\ Status[c] # "unborn"
      BY <2>1, <2>4 DEF Tallied, Status
    <3>2. QC!Ack(c, s)
      BY <2>2, <2>4, <3>1 DEF QC!Ack, Status, Need
    <3> QED
      BY <1>1, <3>2 DEF QC!Next
  <2> QED
    BY <1>4, <2>3, <2>4, AnswerEffect
<1>5. CASE Return
  <2>0. PICK c, v :
          c = call /\ v = IF op[call] \in Tests /\ Answers = {0} THEN "no" ELSE "ok"
    OBVIOUS
  <2>1. /\ c \in Calls /\ Enough(c) /\ status[c] = "pending"
        /\ UNCHANGED <<op, acked>> /\ status' = [status EXCEPT ![c] = v]
    BY <1>1, <1>5, <2>0 DEF Return, Calls
  <2>2. Status' = [Status EXCEPT ![c] = "ok"] /\ Status[c] = "pending"
    BY <1>1, <2>0, <2>1 DEF Status
  <2>3. Need' = Need /\ Need[c] = Threshold(op[c])
    <3>1. op[c] # "none"
      BY <1>1, <2>0, <2>1 DEF Numbered, Calls
    <3>2. Need' = Need
      BY <2>1 DEF Need, Threshold
    <3> QED
      BY <2>1, <3>1, <3>2 DEF Need
  <2>4. QC!Cardinality(acked[c]) >= Need[c]
    <3>1. QC!Cardinality(acked[c]) = Cardinality(acked[c])
      BY DEF QC!Cardinality, Cardinality
    <3> QED
      BY <2>1, <2>3, <3>1 DEF Enough
  <2>5. QC!Succeed(c)
    BY <2>1, <2>2, <2>3, <2>4 DEF QC!Succeed, Status, Need
  <2> QED
    BY <1>1, <2>1, <2>5 DEF QC!Next, QC!Decide
<1>6. CASE ReturnFailed
  <2>0. PICK c : c = call
    OBVIOUS
  <2>1. /\ c \in Calls /\ status[c] = "pending"
        /\ UNCHANGED <<op, acked>> /\ status' = [status EXCEPT ![c] = "failed"]
    BY <1>1, <1>6, <2>0 DEF ReturnFailed, Calls
  <2>2. Status' = [Status EXCEPT ![c] = "failed"] /\ Status[c] = "pending"
    BY <1>1, <2>1 DEF Status
  <2>3. Need' = Need
    BY <2>1 DEF Need, Threshold
  <2>4. QC!Fail(c)
    BY <2>1, <2>2, <2>3 DEF QC!Fail, Status, Need
  <2> QED
    BY <1>1, <2>1, <2>4 DEF QC!Next, QC!Decide
<1>7. CASE UNCHANGED vars
  BY <1>2, <1>7 DEF vars
<1> QED
  BY <1>3, <1>4, <1>5, <1>6, <1>7 DEF Next

(* The router's calls are quorum calls, as the runs check of ImplementsQuorumCall:
   for any thresholds, each is decided once, and succeeds only with the answers
   of as many servers as its operation asks for.  It is the same specification
   that the thread pool implements. *)
THEOREM QuorumCallImplemented == Spec => ImplementsQuorumCall
<1> QED
  BY InitRefines, StepRefines, TypedInv, PTL DEF Spec, ImplementsQuorumCall, QC!Spec
=============================================================================
