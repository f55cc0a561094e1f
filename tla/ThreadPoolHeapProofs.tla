------------------------ MODULE ThreadPoolHeapProofs ------------------------
(***************************************************************************)
(* Proofs about the tasks and the commands of ThreadPool: who owns them,   *)
(* how they are counted and when they are freed, which slots the answers   *)
(* have, and that the pool implements quorum calls.                        *)
(***************************************************************************)
EXTENDS ThreadPoolProofs

(* The elements of a queue, and a queue without repetitions. *)
Elements(q)    == {q[i] : i \in 1..Len(q)}
NoRepetition(q) == \A i, j \in 1..Len(q) : i # j => q[i] # q[j]

(* What remains of a queue without repetitions when its head is unlinked. *)
LEMMA TailElements ==
  ASSUME NEW q \in Seq(Tasks), q # <<>>, NoRepetition(q)
  PROVE  Elements(Tail(q)) = Elements(q) \ {Head(q)} /\ NoRepetition(Tail(q))
<1> DEFINE r == Tail(q)
<1>1. /\ Len(q) \in Nat /\ Len(q) > 0 /\ Head(q) = q[1]
      /\ Len(r) = Len(q) - 1 /\ \A i \in 1..Len(r) : r[i] = q[i + 1]
  OBVIOUS
<1>2. \A i \in 2..Len(q) : i - 1 \in 1..Len(r) /\ q[i] = r[i - 1] /\ q[i] # q[1]
  BY <1>1 DEF NoRepetition
<1>3. Elements(r) = Elements(q) \ {Head(q)}
  <2>1. ASSUME NEW i \in 1..Len(r) PROVE r[i] \in Elements(q) \ {Head(q)}
    BY <1>1 DEF Elements, NoRepetition
  <2>2. ASSUME NEW t \in Elements(q) \ {Head(q)} PROVE t \in Elements(r)
    <3>1. PICK j \in 1..Len(q) : t = q[j]
      BY DEF Elements
    <3>2. j \in 2..Len(q)
      BY <1>1, <2>2, <3>1
    <3> QED
      BY <1>2, <3>1, <3>2 DEF Elements
  <2> QED
    BY <2>1, <2>2 DEF Elements
<1>4. NoRepetition(r)
  BY <1>1 DEF NoRepetition
<1> QED
  BY <1>3, <1>4

(* What is in a queue after execute() has added n tasks of command c. *)
LEMMA AddedElements ==
  ASSUME NEW q \in Seq(Tasks), NEW c \in Commands, NEW n \in 0..N,
         NoRepetition(q), \A t \in Elements(q) : t[1] # c
  PROVE  LET r == q \o [i \in 1..n |-> <<c, i>>] IN
         /\ Elements(r) = Elements(q) \cup ({c} \X (1..n))
         /\ NoRepetition(r)
<1> DEFINE a == [i \in 1..n |-> <<c, i>>]
           r == q \o a
<1>1. a \in Seq(Tasks) /\ Len(a) = n /\ n \in Nat /\ Len(q) \in Nat
  BY AddedTasks, ConstantsAssumption
<1>2. /\ Len(r) = Len(q) + n
      /\ \A i \in 1..Len(q) : r[i] = q[i] /\ i \in 1..Len(r)
      /\ \A i \in 1..n : r[Len(q) + i] = <<c, i>> /\ Len(q) + i \in 1..Len(r)
      /\ \A i \in 1..Len(r) : i \notin 1..Len(q) =>
           i - Len(q) \in 1..n /\ r[i] = <<c, i - Len(q)>>
  BY <1>1
<1> HIDE DEF r
<1>3. Elements(r) = Elements(q) \cup ({c} \X (1..n))
  <2>1. ASSUME NEW i \in 1..Len(r) PROVE r[i] \in Elements(q) \cup ({c} \X (1..n))
    <3>1. CASE i \in 1..Len(q)
      BY <1>2, <3>1 DEF Elements
    <3>2. CASE i \notin 1..Len(q)
      <4>1. i - Len(q) \in 1..n /\ r[i] = <<c, i - Len(q)>>
        BY <1>2, <3>2
      <4> QED
        BY <4>1
    <3> QED
      BY <3>1, <3>2
  <2>2. ASSUME NEW i \in 1..Len(q) PROVE q[i] \in Elements(r)
    BY <1>2 DEF Elements
  <2>3. ASSUME NEW t \in {c} \X (1..n) PROVE t \in Elements(r)
    <3>1. PICK i \in 1..n : t = <<c, i>>
      OBVIOUS
    <3>2. Len(q) + i \in 1..Len(r) /\ r[Len(q) + i] = t
      BY <1>2, <3>1
    <3> QED
      BY <3>2 DEF Elements
  <2>4. Elements(r) \subseteq Elements(q) \cup ({c} \X (1..n))
    BY <2>1 DEF Elements
  <2>5. Elements(q) \subseteq Elements(r)
    BY <2>2 DEF Elements
  <2> QED
    BY <2>3, <2>4, <2>5
<1>4. NoRepetition(r)
  <2> SUFFICES ASSUME NEW i \in 1..Len(r), NEW j \in 1..Len(r), i # j PROVE r[i] # r[j]
    BY DEF NoRepetition
  <2>0. /\ \A k \in 1..Len(q) : r[k][1] # c
        /\ \A k \in 1..Len(r) : k \notin 1..Len(q) => r[k][1] = c
    <3>1. \A k \in 1..Len(q) : r[k][1] # c
      BY <1>2 DEF Elements
    <3>2. ASSUME NEW k \in 1..Len(r), k \notin 1..Len(q) PROVE r[k][1] = c
      <4>1. r[k] = <<c, k - Len(q)>>
        BY <1>2, <3>2
      <4> QED
        BY <4>1
    <3> QED
      BY <3>1, <3>2
  <2>1. CASE i \in 1..Len(q) /\ j \in 1..Len(q)
    BY <1>2, <2>1 DEF NoRepetition
  <2>2. CASE i \in 1..Len(q) /\ j \notin 1..Len(q)
    BY <2>0, <2>2
  <2>3. CASE i \notin 1..Len(q) /\ j \in 1..Len(q)
    BY <2>0, <2>3
  <2>4. CASE i \notin 1..Len(q) /\ j \notin 1..Len(q)
    <3>1. r[i] = <<c, i - Len(q)>> /\ r[j] = <<c, j - Len(q)>> /\ i - Len(q) # j - Len(q)
      BY <1>1, <1>2, <2>4
    <3> QED
      BY <3>1
  <2> QED
    BY <2>1, <2>2, <2>3, <2>4
<1> QED
  BY <1>3, <1>4 DEF r

-----------------------------------------------------------------------------
(* The tasks: who owns them *)

(* A task in the queue or with a worker is one of a call that has begun, and the
   tasks of the current call get there only in execute(). *)
TasksKnown ==
  \A t \in Queued \cup Held :
    /\ t[1] <= cmd
    /\ t[1] = cmd => pc[Caller] \notin {"add", "adding"}

Owned == TaskOwnedOnce /\ TasksKnown

(* What is queued or held is a task. *)
LEMMA OwnedType ==
  ASSUME TypeOK
  PROVE  /\ Queued \subseteq Tasks /\ Held \subseteq Tasks
         /\ \A w \in Workers : task[w] # NoTask => task[w] \in Held
         /\ taskQueue # <<>> => Head(taskQueue) \in Queued
         /\ NoTask \notin Queued
<1>1. Queued \subseteq Tasks
  BY DEF TypeOK, Queued
<1>2. Held \subseteq Tasks /\ \A w \in Workers : task[w] # NoTask => task[w] \in Held
  BY DEF TypeOK, Held
<1>3. taskQueue # <<>> => Head(taskQueue) \in Queued
  BY DEF TypeOK, Queued
<1>4. NoTask \notin Queued
  BY <1>1, TaskType
<1> QED
  BY <1>1, <1>2, <1>3, <1>4

(* A task changes hands only under the pool's mutex. *)
LEMMA StepOwned == Typed /\ Owned /\ [Next]_vars => Owned'
<1> SUFFICES ASSUME Typed, Owned, [Next]_vars PROVE Owned'
  OBVIOUS
<1> USE ConstantsAssumption
    DEF Typed, Threads, poolVars, commandVars, heapVars, callerVars, Goto
<1>1. ASSUME UNCHANGED <<taskQueue, task, cmd>>,
             \A w \in Workers : pc'[w] = "take" <=> pc[w] = "take",
             pc'[Caller] \in {"add", "adding"} => pc[Caller] \in {"add", "adding"}
      PROVE  Owned'
  <2>1. Queued' = Queued /\ Held' = Held
    BY <1>1 DEF Queued, Held
  <2>2. TaskOwnedOnce'
    BY <1>1, <2>1 DEF Owned, TaskOwnedOnce
  <2>3. TasksKnown'
    BY <1>1, <2>1 DEF Owned, TasksKnown
  <2> QED
    BY <2>2, <2>3 DEF Owned
<1>2. ASSUME NEW w \in Workers, CommandFailed(w) \/ WriteGiveUp(w) \/ FreeTask(w)
      PROVE  Owned'
  <2>1. /\ task' = [task EXCEPT ![w] = NoTask] /\ UNCHANGED <<taskQueue, cmd>>
        /\ pc' = [pc EXCEPT ![w] = "lock"] /\ pc[w] # "take"
    BY <1>2 DEF CommandFailed, WriteGiveUp, FreeTask
  <2>2. /\ task'[w] = NoTask /\ pc'[w] # "take" /\ pc'[Caller] = pc[Caller]
        /\ \A v \in Workers \ {w} : task'[v] = task[v] /\ pc'[v] = pc[v]
    BY <2>1 DEF TypeOK
  <2>3. Queued' = Queued /\ Held' \subseteq Held
    BY <2>1, <2>2 DEF Queued, Held
  <2>4. NoTask \notin Queued
    BY OwnedType
  <2>5. TaskOwnedOnce'
    BY <2>1, <2>2, <2>3, <2>4 DEF Owned, TaskOwnedOnce
  <2>6. TasksKnown'
    BY <2>1, <2>2, <2>3 DEF Owned, TasksKnown
  <2> QED
    BY <2>5, <2>6 DEF Owned
<1>3. ASSUME NEW op \in Operations, NEW n \in Replicas, Call(op, n) PROVE Owned'
  <2>1. /\ UNCHANGED <<taskQueue, task>> /\ cmd' = cmd + 1 /\ cmd \in Nat
        /\ \A w \in Workers : pc'[w] = pc[w]
    BY <1>3 DEF Call, TypeOK
  <2>2. Queued' = Queued /\ Held' = Held
    BY <2>1 DEF Queued, Held
  <2>3. TaskOwnedOnce'
    BY <2>1, <2>2 DEF Owned, TaskOwnedOnce
  <2>4. \A t \in Queued \cup Held : t[1] \in Nat
    BY OwnedType, TaskType
  <2>5. TasksKnown'
    BY <2>1, <2>2, <2>4 DEF Owned, TasksKnown
  <2> QED
    BY <2>3, <2>5 DEF Owned
<1>4. CASE ExecuteAdd
  <2>1. /\ pc[Caller] = "adding" /\ UNCHANGED <<task, cmd>> /\ cmd \in Commands
        /\ ipNum \in 0..N /\ taskQueue \in Seq(Tasks)
        /\ \A w \in Workers : pc'[w] = pc[w]
    BY <1>4 DEF ExecuteAdd, TypeOK, PoolMutex, Commands
  <2>2. CASE BacklogFull
    BY <1>1, <1>4, <2>1, <2>2 DEF ExecuteAdd, TypeOK
  <2>3. CASE ~BacklogFull
    <3>1. /\ taskQueue' = taskQueue \o [i \in 1..ipNum |-> <<cmd, i>>]
          /\ pc'[Caller] = "signal"
      BY <1>4, <2>3 DEF ExecuteAdd, TypeOK
    <3>2. \A w \in Workers : pc[w] # "take"
      BY <2>1 DEF PoolMutex, PoolLabels
    <3>3. \A t \in Queued \cup Held : t[1] # cmd
      BY <2>1 DEF Owned, TasksKnown
    <3>4. NoRepetition(taskQueue) /\ \A t \in Elements(taskQueue) : t[1] # cmd
      BY <3>3 DEF Owned, TaskOwnedOnce, Queued, Elements, NoRepetition
    <3>5. Queued' = Queued \cup ({cmd} \X (1..ipNum)) /\ NoRepetition(taskQueue')
      <4>1. /\ Elements(taskQueue') = Elements(taskQueue) \cup ({cmd} \X (1..ipNum))
            /\ NoRepetition(taskQueue')
        BY <2>1, <3>1, <3>4, AddedElements
      <4> QED
        BY <4>1 DEF Queued, Elements
    <3>6. Held' = Held
      BY <2>1 DEF Held
    <3>7. \A w \in Workers : task[w] \notin Queued'
      <4>1. \A w \in Workers : task[w] \notin Queued
        BY <3>2 DEF Owned, TaskOwnedOnce
      <4>2. \A w \in Workers : task[w][1] # cmd
        <5> SUFFICES ASSUME NEW w \in Workers PROVE task[w][1] # cmd
          OBVIOUS
        <5>1. CASE task[w] = NoTask
          BY <2>1, <5>1 DEF NoTask, Commands
        <5>2. CASE task[w] # NoTask
          BY <3>3, <5>2, OwnedType
        <5> QED
          BY <5>1, <5>2
      <4>3. \A t \in {cmd} \X (1..ipNum) : t[1] = cmd
        OBVIOUS
      <4> QED
        BY <3>5, <4>1, <4>2, <4>3
    <3>8. TaskOwnedOnce'
      BY <2>1, <3>2, <3>5, <3>7 DEF Owned, TaskOwnedOnce, NoRepetition
    <3>9. TasksKnown'
      <4>1. \A t \in {cmd} \X (1..ipNum) : t[1] = cmd
        OBVIOUS
      <4> QED
        BY <2>1, <3>1, <3>5, <3>6, <4>1 DEF Owned, TasksKnown, Commands
    <3> QED
      BY <3>8, <3>9 DEF Owned
  <2> QED
    BY <2>2, <2>3
<1>5. ASSUME NEW w \in Workers, PickTask(w) PROVE Owned'
  <2>1. /\ taskQueue # <<>> /\ pc[w] \in {"check", "recheck"} /\ UNCHANGED <<taskQueue, cmd>>
        /\ task'[w] = Head(taskQueue) /\ pc'[w] = "take" /\ pc'[Caller] = pc[Caller]
        /\ \A v \in Workers \ {w} : task'[v] = task[v] /\ pc'[v] = pc[v]
    BY <1>5 DEF PickTask, TypeOK
  <2>2. \A v \in Workers : pc[v] # "take"
    BY <2>1 DEF PoolMutex, PoolLabels
  <2>3. \A v \in Workers : task[v] \notin Queued
    BY <2>2 DEF Owned, TaskOwnedOnce
  <2>4. Queued' = Queued /\ Head(taskQueue) \in Queued
    BY <2>1, OwnedType DEF Queued
  <2>5. Held' \subseteq Held \cup Queued
    BY <2>1, <2>4 DEF Held
  <2>6. TaskOwnedOnce'
    BY <2>1, <2>2, <2>3, <2>4 DEF Owned, TaskOwnedOnce
  <2>7. TasksKnown'
    BY <2>1, <2>4, <2>5 DEF Owned, TasksKnown
  <2> QED
    BY <2>6, <2>7 DEF Owned
<1>6. ASSUME NEW w \in Workers, TakeTask(w) PROVE Owned'
  <2>1. /\ pc[w] = "take" /\ UNCHANGED <<task, cmd>> /\ taskQueue' = Tail(taskQueue)
        /\ pc'[w] # "take" /\ \A v \in Threads \ {w} : pc'[v] = pc[v]
    BY <1>6 DEF TakeTask, TypeOK
  <2>2. /\ taskQueue # <<>> /\ task[w] = Head(taskQueue) /\ taskQueue \in Seq(Tasks)
        /\ \A v \in Workers \ {w} : pc[v] # "take"
    BY <2>1 DEF PoolMutex, PoolLabels, TypeOK
  <2>3. Queued' = Queued \ {Head(taskQueue)} /\ NoRepetition(taskQueue')
    <3>1. NoRepetition(taskQueue)
      BY DEF Owned, TaskOwnedOnce, NoRepetition
    <3>2. /\ Elements(taskQueue') = Elements(taskQueue) \ {Head(taskQueue)}
          /\ NoRepetition(taskQueue')
      BY <2>1, <2>2, <3>1, TailElements
    <3> QED
      BY <3>2 DEF Queued, Elements
  <2>4. Held' = Held
    BY <2>1 DEF Held
  <2>5. \A v \in Workers : task[v] \notin Queued' /\ pc'[v] # "take"
    BY <2>1, <2>2, <2>3 DEF Owned, TaskOwnedOnce
  <2>6. TaskOwnedOnce'
    BY <2>1, <2>3, <2>5 DEF Owned, TaskOwnedOnce, NoRepetition
  <2>7. TasksKnown'
    BY <2>1, <2>3, <2>4 DEF Owned, TasksKnown
  <2> QED
    BY <2>6, <2>7 DEF Owned
<1>7. CASE ExecuteSignal
  <2>1. PICK l \in {"read", "signal"} : SignalThenGoto(Caller, l)
    BY <1>7 DEF ExecuteSignal
  <2>2. /\ pc[Caller] = "signal" /\ pc'[Caller] = l
        /\ \A u \in Workers : pc'[u] = pc[u] \/ (pc[u] = "wait" /\ pc'[u] = "wake")
    BY <1>7, <2>1, SignalEffect DEF ExecuteSignal, CallerLabels
  <2> QED
    BY <1>1, <1>7, <2>1, <2>2 DEF ExecuteSignal
<1>8. ASSUME NEW w \in Workers, SignalNext(w) PROVE Owned'
  <2>1. /\ pc[w] = "signal" /\ pc'[w] = "command" /\ pc'[Caller] = pc[Caller]
        /\ \A u \in Workers \ {w} : pc'[u] = pc[u] \/ (pc[u] = "wait" /\ pc'[u] = "wake")
    BY <1>8, SignalEffect DEF SignalNext, WorkerLabels
  <2> QED
    BY <1>1, <1>8, <2>1 DEF SignalNext
<1>9. ASSUME NEW w \in Workers,
             \/ LockPool(w) \/ WaitForTask(w) \/ SpuriousWakeup(w) \/ CountDoing(w)
             \/ CommandReplied(w) \/ WriteTryLock(w) \/ WriteResult(w) \/ FreeLock(w)
      PROVE  Owned'
  <2>1. pc[w] # "take" /\ pc'[w] # "take" /\ \A t \in Threads \ {w} : pc'[t] = pc[t]
    BY <1>9 DEF LockPool, WaitForTask, SpuriousWakeup, CountDoing, CommandReplied,
         WriteTryLock, WriteResult, FreeLock, TypeOK
  <2> QED
    BY <1>1, <1>9, <2>1
    DEF LockPool, WaitForTask, SpuriousWakeup, CountDoing, CommandReplied,
        WriteTryLock, WriteResult, FreeLock
<1>10. CASE ExecuteTryLock \/ ExecuteGiveUp \/ Read \/ UNCHANGED vars
  <2>1. /\ \A w \in Workers : pc'[w] = pc[w]
        /\ pc'[Caller] \in {"add", "adding"} => pc[Caller] \in {"add", "adding"}
    BY <1>10
    DEF ExecuteTryLock, ExecuteGiveUp, Read, ReadTryLock, ReadCheck, ReadGiveUp,
        ReleaseLock, ReleaseCommand, vars, TypeOK
  <2> QED
    BY <1>1, <1>10, <2>1
    DEF ExecuteTryLock, ExecuteGiveUp, Read, ReadTryLock, ReadCheck, ReadGiveUp,
        ReleaseLock, ReleaseCommand, vars
<1> QED
  BY <1>2, <1>3, <1>4, <1>5, <1>6, <1>7, <1>8, <1>9, <1>10
  DEF Next, CallerStep, Execute, WorkerStep

(* No worker holds a task at first, and the queue is empty. *)
LEMMA InitOwned == Init => Owned
<1> SUFFICES ASSUME Init PROVE Owned
  OBVIOUS
<1>1. Queued = {} /\ Held = {} /\ \A w \in Workers : task[w] = NoTask /\ pc[w] # "take"
  BY ConstantsAssumption DEF Init, Queued, Held, Threads
<1> QED
  BY <1>1 DEF Init, Owned, TaskOwnedOnce, TasksKnown

(* Every task has one owner: the queue, or one worker. *)
THEOREM OwnedInv == Spec => []Owned
BY InitOwned, TypedInv, StepOwned, PTL DEF Spec

(* No two workers hold the same task, and none is queued twice or again. *)
THEOREM OwnershipCorrect == Spec => []TaskOwnedOnce
BY OwnedInv, PTL DEF Owned

-----------------------------------------------------------------------------
(* The commands: how they are counted, and when they are freed *)

(* The calls are decided in order: each one but the current one has returned,
   and the current one has its answer only once the caller is done reading. *)
CallDecided ==
  \A c \in Commands :
    /\ c > cmd => result[c] = "none"
    /\ c < cmd \/ (c = cmd /\ pc[Caller] = "idle") => result[c] # "none"
    /\ c = cmd /\ pc[Caller] \in {"release", "releasing"} => result[c] = "ok"
    /\ c = cmd /\ pc[Caller] \in {"add", "adding", "signal", "read", "reading"} =>
         result[c] = "none"

(* Every step decides at most the current call, and that one once. *)
LEMMA StepDecided == Typed /\ CallDecided /\ [Next]_vars => CallDecided'
<1> SUFFICES ASSUME Typed, CallDecided, [Next]_vars PROVE CallDecided'
  OBVIOUS
<1> USE ConstantsAssumption DEF Typed, Threads, callerVars, Goto
<1>1. ASSUME UNCHANGED <<cmd, result>>, pc'[Caller] = pc[Caller] PROVE CallDecided'
  BY <1>1 DEF CallDecided
<1>2. ASSUME NEW op \in Operations, NEW n \in Replicas, Call(op, n) PROVE CallDecided'
  <2>1. /\ pc[Caller] = "idle" /\ pc'[Caller] = "add" /\ cmd' = cmd + 1
        /\ result' = result /\ cmd \in Nat
    BY <1>2 DEF Call, TypeOK
  <2> QED
    BY <2>1 DEF CallDecided, Commands
<1>3. CASE ExecuteTryLock \/ ExecuteGiveUp \/ ExecuteAdd \/ ReadTryLock \/ ReleaseLock
           \/ ReleaseCommand
  <2>1. /\ UNCHANGED <<cmd, result>>
        /\ \/ /\ pc[Caller] \in {"add", "adding", "read"}
              /\ pc'[Caller] \in {"add", "adding", "signal", "read", "reading"}
           \/ pc[Caller] = "release" /\ pc'[Caller] = "releasing"
           \/ pc[Caller] = "releasing" /\ pc'[Caller] = "idle"
    BY <1>3 DEF ExecuteTryLock, ExecuteGiveUp, ExecuteAdd, ReadTryLock, ReleaseLock,
         ReleaseCommand, TypeOK
  <2> QED
    BY <2>1 DEF CallDecided
<1>4. CASE ExecuteSignal
  <2>1. PICK l \in {"read", "signal"} : SignalThenGoto(Caller, l)
    BY <1>4 DEF ExecuteSignal
  <2>2. pc[Caller] = "signal" /\ pc'[Caller] = l /\ UNCHANGED <<cmd, result>>
    BY <1>4, <2>1, SignalEffect DEF ExecuteSignal, CallerLabels
  <2> QED
    BY <2>2 DEF CallDecided
<1>5. CASE ReadCheck
  <2>1. /\ cmd \in Commands /\ pc[Caller] = "reading" /\ result[cmd] = "none"
    BY <1>5 DEF ReadCheck, CallDecided, TypeOK, PoolMutex, Commands
  <2>2. \/ /\ pc'[Caller] = "release" /\ result' = [result EXCEPT ![cmd] = "ok"]
        \/ /\ pc'[Caller] = "idle" /\ result' = [result EXCEPT ![cmd] = "failed"]
        \/ /\ pc'[Caller] = "read" /\ result' = result
    BY <1>5, <2>1 DEF ReadCheck, TypeOK
  <2>3. cmd' = cmd /\ result \in [Commands -> {"none", "ok", "failed"}]
    BY <1>5 DEF ReadCheck, TypeOK
  <2> QED
    BY <2>1, <2>2, <2>3 DEF CallDecided
<1>6. CASE ReadGiveUp
  <2>1. /\ cmd \in Commands /\ pc[Caller] = "read" /\ pc'[Caller] = "idle"
        /\ cmd' = cmd /\ result' = [result EXCEPT ![cmd] = "failed"]
        /\ result \in [Commands -> {"none", "ok", "failed"}]
    BY <1>6 DEF ReadGiveUp, TypeOK, PoolMutex, Commands
  <2> QED
    BY <2>1 DEF CallDecided
<1>7. ASSUME NEW w \in Workers, SignalNext(w) PROVE CallDecided'
  BY <1>1, <1>7, SignalEffect DEF SignalNext, WorkerLabels
<1>8. ASSUME NEW w \in Workers, WorkerStep(w) \/ SpuriousWakeup(w), ~SignalNext(w)
      PROVE  CallDecided'
  BY <1>1, <1>8
  DEF WorkerStep, LockPool, WaitForTask, SpuriousWakeup, PickTask, TakeTask,
      CountDoing, CommandReplied, CommandFailed, WriteTryLock, WriteGiveUp,
      WriteResult, FreeLock, FreeTask, TypeOK
<1>9. CASE UNCHANGED vars
  BY <1>1, <1>9 DEF vars
<1> QED
  BY <1>2, <1>3, <1>4, <1>5, <1>6, <1>7, <1>8, <1>9
  DEF Next, CallerStep, Execute, Read, WorkerStep

(* The commands that are allocated are those of the calls so far, and the tasks
   of the current one are all there until execute() has queued them. *)
CommandsKnown == commands \subseteq 1..cmd
TasksBuilt    == pc[Caller] \in {"add", "adding"} => {cmd} \X (1..ipNum) \subseteq tasks

Heap == NoUseAfterFree /\ RefCounted /\ CommandsKnown /\ TasksBuilt

(* The tasks of a command. *)
TasksOf(c) == {t \in tasks : t[1] = c}

(* A command has finitely many tasks. *)
LEMMA TasksFinite ==
  ASSUME TypeOK, NEW c
  PROVE  IsFiniteSet(TasksOf(c)) /\ Cardinality(TasksOf(c)) \in Nat
<1>1. IsFiniteSet(Tasks)
  <2>1. 1 \in Int /\ MaxCommands \in Int /\ N \in Int
    BY ConstantsAssumption
  <2>2. IsFiniteSet(Commands) /\ IsFiniteSet(Replicas)
    BY <2>1, FS_Interval DEF Commands, Replicas
  <2> QED
    BY <2>2, FS_Product DEF Tasks
<1>2. IsFiniteSet(TasksOf(c))
  BY <1>1, FS_Subset DEF TasksOf, TypeOK
<1> QED
  BY <1>2, FS_CardinalityType

(* The fan-out of a call adds as many tasks as its command counts references for. *)
LEMMA FanOutCount ==
  ASSUME NEW c, NEW n \in Nat
  PROVE  IsFiniteSet({c} \X (1..n)) /\ Cardinality({c} \X (1..n)) = n
<1>1. IsFiniteSet({c}) /\ Cardinality({c}) = 1
  BY FS_Singleton
<1>2. IsFiniteSet(1..n) /\ Cardinality(1..n) = n
  <2>1. 0 \in Int /\ 1 \in Int /\ n \in Int
    OBVIOUS
  <2> QED
    BY <2>1, FS_Interval
<1>3. /\ IsFiniteSet({c} \X (1..n))
      /\ Cardinality({c} \X (1..n)) = Cardinality({c}) * Cardinality(1..n)
  BY <1>1, <1>2, FS_Product
<1> QED
  BY <1>1, <1>2, <1>3

(* A command is freed by whoever drops its last reference, and then nobody has
   a pointer to it or to one of its tasks. *)
LEMMA StepHeap ==
  Typed /\ Owned /\ CallDecided /\ Heap /\ [Next]_vars => Heap'
<1> SUFFICES ASSUME Typed, Owned, CallDecided, Heap, [Next]_vars PROVE Heap'
  OBVIOUS
<1> USE ConstantsAssumption
    DEF Typed, Threads, poolVars, commandVars, heapVars, callerVars, Goto
<1>1. /\ Queued \cup Held \subseteq tasks /\ tasks \subseteq Tasks
      /\ \A t \in tasks : t[1] \in commands
      /\ \A c \in commands : c \in 1..cmd /\ c \in Commands
      /\ \A c \in 1..cmd : c \in Commands /\ (CallerHolds(c) => c \in commands)
      /\ \A c \in commands :
           refNum[c] = Cardinality(TasksOf(c)) + (IF CallerHolds(c) THEN 1 ELSE 0)
      /\ cmd \in Nat /\ refNum \in [Commands -> Int]
  BY SMTT(30) DEF Heap, NoUseAfterFree, RefCounted, CommandsKnown, TasksOf, TypeOK, Commands
<1>2. ASSUME UNCHANGED <<cmd, result>>,
             pc'[Caller] \in {"release", "releasing"} <=> pc[Caller] \in {"release", "releasing"}
      PROVE  \A c \in Commands : CallerHolds(c)' <=> CallerHolds(c)
  BY <1>2 DEF CallerHolds
<1>3. ASSUME UNCHANGED <<commands, tasks, refNum, cmd, ipNum>>,
             Queued' \cup Held' \subseteq Queued \cup Held,
             \A c \in Commands : CallerHolds(c)' <=> CallerHolds(c),
             pc'[Caller] \in {"add", "adding"} => pc[Caller] \in {"add", "adding"}
      PROVE  Heap'
  <2>1. NoUseAfterFree'
    BY <1>1, <1>3 DEF NoUseAfterFree
  <2>2. RefCounted'
    <3>1. \A c \in Commands : TasksOf(c)' = TasksOf(c)
      BY <1>3 DEF TasksOf
    <3> QED
      BY <1>1, <1>3, <3>1 DEF RefCounted, TasksOf
  <2>3. CommandsKnown' /\ TasksBuilt'
    BY <1>3 DEF Heap, CommandsKnown, TasksBuilt
  <2> QED
    BY <2>1, <2>2, <2>3 DEF Heap
<1>4. ASSUME NEW op \in Operations, NEW n \in Replicas, Call(op, n) PROVE Heap'
  <2>0. PICK c : c = cmd + 1
    OBVIOUS
  <2>1. /\ pc[Caller] = "idle" /\ pc'[Caller] = "add" /\ cmd' = c /\ ipNum' = n
        /\ c \in Commands /\ n \in Nat /\ UNCHANGED <<taskQueue, task, result>>
        /\ commands' = commands \cup {c} /\ tasks' = tasks \cup ({c} \X (1..n))
        /\ refNum' = [refNum EXCEPT ![c] = 1 + n]
    BY <1>4, <2>0 DEF Call, NewRefs, TypeOK, Commands, Replicas
  <2>2. /\ \A d \in 1..cmd : CallerHolds(d)' <=> CallerHolds(d)
        /\ CallerHolds(c)'
    <3>1. result[c] = "none" /\ c \in 1..c
      BY <1>1, <2>0, <2>1 DEF CallDecided, Commands
    <3>2. CallerHolds(c)'
      BY <2>1, <3>1 DEF CallerHolds
    <3>3. \A d \in 1..cmd : CallerHolds(d)' <=> CallerHolds(d)
      BY <1>1, <2>0, <2>1 DEF CallerHolds
    <3> QED
      BY <3>2, <3>3
  <2>3. \A t \in {c} \X (1..n) : t[1] = c
    OBVIOUS
  <2>4. c \notin commands /\ 1..cmd' = (1..cmd) \cup {c}
    BY <1>1, <2>0, <2>1
  <2>5. Queued' = Queued /\ Held' = Held
    BY <2>1 DEF Queued, Held
  <2>6. TasksOf(c)' = {c} \X (1..n) /\ \A d \in commands : TasksOf(d)' = TasksOf(d)
    BY <1>1, <2>1, <2>3, <2>4 DEF TasksOf
  <2>7. NoUseAfterFree'
    BY <1>1, <2>1, <2>2, <2>3, <2>4, <2>5 DEF NoUseAfterFree
  <2>8. RefCounted'
    <3>1. refNum'[c] = Cardinality(TasksOf(c)') + 1
      <4>1. Cardinality({c} \X (1..n)) = n
        BY <2>1, FanOutCount
      <4>2. refNum'[c] = 1 + n
        BY <1>1, <2>1
      <4> QED
        BY <2>1, <2>6, <4>1, <4>2
    <3>2. \A d \in commands : d # c /\ refNum'[d] = refNum[d]
      BY <1>1, <2>1, <2>4
    <3>3. \A d \in commands : CallerHolds(d)' <=> CallerHolds(d)
      BY <1>1, <2>2
    <3> SUFFICES ASSUME NEW d \in commands'
                 PROVE  refNum'[d] = Cardinality(TasksOf(d)')
                                      + (IF CallerHolds(d)' THEN 1 ELSE 0)
      BY DEF RefCounted, TasksOf
    <3>4. CASE d = c
      BY <2>2, <3>1, <3>4
    <3>5. CASE d # c
      BY <1>1, <2>1, <2>6, <3>2, <3>3, <3>5
    <3> QED
      BY <3>4, <3>5
  <2>9. CommandsKnown' /\ TasksBuilt'
    BY <1>1, <2>1, <2>4 DEF CommandsKnown, TasksBuilt
  <2> QED
    BY <2>7, <2>8, <2>9 DEF Heap
<1>5. CASE ExecuteAdd
  <2>1. /\ pc[Caller] = "adding" /\ pc'[Caller] \in {"add", "signal"}
        /\ UNCHANGED <<commands, tasks, refNum, cmd, ipNum, result, task>>
        /\ cmd \in Commands /\ ipNum \in 0..N /\ taskQueue \in Seq(Tasks)
    BY <1>5 DEF ExecuteAdd, TypeOK, PoolMutex, Commands
  <2>2. Held' = Held
    BY <2>1 DEF Held
  <2>3. Queued' \subseteq tasks
    <3>1. CASE BacklogFull
      BY <1>1, <1>5, <3>1 DEF ExecuteAdd, Queued
    <3>2. CASE ~BacklogFull
      <4>1. taskQueue' = taskQueue \o [i \in 1..ipNum |-> <<cmd, i>>]
        BY <1>5, <3>2 DEF ExecuteAdd
      <4>2. NoRepetition(taskQueue) /\ \A t \in Elements(taskQueue) : t[1] # cmd
        BY <2>1 DEF Owned, TaskOwnedOnce, TasksKnown, Queued, Elements, NoRepetition
      <4>3. Elements(taskQueue') = Elements(taskQueue) \cup ({cmd} \X (1..ipNum))
        BY <2>1, <4>1, <4>2, AddedElements, SMTT(30)
      <4>4. {cmd} \X (1..ipNum) \subseteq tasks
        BY <2>1 DEF Heap, TasksBuilt
      <4> QED
        BY <1>1, <4>3, <4>4 DEF Elements, Queued
    <3> QED
      BY <3>1, <3>2
  <2>4. \A c \in Commands : (CallerHolds(c)' <=> CallerHolds(c)) /\ TasksOf(c)' = TasksOf(c)
    BY <2>1, <1>2 DEF TasksOf
  <2>5. NoUseAfterFree'
    BY <1>1, <2>1, <2>2, <2>3, <2>4 DEF NoUseAfterFree
  <2>6. RefCounted'
    BY <1>1, <2>1, <2>4 DEF RefCounted, TasksOf
  <2>7. CommandsKnown' /\ TasksBuilt'
    BY <2>1 DEF Heap, CommandsKnown, TasksBuilt
  <2> QED
    BY <2>5, <2>6, <2>7 DEF Heap
<1>6. CASE ReleaseCommand
  <2>1. /\ pc[Caller] = "releasing" /\ pc'[Caller] = "idle"
        /\ UNCHANGED <<taskQueue, task, tasks, cmd, ipNum, result>>
        /\ refNum' = [refNum EXCEPT ![cmd] = @ - 1]
        /\ commands' = IF refNum[cmd] = 1 THEN commands \ {cmd} ELSE commands
        /\ cmd \in Commands /\ cmd \in 1..cmd /\ result[cmd] = "ok"
    BY <1>6 DEF ReleaseCommand, DropReference, TypeOK, PoolMutex, Commands, CallDecided
  <2>2. /\ CallerHolds(cmd) /\ ~CallerHolds(cmd)'
        /\ \A d \in Commands \ {cmd} : CallerHolds(d)' <=> CallerHolds(d)
    BY <2>1 DEF CallerHolds
  <2>3. Queued' = Queued /\ Held' = Held /\ \A d \in Commands : TasksOf(d)' = TasksOf(d)
    BY <2>1 DEF Queued, Held, TasksOf
  <2>4. cmd \in commands /\ refNum[cmd] = Cardinality(TasksOf(cmd)) + 1
    BY <1>1, <2>1, <2>2
  <2>5. refNum[cmd] = 1 => \A t \in tasks : t[1] # cmd
    <3>1. IsFiniteSet(TasksOf(cmd)) /\ Cardinality(TasksOf(cmd)) \in Nat
      BY TasksFinite
    <3>2. refNum[cmd] = 1 => TasksOf(cmd) = {}
      BY <2>4, <3>1, FS_EmptySet
    <3> QED
      BY <3>2 DEF TasksOf
  <2>6. NoUseAfterFree'
    BY <1>1, <2>1, <2>2, <2>3, <2>5 DEF NoUseAfterFree
  <2>7. RefCounted'
    <3>1. Cardinality(TasksOf(cmd)) \in Nat
      BY TasksFinite
    <3>2. refNum'[cmd] = Cardinality(TasksOf(cmd))
      BY <1>1, <2>1, <2>4, <3>1
    <3>3. \A d \in commands \ {cmd} : refNum'[d] = refNum[d]
      BY <1>1, <2>1
    <3> SUFFICES ASSUME NEW d \in commands'
                 PROVE  refNum'[d] = Cardinality(TasksOf(d)')
                                      + (IF CallerHolds(d)' THEN 1 ELSE 0)
      BY DEF RefCounted, TasksOf
    <3>4. d \in commands /\ d \in Commands
      BY <1>1, <2>1
    <3>5. CASE d = cmd
      <4>1. TasksOf(d)' = TasksOf(d) /\ ~CallerHolds(d)'
        BY <2>1, <2>2, <2>3, <3>4, <3>5
      <4> QED
        BY <3>1, <3>2, <3>5, <4>1
    <3>6. CASE d # cmd
      BY <1>1, <2>2, <2>3, <3>3, <3>4, <3>6
    <3> QED
      BY <3>5, <3>6
  <2>8. CommandsKnown' /\ TasksBuilt'
    BY <2>1 DEF Heap, CommandsKnown, TasksBuilt
  <2> QED
    BY <2>6, <2>7, <2>8 DEF Heap
<1>7. ASSUME NEW w \in Workers, FreeTask(w) PROVE Heap'
  <2>0. PICK u, c : u = task[w] /\ c = u[1]
    OBVIOUS
  <2>1. /\ pc[w] = "freeing" /\ pc'[Caller] = pc[Caller]
        /\ UNCHANGED <<taskQueue, cmd, ipNum, result>>
        /\ tasks' = tasks \ {u} /\ task' = [task EXCEPT ![w] = NoTask]
        /\ refNum' = [refNum EXCEPT ![c] = @ - 1]
        /\ commands' = IF refNum[c] = 1 THEN commands \ {c} ELSE commands
        /\ u # NoTask
    BY <1>7, <2>0 DEF FreeTask, DropReference, TypeOK, PoolMutex, TaskLabels
  <2>2. u \in Held /\ u \in tasks /\ c \in commands /\ c \in Commands /\ u \in TasksOf(c)
    BY <1>1, <2>0, <2>1, OwnedType DEF TasksOf
  <2>3. \A d \in Commands : CallerHolds(d)' <=> CallerHolds(d)
    BY <2>1, <1>2
  <2>4. TasksOf(c)' = TasksOf(c) \ {u} /\ \A d \in Commands \ {c} : TasksOf(d)' = TasksOf(d)
    BY <2>0, <2>1 DEF TasksOf
  <2>5. /\ IsFiniteSet(TasksOf(c)) /\ Cardinality(TasksOf(c)) \in Nat
        /\ IsFiniteSet(TasksOf(c)') /\ Cardinality(TasksOf(c)') \in Nat
        /\ Cardinality(TasksOf(c)') = Cardinality(TasksOf(c)) - 1
    <3>1. IsFiniteSet(TasksOf(c)) /\ Cardinality(TasksOf(c)) \in Nat
      BY TasksFinite
    <3>2. /\ IsFiniteSet(TasksOf(c) \ {u})
          /\ Cardinality(TasksOf(c) \ {u}) = Cardinality(TasksOf(c)) - 1
      BY <2>2, <3>1, FS_RemoveElement
    <3>3. Cardinality(TasksOf(c) \ {u}) \in Nat
      BY <3>2, FS_CardinalityType
    <3> QED
      BY <2>4, <3>1, <3>2, <3>3
  <2>6. refNum[c] = 1 => ~CallerHolds(c) /\ \A t \in tasks' : t[1] # c
    <3>1. refNum[c] = 1 => ~CallerHolds(c) /\ TasksOf(c)' = {}
      BY <1>1, <2>2, <2>5, FS_EmptySet
    <3>2. TasksOf(c)' = {t \in tasks' : t[1] = c}
      BY DEF TasksOf
    <3> QED
      BY <3>1, <3>2
  <2>7. Queued' \cup Held' \subseteq (Queued \cup Held) \ {u}
    <3>1. u \notin Queued
      BY <2>0, <2>1 DEF Owned, TaskOwnedOnce
    <3>2. \A v \in Workers : task'[v] # NoTask => task'[v] = task[v] /\ task[v] # u
      BY <2>0, <2>1 DEF Owned, TaskOwnedOnce, TypeOK
    <3> QED
      BY <2>1, <3>1, <3>2 DEF Queued, Held
  <2>8. NoUseAfterFree'
    BY <1>1, <2>1, <2>3, <2>6, <2>7 DEF NoUseAfterFree
  <2>9. RefCounted'
    <3>1. refNum'[c] = Cardinality(TasksOf(c)') + (IF CallerHolds(c) THEN 1 ELSE 0)
      BY <1>1, <2>1, <2>2, <2>5
    <3>2. \A d \in commands \ {c} : refNum'[d] = refNum[d]
      BY <1>1, <2>1
    <3> SUFFICES ASSUME NEW d \in commands'
                 PROVE  refNum'[d] = Cardinality(TasksOf(d)')
                                      + (IF CallerHolds(d)' THEN 1 ELSE 0)
      BY DEF RefCounted, TasksOf
    <3>3. d \in commands /\ d \in Commands
      BY <1>1, <2>1
    <3>4. CASE d = c
      BY <2>3, <3>1, <3>3, <3>4
    <3>5. CASE d # c
      BY <1>1, <2>3, <2>4, <3>2, <3>3, <3>5
    <3> QED
      BY <3>4, <3>5
  <2>10. CommandsKnown' /\ TasksBuilt'
    <3>1. u[1] = cmd => pc[Caller] \notin {"add", "adding"}
      BY <2>2 DEF Owned, TasksKnown
    <3>2. \A t \in {cmd} \X (1..ipNum) : t[1] = cmd
      OBVIOUS
    <3> QED
      BY <1>1, <2>1, <3>1, <3>2 DEF Heap, CommandsKnown, TasksBuilt
  <2> QED
    BY <2>8, <2>9, <2>10 DEF Heap
<1>8. ASSUME NEW w \in Workers,
             PickTask(w) \/ TakeTask(w) \/ CommandFailed(w) \/ WriteGiveUp(w)
      PROVE  Heap'
  <2>1. /\ UNCHANGED <<commands, tasks, refNum, cmd, ipNum, result>>
        /\ pc'[Caller] = pc[Caller]
    BY <1>8 DEF PickTask, TakeTask, CommandFailed, WriteGiveUp, TypeOK
  <2>2. CASE PickTask(w)
    <3>1. Queued' = Queued /\ Head(taskQueue) \in Queued
      BY <2>2, OwnedType DEF PickTask, Queued
    <3>2. Held' \subseteq Held \cup {Head(taskQueue)}
      BY <2>2 DEF PickTask, Held, TypeOK
    <3> QED
      BY <1>2, <1>3, <2>1, <3>1, <3>2
  <2>3. CASE TakeTask(w)
    <3>1. /\ taskQueue' = Tail(taskQueue) /\ taskQueue # <<>> /\ taskQueue \in Seq(Tasks)
          /\ task' = task
      BY <2>3 DEF TakeTask, PoolMutex, TypeOK
    <3>2. NoRepetition(taskQueue)
      BY DEF Owned, TaskOwnedOnce, NoRepetition
    <3>3. Elements(taskQueue') = Elements(taskQueue) \ {Head(taskQueue)}
      BY <3>1, <3>2, TailElements
    <3>4. Queued' \subseteq Queued /\ Held' = Held
      BY <3>1, <3>3 DEF Elements, Queued, Held
    <3> QED
      BY <1>2, <1>3, <2>1, <3>4
  <2>4. CASE CommandFailed(w) \/ WriteGiveUp(w)
    <3>1. Queued' = Queued
      BY <2>4 DEF CommandFailed, WriteGiveUp, Queued
    <3>2. Held' \subseteq Held
      BY <2>4 DEF CommandFailed, WriteGiveUp, Held, TypeOK
    <3> QED
      BY <1>2, <1>3, <2>1, <3>1, <3>2
  <2> QED
    BY <1>8, <2>2, <2>3, <2>4
<1>9. ASSUME UNCHANGED <<taskQueue, task, commands, tasks, refNum, cmd, ipNum>>,
             \A c \in Commands : CallerHolds(c)' <=> CallerHolds(c),
             pc'[Caller] \in {"add", "adding"} => pc[Caller] \in {"add", "adding"}
      PROVE  Heap'
  BY <1>3, <1>9 DEF Queued, Held
<1>10. CASE ExecuteSignal
  <2>1. PICK l \in {"read", "signal"} : SignalThenGoto(Caller, l)
    BY <1>10 DEF ExecuteSignal
  <2>2. pc[Caller] = "signal" /\ pc'[Caller] = l
    BY <1>10, <2>1, SignalEffect DEF ExecuteSignal, CallerLabels
  <2> QED
    BY <1>2, <1>9, <1>10, <2>2 DEF ExecuteSignal
<1>11. ASSUME NEW w \in Workers, SignalNext(w) PROVE Heap'
  <2>1. pc'[Caller] = pc[Caller]
    BY <1>11, SignalEffect DEF SignalNext, WorkerLabels
  <2> QED
    BY <1>2, <1>9, <1>11, <2>1 DEF SignalNext
<1>12. ASSUME NEW w \in Workers,
             \/ LockPool(w) \/ WaitForTask(w) \/ SpuriousWakeup(w) \/ CountDoing(w)
             \/ CommandReplied(w) \/ WriteTryLock(w) \/ WriteResult(w) \/ FreeLock(w)
       PROVE  Heap'
  <2>1. pc'[Caller] = pc[Caller]
    BY <1>12 DEF LockPool, WaitForTask, SpuriousWakeup, CountDoing, CommandReplied,
         WriteTryLock, WriteResult, FreeLock, TypeOK
  <2> QED
    BY <1>2, <1>9, <1>12, <2>1
    DEF LockPool, WaitForTask, SpuriousWakeup, CountDoing, CommandReplied,
        WriteTryLock, WriteResult, FreeLock
<1>13. CASE ReadCheck \/ ReadGiveUp
  <2>1. /\ UNCHANGED <<taskQueue, task, commands, tasks, refNum, cmd, ipNum>>
        /\ pc'[Caller] \notin {"add", "adding"}
    BY <1>13 DEF ReadCheck, ReadGiveUp, TypeOK
  <2>2. \A c \in Commands : CallerHolds(c)' <=> CallerHolds(c)
    <3>0. /\ cmd \in Commands /\ pc[Caller] \in {"read", "reading"}
          /\ result[cmd] = "none" /\ result \in [Commands -> {"none", "ok", "failed"}]
      BY <1>13, SMTT(30) DEF ReadCheck, ReadGiveUp, TypeOK, PoolMutex, Commands, CallDecided
    <3>1. /\ result'[cmd] = "ok" => pc'[Caller] = "release"
          /\ \A c \in Commands \ {cmd} : result'[c] = result[c]
      <4>1. CASE ReadCheck
        BY <3>0, <4>1 DEF ReadCheck, TypeOK
      <4>2. CASE ReadGiveUp
        BY <3>0, <4>2 DEF ReadGiveUp, TypeOK
      <4> QED
        BY <1>13, <4>1, <4>2
    <3>2. \A c \in Commands \ {cmd} : CallerHolds(c)' <=> CallerHolds(c)
      BY <2>1, <3>1 DEF CallerHolds
    <3>3. \A c \in Commands : c = cmd => CallerHolds(c)' /\ CallerHolds(c)
      BY <2>1, <3>0, <3>1 DEF CallerHolds, Commands
    <3> QED
      BY <3>2, <3>3
  <2> QED
    BY <1>9, <2>1, <2>2
<1>14. CASE ExecuteTryLock \/ ExecuteGiveUp \/ ReadTryLock \/ ReleaseLock \/ UNCHANGED vars
  <2>1. /\ UNCHANGED <<taskQueue, task, commands, tasks, refNum, cmd, ipNum, result>>
        /\ pc'[Caller] \in {"add", "adding"} => pc[Caller] \in {"add", "adding"}
        /\ pc'[Caller] \in {"release", "releasing"} <=> pc[Caller] \in {"release", "releasing"}
    BY <1>14 DEF ExecuteTryLock, ExecuteGiveUp, ReadTryLock, ReleaseLock, vars, TypeOK
  <2> QED
    BY <1>2, <1>9, <2>1
<1> QED
  BY <1>4, <1>5, <1>6, <1>7, <1>8, <1>10, <1>11, <1>12, <1>13, <1>14
  DEF Next, CallerStep, Execute, Read, WorkerStep

(* No command is allocated at first, and none has been called. *)
LEMMA InitHeap == Init => CallDecided /\ Heap
<1> SUFFICES ASSUME Init PROVE CallDecided /\ Heap
  OBVIOUS
<1>1. Queued = {} /\ Held = {} /\ pc[Caller] = "idle"
  BY ConstantsAssumption DEF Init, Queued, Held, Threads
<1>2. CallDecided
  BY <1>1 DEF Init, CallDecided, Commands
<1>3. Heap
  BY <1>1 DEF Init, Heap, NoUseAfterFree, RefCounted, CommandsKnown, TasksBuilt
<1> QED
  BY <1>2, <1>3

(* The heap is sound in every reachable state. *)
THEOREM HeapInv == Spec => [](CallDecided /\ Heap)
BY InitHeap, TypedInv, OwnedInv, StepDecided, StepHeap, PTL DEF Spec

(* The reference counts are right, in whatever order the last answer, the
   caller's timeout and the frees come. *)
THEOREM RefCountCorrect == Spec => []RefCounted
BY HeapInv, PTL DEF Heap

(* No thread reaches a task or a command that has been freed. *)
THEOREM FreeCorrect == Spec => []NoUseAfterFree
BY HeapInv, PTL DEF Heap

-----------------------------------------------------------------------------
(* The answers: the slots of a command's blob buffer, and that the pool
   implements quorum calls. *)

(* A command's mutex is held by the thread that is in the code it protects. *)
CmdMutex ==
  /\ \A w \in Workers :
       pc[w] \in {"writing", "freeing"} => cmdLock[task[w][1]] = w
  /\ pc[Caller] \in {"reading", "releasing"} => cmdLock[cmd] = Caller

(* Only the thread in that code releases the mutex. *)
LEMMA StepCmdMutex == Typed /\ CmdMutex /\ [Next]_vars => CmdMutex'
<1> SUFFICES ASSUME Typed, CmdMutex, [Next]_vars PROVE CmdMutex'
  OBVIOUS
<1> USE ConstantsAssumption
    DEF Typed, Threads, poolVars, commandVars, heapVars, callerVars, Goto,
        AcquireCmd, ReleaseCmd, DropReference
<1>1. /\ \A w \in Workers : w # NoThread /\ w # Caller /\ w \in Threads
      /\ Caller # NoThread /\ Caller \in Threads
      /\ pc \in [Threads -> CallerLabels \cup WorkerLabels]
      /\ cmdLock \in [Commands -> Threads \cup {NoThread}]
      /\ task \in [Workers -> Tasks \cup {NoTask}]
      /\ pc[Caller] # "idle" => cmd \in Commands
      /\ \A w \in Workers : pc[w] \in {"write", "writing", "free", "freeing"} =>
           task[w] \in Tasks /\ task[w][1] \in Commands
  BY TaskType, SMTT(30) DEF TypeOK, PoolMutex, TaskLabels, Commands
<1>2. ASSUME UNCHANGED <<cmdLock, cmd>>,
             pc'[Caller] \in {"reading", "releasing"} => pc[Caller] \in {"reading", "releasing"},
             \A w \in Workers : pc'[w] \in {"writing", "freeing"} =>
               pc[w] \in {"writing", "freeing"} /\ task'[w] = task[w]
      PROVE  CmdMutex'
  BY <1>2 DEF CmdMutex
<1>3. ASSUME NEW op \in Operations, NEW n \in Replicas, Call(op, n) PROVE CmdMutex'
  BY <1>1, <1>3 DEF Call, CmdMutex
<1>4. CASE ReadTryLock
  <2>1. CASE UNCHANGED <<cmdLock, pc>>
    BY <1>2, <1>4, <2>1 DEF ReadTryLock
  <2>2. CASE AcquireCmd(Caller, cmd) /\ Goto(Caller, "reading")
    <3>1. /\ cmd \in Commands /\ UNCHANGED <<cmd, task>>
          /\ \A w \in Workers : pc'[w] = pc[w]
          /\ cmdLock[cmd] = NoThread /\ cmdLock' = [cmdLock EXCEPT ![cmd] = Caller]
      BY <1>1, <1>4, <2>2 DEF ReadTryLock
    <3> QED
      BY <1>1, <3>1 DEF CmdMutex
  <2> QED
    BY <1>4, <2>1, <2>2 DEF ReadTryLock
<1>5. CASE ReleaseLock
  <2>1. /\ cmd \in Commands /\ UNCHANGED <<cmd, task>>
        /\ \A w \in Workers : pc'[w] = pc[w]
        /\ cmdLock[cmd] = NoThread /\ cmdLock' = [cmdLock EXCEPT ![cmd] = Caller]
    BY <1>1, <1>5 DEF ReleaseLock
  <2> QED
    BY <1>1, <2>1 DEF CmdMutex
<1>6. CASE ReadCheck \/ ReleaseCommand
  <2>1. /\ cmd \in Commands /\ UNCHANGED <<cmd, task>>
        /\ pc'[Caller] \in {"release", "idle", "read"}
        /\ \A w \in Workers : pc'[w] = pc[w]
        /\ cmdLock[cmd] = Caller /\ cmdLock' = [cmdLock EXCEPT ![cmd] = NoThread]
    BY <1>1, <1>6 DEF ReadCheck, ReleaseCommand, CmdMutex
  <2> QED
    BY <1>1, <2>1 DEF CmdMutex
<1>7. ASSUME NEW w \in Workers, WriteTryLock(w) \/ FreeLock(w) PROVE CmdMutex'
  <2>1. CASE UNCHANGED <<cmdLock, pc>>
    BY <1>2, <1>7, <2>1 DEF WriteTryLock, FreeLock
  <2>2. CASE /\ AcquireCmd(w, task[w][1])
             /\ \A t \in Threads \ {w} : pc'[t] = pc[t]
    <3>1. /\ task[w][1] \in Commands /\ UNCHANGED <<cmd, task>>
          /\ cmdLock[task[w][1]] = NoThread
          /\ cmdLock' = [cmdLock EXCEPT ![task[w][1]] = w]
      BY <1>1, <1>7, <2>2 DEF WriteTryLock, FreeLock
    <3>2. \A v \in Workers : pc[v] \in {"writing", "freeing"} => task[v][1] \in Commands
      BY <1>1
    <3> QED
      BY <1>1, <2>2, <3>1, <3>2 DEF CmdMutex
  <2> QED
    BY <1>1, <1>7, <2>1, <2>2 DEF WriteTryLock, FreeLock
<1>8. ASSUME NEW w \in Workers, WriteResult(w) \/ FreeTask(w) PROVE CmdMutex'
  <2>1. /\ task[w][1] \in Commands /\ cmd' = cmd
        /\ pc'[w] \in {"free", "lock"} /\ \A t \in Threads \ {w} : pc'[t] = pc[t]
        /\ \A v \in Workers \ {w} : task'[v] = task[v]
        /\ cmdLock[task[w][1]] = w
        /\ cmdLock' = [cmdLock EXCEPT ![task[w][1]] = NoThread]
    BY <1>1, <1>8 DEF WriteResult, FreeTask, CmdMutex
  <2>2. \A v \in Workers : pc[v] \in {"writing", "freeing"} => task[v][1] \in Commands
    BY <1>1
  <2> QED
    BY <1>1, <2>1, <2>2 DEF CmdMutex
<1>9. CASE ExecuteSignal
  <2>1. PICK l \in {"read", "signal"} : SignalThenGoto(Caller, l)
    BY <1>9 DEF ExecuteSignal
  <2>2. /\ pc'[Caller] = l
        /\ \A u \in Workers : pc'[u] = pc[u] \/ pc'[u] = "wake"
    BY <1>1, <1>9, <2>1, SignalEffect DEF ExecuteSignal, CallerLabels
  <2> QED
    BY <1>2, <1>9, <2>2 DEF ExecuteSignal
<1>10. ASSUME NEW w \in Workers, SignalNext(w) PROVE CmdMutex'
  <2>1. /\ pc'[w] = "command" /\ pc'[Caller] = pc[Caller]
        /\ \A u \in Workers \ {w} : pc'[u] = pc[u] \/ pc'[u] = "wake"
    BY <1>1, <1>10, SignalEffect DEF SignalNext, WorkerLabels
  <2> QED
    BY <1>2, <1>10, <2>1 DEF SignalNext
<1>11. ASSUME NEW w \in Workers,
              \/ LockPool(w) \/ WaitForTask(w) \/ SpuriousWakeup(w) \/ PickTask(w)
              \/ TakeTask(w) \/ CountDoing(w) \/ CommandReplied(w) \/ CommandFailed(w)
              \/ WriteGiveUp(w)
       PROVE  CmdMutex'
  <2>1. /\ pc'[w] \notin {"writing", "freeing"} /\ \A t \in Threads \ {w} : pc'[t] = pc[t]
        /\ \A v \in Workers \ {w} : task'[v] = task[v]
    BY <1>1, <1>11 DEF LockPool, WaitForTask, SpuriousWakeup, PickTask, TakeTask,
         CountDoing, CommandReplied, CommandFailed, WriteGiveUp
  <2> QED
    BY <1>1, <1>2, <1>11, <2>1 DEF LockPool, WaitForTask, SpuriousWakeup, PickTask,
       TakeTask, CountDoing, CommandReplied, CommandFailed, WriteGiveUp
<1>12. CASE ExecuteTryLock \/ ExecuteGiveUp \/ ExecuteAdd \/ ReadGiveUp \/ UNCHANGED vars
  <2>1. /\ UNCHANGED <<cmdLock, cmd, task>> /\ \A w \in Workers : pc'[w] = pc[w]
        /\ pc'[Caller] \in {"reading", "releasing"} => pc[Caller] \in {"reading", "releasing"}
    BY <1>1, <1>12 DEF ExecuteTryLock, ExecuteGiveUp, ExecuteAdd, ReadGiveUp, vars
  <2> QED
    BY <1>2, <2>1
<1> QED
  BY <1>3, <1>4, <1>5, <1>6, <1>7, <1>8, <1>9, <1>10, <1>11, <1>12
  DEF Next, CallerStep, Execute, Read, WorkerStep

(* No command is locked at first. *)
LEMMA InitCmdMutex == Init => CmdMutex
BY ConstantsAssumption DEF Init, CmdMutex, Threads

-----------------------------------------------------------------------------
(* The slots of the blob buffer *)

(* The tasks that have not been answered yet: those in the queue, and those of
   the workers that have not written back. *)
Unwritten == {"take", "count", "signal", "command", "write", "writing"}
Pending   == Queued \cup {task[w] : w \in {v \in Workers : pc[v] \in Unwritten}}

(* A pending task is one whose replica has no slot yet. *)
Unanswered == \A t \in Pending : t[2] \notin Acked[t[1]]

(* No answer is there before the tasks are queued, nor more than replicas. *)
Fresh ==
  \A c \in Commands :
    c > cmd \/ (c = cmd /\ pc[Caller] \in {"add", "adding"}) => successNum[c] = 0

SlotsBounded == \A c \in Commands : successNum[c] <= N

Slots == SlotPerAnswer /\ Unanswered /\ Fresh /\ SlotsBounded

(* The pigeonhole principle for slots: if the first n of them hold answers of
   distinct replicas, none of them r, then one is left for r. *)
LEMMA SlotLeft ==
  ASSUME NEW b \in [Replicas -> 0..N], NEW n \in 0..N, NEW r \in Replicas,
         \A i, j \in 1..n : b[i] # 0 /\ (i # j => b[i] # b[j]),
         \A i \in 1..n : b[i] # r
  PROVE  n + 1 \in Replicas
<1> SUFFICES ASSUME n = N PROVE FALSE
  BY ConstantsAssumption DEF Replicas
<1> DEFINE f == [i \in 1..N |-> b[i]]
<1>1. IsFiniteSet(Replicas) /\ Cardinality(Replicas) = N /\ N \in Nat \ {0}
  <2>1. 1 \in Int /\ N \in Int /\ N \in Nat \ {0}
    BY ConstantsAssumption
  <2> QED
    BY <2>1, FS_Interval DEF Replicas
<1>2. /\ IsFiniteSet(Replicas \ {r}) /\ Cardinality(Replicas \ {r}) = N - 1
  BY <1>1, FS_RemoveElement
<1>3. f \in [Replicas -> Replicas \ {r}] /\ \A i, j \in Replicas : f[i] = f[j] => i = j
  BY <1>1 DEF Replicas
<1> HIDE DEF f
<1>4. \E i, j \in Replicas : i # j /\ f[i] = f[j]
  BY <1>1, <1>2, <1>3, FS_PigeonHole
<1> QED
  BY <1>3, <1>4

(* What is known of a pending task. *)
LEMMA PendingType ==
  ASSUME Typed, Owned
  PROVE  /\ Pending \subseteq Tasks /\ Pending \subseteq Queued \cup Held
         /\ \A t \in Pending : t[1] <= cmd
         /\ \A w \in Workers : pc[w] \in Unwritten =>
              task[w] \in Pending /\ task[w] # NoTask
<1>1. \A w \in Workers : pc[w] \in Unwritten => task[w] \in Held /\ task[w] # NoTask
  BY DEF Typed, PoolMutex, TaskLabels, Unwritten, Held
<1>2. Pending \subseteq Queued \cup Held
  BY <1>1 DEF Pending
<1>3. Queued \subseteq Tasks /\ Held \subseteq Tasks
  BY OwnedType DEF Typed
<1> QED
  BY <1>1, <1>2, <1>3 DEF Owned, TasksKnown, Pending

(* writeResult() of a worker adds its replica to those that have answered. *)
LEMMA WriteEffect ==
  ASSUME Typed, Owned, Slots, NEW w \in Workers, WriteResult(w),
         NEW t, NEW c, NEW r, NEW n,
         t = task[w], c = t[1], r = t[2], n = successNum[c]
  PROVE  /\ t \in Pending /\ t \in Tasks /\ t # NoTask /\ c <= cmd
         /\ c \in Commands /\ r \in Replicas /\ r # 0
         /\ slot[w] = n /\ n \in Nat /\ n + 1 \in Replicas
         /\ \A i, j \in 1..n : blob[c][i] # 0 /\ (i # j => blob[c][i] # blob[c][j])
         /\ \A i \in 1..n : blob[c][i] # r /\ blob'[c][i] = blob[c][i]
         /\ successNum'[c] = n + 1 /\ blob'[c][n + 1] = r
         /\ \A d \in Commands \ {c} : successNum'[d] = successNum[d] /\ blob'[d] = blob[d]
         /\ r \notin Acked[c] /\ Acked'[c] = Acked[c] \cup {r}
         /\ \A d \in Commands \ {c} : Acked'[d] = Acked[d]
<1>a. /\ successNum \in [Commands -> Nat] /\ blob \in [Commands -> [Replicas -> 0..N]]
      /\ \A d \in Commands : Acked[d] = {blob[d][i] : i \in 1..successNum[d]}
      /\ N \in Nat
  BY ConstantsAssumption DEF Typed, TypeOK, Acked
<1>0. t = task[w] /\ c = t[1] /\ r = t[2] /\ n = successNum[c]
  OBVIOUS
<1>1. pc[w] = "writing"
  BY DEF WriteResult
<1>2. /\ t \in Pending /\ t \in Tasks /\ t # NoTask /\ c <= cmd
      /\ c \in Commands /\ r \in Replicas
  BY <1>0, <1>1, PendingType, TaskType DEF Unwritten
<1>3. slot[w] = n /\ n \in 0..N
  BY <1>a, <1>0, <1>1, <1>2 DEF Slots, SlotPerAnswer, SlotsBounded
<1>4. \A i, j \in 1..n : blob[c][i] # 0 /\ (i # j => blob[c][i] # blob[c][j])
  BY <1>0, <1>2 DEF Slots, SlotPerAnswer
<1>5. r \notin Acked[c]
  BY <1>0, <1>2 DEF Slots, Unanswered
<1>6. \A i \in 1..n : blob[c][i] # r
  BY <1>a, <1>0, <1>2, <1>5
<1>7. n + 1 \in Replicas
  <2>1. blob[c] \in [Replicas -> 0..N]
    BY <1>a, <1>2
  <2> QED
    BY <2>1, <1>2, <1>3, <1>4, <1>6, SlotLeft
<1>8. /\ successNum' = [successNum EXCEPT ![c] = n + 1]
      /\ blob' = [blob EXCEPT ![c][n + 1] = r]
  BY <1>0, <1>3 DEF WriteResult
<1>9. /\ successNum'[c] = n + 1 /\ blob'[c][n + 1] = r /\ n \in Nat
      /\ \A i \in 1..n : blob'[c][i] = blob[c][i]
      /\ \A d \in Commands \ {c} : successNum'[d] = successNum[d] /\ blob'[d] = blob[d]
      /\ r # 0
  BY <1>a, <1>2, <1>3, <1>7, <1>8, ConstantsAssumption, SMTT(30) DEF Replicas
<1>10. /\ Acked'[c] = Acked[c] \cup {r}
       /\ \A d \in Commands \ {c} : Acked'[d] = Acked[d]
  <2>1. \A d \in Commands : Acked'[d] = {blob'[d][i] : i \in 1..successNum'[d]}
    BY DEF Acked
  <2>2. \A d \in Commands \ {c} : Acked'[d] = Acked[d]
    <3> SUFFICES ASSUME NEW d \in Commands \ {c} PROVE Acked'[d] = Acked[d]
      OBVIOUS
    <3>1. successNum'[d] = successNum[d] /\ blob'[d] = blob[d]
      BY <1>9
    <3>2. {blob'[d][i] : i \in 1..successNum'[d]} = {blob[d][i] : i \in 1..successNum[d]}
      BY <3>1
    <3> QED
      BY <1>a, <2>1, <3>2
  <2>3. Acked'[c] = {blob'[c][i] : i \in 1..(n + 1)}
    BY <1>2, <1>9, <2>1
  <2>4. 1..(n + 1) = (1..n) \cup {n + 1}
    BY <1>9
  <2>5. {blob'[c][i] : i \in 1..(n + 1)} = {blob[c][i] : i \in 1..n} \cup {r}
    BY <1>9, <2>4
  <2> QED
    BY <1>a, <1>0, <1>2, <2>2, <2>3, <2>5
<1> QED
  BY <1>2, <1>3, <1>4, <1>5, <1>6, <1>7, <1>9, <1>10

(* A worker writes the next slot, and its replica is not in the others. *)
LEMMA StepSlots == Typed /\ Owned /\ CmdMutex /\ Slots /\ [Next]_vars => Slots'
<1> SUFFICES ASSUME Typed, Owned, CmdMutex, Slots, [Next]_vars PROVE Slots'
  OBVIOUS
<1> USE ConstantsAssumption
    DEF Typed, Threads, poolVars, commandVars, heapVars, callerVars, Goto
<1>1. /\ pc \in [Threads -> CallerLabels \cup WorkerLabels]
      /\ successNum \in [Commands -> Nat] /\ blob \in [Commands -> [Replicas -> 0..N]]
      /\ slot \in [Workers -> Nat] /\ cmd \in Nat
      /\ \A c \in Commands : Acked[c] = {blob[c][i] : i \in 1..successNum[c]}
  BY DEF TypeOK, Acked
<1>2. ASSUME UNCHANGED <<successNum, blob, cmd>>, Pending' \subseteq Pending,
             \A w \in Workers : pc'[w] = "writing" =>
               slot'[w] = successNum[task'[w][1]],
             pc'[Caller] \in {"add", "adding"} => pc[Caller] \in {"add", "adding"}
      PROVE  Slots'
  <2>1. Acked' = Acked
    BY <1>2 DEF Acked
  <2>2. SlotPerAnswer' /\ Fresh' /\ SlotsBounded'
    BY <1>2 DEF Slots, SlotPerAnswer, Fresh, SlotsBounded
  <2>3. Unanswered'
    BY <1>2, <2>1 DEF Slots, Unanswered
  <2> QED
    BY <2>2, <2>3 DEF Slots
<1>3. ASSUME UNCHANGED <<successNum, blob, cmd, slot, task, taskQueue>>,
             \A w \in Workers : /\ pc'[w] = "writing" => pc[w] = "writing"
                                /\ pc'[w] \in Unwritten => pc[w] \in Unwritten,
             pc'[Caller] \in {"add", "adding"} => pc[Caller] \in {"add", "adding"}
      PROVE  Slots'
  <2>1. Pending' \subseteq Pending
    BY <1>3 DEF Pending, Queued
  <2>2. \A w \in Workers : pc'[w] = "writing" => slot'[w] = successNum[task'[w][1]]
    BY <1>3 DEF Slots, SlotPerAnswer
  <2> QED
    BY <1>2, <1>3, <2>1, <2>2
<1>4. ASSUME NEW op \in Operations, NEW n \in Replicas, Call(op, n) PROVE Slots'
  <2>1. /\ UNCHANGED <<successNum, blob, slot, task, taskQueue>>
        /\ cmd' = cmd + 1 /\ \A w \in Workers : pc'[w] = pc[w]
    BY <1>1, <1>4 DEF Call
  <2>2. Pending' = Pending /\ Acked' = Acked
    BY <2>1 DEF Pending, Queued, Acked
  <2>3. SlotPerAnswer' /\ SlotsBounded' /\ Unanswered'
    BY <2>1, <2>2 DEF Slots, SlotPerAnswer, SlotsBounded, Unanswered
  <2>4. Fresh'
    BY <1>1, <2>1 DEF Slots, Fresh, Commands
  <2> QED
    BY <2>3, <2>4 DEF Slots
<1>5. CASE ExecuteAdd
  <2>1. /\ UNCHANGED <<successNum, blob, slot, task, cmd>>
        /\ cmd \in Commands /\ ipNum \in 0..N /\ taskQueue \in Seq(Tasks)
        /\ pc[Caller] = "adding" /\ \A w \in Workers : pc'[w] = pc[w]
    BY <1>1, <1>5 DEF ExecuteAdd, TypeOK, PoolMutex, Commands
  <2>2. CASE BacklogFull
    BY <1>3, <1>5, <2>1, <2>2 DEF ExecuteAdd
  <2>3. CASE ~BacklogFull
    <3>1. taskQueue' = taskQueue \o [i \in 1..ipNum |-> <<cmd, i>>]
      BY <1>5, <2>3 DEF ExecuteAdd
    <3>2. NoRepetition(taskQueue) /\ \A t \in Elements(taskQueue) : t[1] # cmd
      BY <2>1 DEF Owned, TaskOwnedOnce, TasksKnown, Queued, Elements, NoRepetition
    <3>3. Elements(taskQueue') = Elements(taskQueue) \cup ({cmd} \X (1..ipNum))
      BY <2>1, <3>1, <3>2, AddedElements, SMTT(30)
    <3>4. Pending' = Pending \cup ({cmd} \X (1..ipNum)) /\ Acked' = Acked
      BY <2>1, <3>3, SMTT(30) DEF Elements, Queued, Pending, Acked
    <3>5. Acked[cmd] = {}
      <4>1. successNum[cmd] = 0
        BY <2>1 DEF Slots, Fresh
      <4> QED
        BY <1>1, <2>1, <4>1
    <3>6. Unanswered'
      <4>1. \A t \in {cmd} \X (1..ipNum) : t[1] = cmd
        OBVIOUS
      <4> QED
        BY <3>4, <3>5, <4>1 DEF Slots, Unanswered
    <3>7. SlotPerAnswer' /\ SlotsBounded'
      BY <2>1 DEF Slots, SlotPerAnswer, SlotsBounded
    <3>8. Fresh'
      BY <2>1 DEF Slots, Fresh
    <3> QED
      BY <3>6, <3>7, <3>8 DEF Slots
  <2> QED
    BY <2>2, <2>3
<1>6. ASSUME NEW w \in Workers, PickTask(w) \/ TakeTask(w) PROVE Slots'
  <2>1. /\ UNCHANGED <<successNum, blob, slot, cmd>> /\ pc'[w] \in {"take", "count"}
        /\ \A t \in Threads \ {w} : pc'[t] = pc[t]
        /\ \A v \in Workers \ {w} : task'[v] = task[v]
    BY <1>1, <1>6 DEF PickTask, TakeTask, TypeOK
  <2>2. task'[w] \in Pending
    <3>1. CASE PickTask(w)
      <4>1. taskQueue # <<>> /\ task'[w] = Head(taskQueue)
        BY <3>1 DEF PickTask, TypeOK
      <4> QED
        BY <4>1, OwnedType DEF Pending
    <3>2. CASE TakeTask(w)
      BY <3>2, PendingType DEF TakeTask, Unwritten
    <3> QED
      BY <1>6, <3>1, <3>2
  <2>3. Queued' \subseteq Queued
    <3>1. CASE PickTask(w)
      BY <3>1 DEF PickTask, Queued
    <3>2. CASE TakeTask(w)
      <4>1. /\ taskQueue' = Tail(taskQueue) /\ taskQueue # <<>> /\ taskQueue \in Seq(Tasks)
            /\ NoRepetition(taskQueue)
        BY <3>2 DEF TakeTask, PoolMutex, TypeOK, Owned, TaskOwnedOnce, NoRepetition
      <4>2. Elements(taskQueue') = Elements(taskQueue) \ {Head(taskQueue)}
        BY <4>1, TailElements
      <4> QED
        BY <4>2 DEF Elements, Queued
    <3> QED
      BY <1>6, <3>1, <3>2
  <2>4. Pending' \subseteq Pending
    BY <2>1, <2>2, <2>3 DEF Pending
  <2>5. \A v \in Workers : pc'[v] = "writing" => slot'[v] = successNum[task'[v][1]]
    BY <2>1 DEF Slots, SlotPerAnswer
  <2> QED
    BY <1>2, <2>1, <2>4, <2>5
<1>7. ASSUME NEW w \in Workers, WriteTryLock(w) PROVE Slots'
  <2>1. /\ UNCHANGED <<successNum, blob, task, taskQueue, cmd>>
        /\ pc[w] = "write" /\ pc'[w] \in {"write", "writing"}
        /\ pc'[w] = "writing" => slot'[w] = successNum[task[w][1]]
        /\ \A t \in Threads \ {w} : pc'[t] = pc[t]
        /\ \A v \in Workers \ {w} : slot'[v] = slot[v]
    BY <1>1, <1>7 DEF WriteTryLock
  <2>2. Pending' \subseteq Pending
    BY <2>1 DEF Pending, Queued, Unwritten
  <2>3. \A v \in Workers : pc'[v] = "writing" => slot'[v] = successNum[task'[v][1]]
    BY <2>1 DEF Slots, SlotPerAnswer
  <2> QED
    BY <1>2, <2>1, <2>2, <2>3
<1>8. ASSUME NEW w \in Workers, WriteResult(w) PROVE Slots'
  <2>0. PICK t, c, r, n : t = task[w] /\ c = t[1] /\ r = t[2] /\ n = successNum[c]
    OBVIOUS
  <2>1. /\ pc[w] = "writing" /\ pc'[w] = "free" /\ \A u \in Threads \ {w} : pc'[u] = pc[u]
        /\ UNCHANGED <<cmd, task, taskQueue>> /\ \A v \in Workers \ {w} : slot'[v] = slot[v]
    BY <1>1, <1>8 DEF WriteResult
  <2>2. /\ t \in Pending /\ t \in Tasks /\ t # NoTask /\ c <= cmd
        /\ c \in Commands /\ r \in Replicas
    BY <1>8, <2>0, WriteEffect
  <2>3. /\ \A i, j \in 1..n : blob[c][i] # 0 /\ (i # j => blob[c][i] # blob[c][j])
        /\ \A i \in 1..n : blob[c][i] # r
    BY <1>8, <2>0, WriteEffect
  <2>4. /\ successNum'[c] = n + 1 /\ blob'[c][n + 1] = r /\ n \in Nat
        /\ \A i \in 1..n : blob'[c][i] = blob[c][i]
        /\ \A d \in Commands \ {c} : successNum'[d] = successNum[d] /\ blob'[d] = blob[d]
        /\ r # 0 /\ n + 1 \in Replicas
    BY <1>8, <2>0, WriteEffect
  <2>5. /\ Acked'[c] = Acked[c] \cup {r}
         /\ \A d \in Commands \ {c} : Acked'[d] = Acked[d]
    BY <1>8, <2>0, WriteEffect
  <2>6. \A v \in Workers \ {w} : task[v] # t
    BY <2>0, <2>2 DEF Owned, TaskOwnedOnce
  <2>7. Pending' \subseteq Pending \ {t}
    <3>1. t \notin Queued
      BY <2>0, <2>1 DEF Owned, TaskOwnedOnce
    <3>2. Queued' = Queued
      BY <2>1 DEF Queued
    <3> QED
      BY <2>1, <2>6, <3>1, <3>2 DEF Pending, Unwritten
  <2>8. Unanswered'
    <3> SUFFICES ASSUME NEW u \in Pending' PROVE u[2] \notin Acked'[u[1]]
      BY DEF Unanswered
    <3>1. /\ u \in Pending /\ u # t /\ u \in Tasks /\ u[2] \notin Acked[u[1]]
          /\ u[1] \in Commands
      BY <2>7, PendingType, TaskType DEF Slots, Unanswered
    <3>2. CASE u[1] = c
      <4>1. u[2] # r
        BY <2>0, <2>2, <3>1, <3>2 DEF Tasks
      <4> QED
        BY <2>5, <3>1, <3>2, <4>1
    <3>3. CASE u[1] # c
      BY <2>5, <3>1, <3>3
    <3> QED
      BY <3>2, <3>3
  <2>9. SlotPerAnswer'
    <3>1. ASSUME NEW d \in Commands, NEW i \in 1..successNum'[d], NEW j \in 1..successNum'[d]
          PROVE  blob'[d][i] # 0 /\ (i # j => blob'[d][i] # blob'[d][j])
      <4>1. CASE d = c
        BY <2>3, <2>4, <3>1, <4>1
      <4>2. CASE d # c
        BY <2>4, <3>1, <4>2 DEF Slots, SlotPerAnswer
      <4> QED
        BY <4>1, <4>2
    <3>2. ASSUME NEW v \in Workers, pc'[v] = "writing"
          PROVE  slot'[v] = successNum'[task'[v][1]]
      <4>1. /\ v # w /\ pc[v] = "writing" /\ task'[v] = task[v] /\ slot'[v] = slot[v]
            /\ slot[v] = successNum[task[v][1]]
        BY <2>1, <3>2 DEF Slots, SlotPerAnswer
      <4>2. task[v][1] # c
        BY <2>0, <2>1, <4>1 DEF CmdMutex
      <4>3. task[v][1] \in Commands
        BY <4>1, PendingType, TaskType DEF Unwritten
      <4> QED
        BY <2>4, <4>1, <4>2, <4>3
    <3> QED
      BY <3>1, <3>2 DEF SlotPerAnswer
  <2>10. Fresh'
    <3>1. ~(c > cmd) /\ (c = cmd => pc[Caller] \notin {"add", "adding"})
      <4>1. t \in Queued \cup Held
        BY <2>2, PendingType
      <4> QED
        BY <1>1, <2>0, <2>2, <4>1 DEF Owned, TasksKnown, Commands
    <3> QED
      BY <2>1, <2>4, <3>1 DEF Slots, Fresh
  <2>11. SlotsBounded'
    BY <2>4 DEF Slots, SlotsBounded, Replicas
  <2> QED
    BY <2>8, <2>9, <2>10, <2>11 DEF Slots
<1>9. ASSUME NEW w \in Workers, CommandFailed(w) \/ WriteGiveUp(w) \/ FreeTask(w)
      PROVE  Slots'
  <2>1. /\ UNCHANGED <<successNum, blob, slot, taskQueue, cmd>> /\ pc'[w] = "lock"
        /\ \A t \in Threads \ {w} : pc'[t] = pc[t]
        /\ \A v \in Workers \ {w} : task'[v] = task[v]
    BY <1>1, <1>9 DEF CommandFailed, WriteGiveUp, FreeTask, TypeOK
  <2>2. Pending' \subseteq Pending
    BY <2>1 DEF Pending, Queued, Unwritten
  <2>3. \A v \in Workers : pc'[v] = "writing" => slot'[v] = successNum[task'[v][1]]
    BY <2>1 DEF Slots, SlotPerAnswer
  <2> QED
    BY <1>2, <2>1, <2>2, <2>3
<1>10. CASE ExecuteSignal
  <2>1. PICK l \in {"read", "signal"} : SignalThenGoto(Caller, l)
    BY <1>10 DEF ExecuteSignal
  <2>2. /\ pc'[Caller] = l
        /\ \A u \in Workers : pc'[u] = pc[u] \/ pc'[u] = "wake"
    BY <1>10, <2>1, SignalEffect DEF ExecuteSignal, CallerLabels
  <2> QED
    BY <1>3, <1>10, <2>2 DEF ExecuteSignal, Unwritten
<1>11. ASSUME NEW w \in Workers, SignalNext(w) PROVE Slots'
  <2>1. /\ pc[w] = "signal" /\ pc'[w] = "command" /\ pc'[Caller] = pc[Caller]
        /\ \A u \in Workers \ {w} : pc'[u] = pc[u] \/ pc'[u] = "wake"
    BY <1>11, SignalEffect DEF SignalNext, WorkerLabels
  <2> QED
    BY <1>3, <1>11, <2>1 DEF SignalNext, Unwritten
<1>12. ASSUME NEW w \in Workers,
              \/ LockPool(w) \/ WaitForTask(w) \/ SpuriousWakeup(w) \/ CountDoing(w)
              \/ CommandReplied(w) \/ FreeLock(w)
       PROVE  Slots'
  <2>1. /\ \A t \in Threads \ {w} : pc'[t] = pc[t]
        /\ pc'[w] # "writing" /\ (pc'[w] \in Unwritten => pc[w] \in Unwritten)
    BY <1>1, <1>12 DEF LockPool, WaitForTask, SpuriousWakeup, CountDoing,
       CommandReplied, FreeLock, Unwritten
  <2> QED
    BY <1>3, <1>12, <2>1 DEF LockPool, WaitForTask, SpuriousWakeup, CountDoing,
       CommandReplied, FreeLock
<1>13. CASE ExecuteTryLock \/ ExecuteGiveUp \/ Read \/ UNCHANGED vars
  <2>1. /\ \A w \in Workers : pc'[w] = pc[w]
        /\ pc'[Caller] \in {"add", "adding"} => pc[Caller] \in {"add", "adding"}
    BY <1>1, <1>13
    DEF ExecuteTryLock, ExecuteGiveUp, Read, ReadTryLock, ReadCheck, ReadGiveUp,
        ReleaseLock, ReleaseCommand, vars
  <2> QED
    BY <1>3, <1>13, <2>1
    DEF ExecuteTryLock, ExecuteGiveUp, Read, ReadTryLock, ReadCheck, ReadGiveUp,
        ReleaseLock, ReleaseCommand, vars
<1> QED
  BY <1>4, <1>5, <1>6, <1>7, <1>8, <1>9, <1>10, <1>11, <1>12, <1>13
  DEF Next, CallerStep, Execute, WorkerStep

(* No slot is taken at first. *)
LEMMA InitSlots == Init => Slots
<1> SUFFICES ASSUME Init PROVE Slots
  OBVIOUS
<1>1. Pending = {}
  <2>1. Queued = {} /\ \A w \in Workers : pc[w] = "lock"
    BY ConstantsAssumption DEF Init, Queued, Threads
  <2> QED
    BY <2>1 DEF Pending, Unwritten
<1> QED
  BY <1>1, ConstantsAssumption
  DEF Init, Slots, SlotPerAnswer, Unanswered, Fresh, SlotsBounded, Threads

(* The slots are sound in every reachable state. *)
THEOREM SlotsInv == Spec => [](CmdMutex /\ Slots)
BY InitCmdMutex, StepCmdMutex, InitSlots, StepSlots, TypedInv, OwnedInv, PTL DEF Spec

(* Each answer has a slot of its own, and a slot holds an answer. *)
THEOREM SlotsCorrect == Spec => []SlotPerAnswer
BY SlotsInv, PTL DEF Slots

-----------------------------------------------------------------------------
(* The refinement of QuorumCall *)

(* The slots of a command count the distinct replicas that have answered. *)
LEMMA AckedCount ==
  ASSUME Typed, Slots, NEW c \in Commands
  PROVE  Cardinality(Acked[c]) = successNum[c]
<1> DEFINE n == successNum[c]
           f == [i \in 1..n |-> blob[c][i]]
<1>1. n \in Nat /\ Acked[c] = {blob[c][i] : i \in 1..n}
  BY DEF Typed, TypeOK, Acked
<1>2. \A i, j \in 1..n : i # j => blob[c][i] # blob[c][j]
  BY DEF Slots, SlotPerAnswer
<1>3. IsFiniteSet(1..n) /\ Cardinality(1..n) = n
  <2>1. 1 \in Int /\ n \in Int /\ n \in Nat
    BY <1>1
  <2> HIDE DEF n
  <2> QED
    BY <2>1, FS_Interval
<1> HIDE DEF n
<1>4. f \in Surjection(1..n, Acked[c])
  BY <1>1 DEF Surjection
<1>5. f \in Injection(1..n, Acked[c])
  <2>1. f \in [1..n -> Acked[c]]
    BY <1>1
  <2>2. \A i, j \in 1..n : f[i] = f[j] => i = j
    BY <1>2
  <2> QED
    BY <2>1, <2>2 DEF Injection, IsInjective
<1> HIDE DEF f
<1>6. Cardinality(Acked[c]) = n
  BY <1>3, <1>4, <1>5, FS_Surjection
<1> QED
  BY <1>6 DEF n

(* What a call is to QuorumCall in the states of the pool. *)
LEMMA StatusValue ==
  ASSUME Typed, CallDecided
  PROVE  /\ \A c \in Commands : c > cmd => Status[c] = "unborn"
         /\ \A c \in Commands : c < cmd => Status[c] \in {"ok", "failed"}
         /\ pc[Caller] = "idle" => \A c \in Commands : c <= cmd => Status[c] \in {"ok", "failed"}
         /\ \A c \in Commands : c <= cmd => Status[c] # "unborn"
         /\ \A c \in Commands : c <= cmd /\ result[c] # "none" => Status[c] = result[c]
         /\ \A c \in Commands : c <= cmd /\ result[c] = "none" => Status[c] = "pending"
         /\ DOMAIN Status = Commands
<1>1. /\ result \in [Commands -> {"none", "ok", "failed"}] /\ cmd \in Nat
      /\ \A c \in Commands : c \in Nat
      /\ \A c \in Commands : c < cmd \/ (c = cmd /\ pc[Caller] = "idle") => result[c] # "none"
  BY DEF Typed, TypeOK, CallDecided, Commands
<1> QED
  BY <1>1 DEF Status

(* No call is made at first. *)
LEMMA InitRefines == Init => QC!Init
<1> SUFFICES ASSUME Init PROVE QC!Init
  OBVIOUS
<1>1. Status = [c \in Commands |-> "unborn"]
  BY DEF Init, Status, Commands
<1>2. Acked = [c \in Commands |-> {}]
  BY DEF Init, Acked
<1> QED
  BY <1>1, <1>2 DEF Init, QC!Init, QC!Commands, Commands

(* Every step of the pool is a step of a quorum call, or none: Call issues one,
   writeResult() acknowledges, readResult() decides. *)
LEMMA StepRefines ==
  Typed /\ Owned /\ CallDecided /\ Slots /\ [Next]_vars => [QC!Next]_(QC!vars)
<1> SUFFICES ASSUME Typed, Owned, CallDecided, Slots, [Next]_vars
             PROVE  [QC!Next]_(QC!vars)
  OBVIOUS
<1> USE ConstantsAssumption
    DEF Typed, Threads, poolVars, commandVars, heapVars, callerVars, Goto
<1>1. /\ result \in [Commands -> {"none", "ok", "failed"}] /\ cmd \in Nat
      /\ QC!Commands = Commands /\ QC!Replicas = Replicas
  BY DEF TypeOK, QC!Commands, QC!Replicas, Commands, Replicas
<1>2. ASSUME UNCHANGED <<cmd, result, need, blob, successNum>> PROVE UNCHANGED QC!vars
  BY <1>2 DEF QC!vars, Status, Acked
<1>3. ASSUME NEW op \in Operations, NEW n \in Replicas, Call(op, n) PROVE QC!Next
  <2>0. PICK c : c = cmd + 1
    OBVIOUS
  <2>1. /\ pc[Caller] = "idle" /\ c \in Commands /\ cmd' = c
        /\ UNCHANGED <<result, blob, successNum>>
        /\ need' = [need EXCEPT ![c] = Threshold(op)]
    BY <1>1, <1>3, <2>0 DEF Call, Commands
  <2>2. Threshold(op) \in Replicas
    BY <1>3 DEF Operations, Threshold, Replicas
  <2>3. Acked' = Acked
    BY <2>1 DEF Acked
  <2>4. /\ Status[c] = "unborn" /\ result[c] = "none"
        /\ \A d \in Commands : d < c => Status[d] \in {"ok", "failed"}
    BY <1>1, <2>0, <2>1, StatusValue DEF CallDecided, Commands
  <2>5. Status' = [Status EXCEPT ![c] = "pending"]
    <3>1. \A d \in Commands : Status'[d] = IF d = c THEN "pending" ELSE Status[d]
      BY <1>1, <2>0, <2>1, <2>4 DEF Status, Commands
    <3>2. Status' = [d \in Commands |-> Status'[d]]
      BY DEF Status
    <3> QED
      BY <2>1, <3>1, <3>2, StatusValue
  <2>6. QC!Issue(c, Threshold(op))
    BY <1>1, <2>1, <2>3, <2>4, <2>5 DEF QC!Issue
  <2> QED
    BY <1>1, <2>1, <2>2, <2>6 DEF QC!Next
<1>4. ASSUME NEW w \in Workers, WriteResult(w) PROVE QC!Next
  <2>0. PICK t, c, r, n : t = task[w] /\ c = t[1] /\ r = t[2] /\ n = successNum[c]
    OBVIOUS
  <2>1. /\ c <= cmd /\ c \in Commands /\ r \in Replicas /\ r \notin Acked[c]
        /\ Acked'[c] = Acked[c] \cup {r}
        /\ \A d \in Commands \ {c} : Acked'[d] = Acked[d]
    BY <1>4, <2>0, WriteEffect
  <2>2. UNCHANGED <<cmd, result, need>>
    BY <1>4 DEF WriteResult
  <2>3. Status' = Status
    BY <2>2 DEF Status
  <2>4. Acked' = [Acked EXCEPT ![c] = @ \cup {r}]
    <3>1. /\ Acked = [d \in Commands |-> Acked[d]]
          /\ Acked' = [d \in Commands |-> Acked'[d]]
      BY DEF Acked
    <3> QED
      BY <2>1, <3>1
  <2>5. QC!Ack(c, r)
    BY <2>1, <2>2, <2>3, <2>4, StatusValue DEF QC!Ack
  <2> QED
    BY <1>1, <2>1, <2>5 DEF QC!Next
<1>5. ASSUME UNCHANGED <<cmd, need, blob, successNum>>,
             pc[Caller] \in {"read", "reading"},
             \/ result' = [result EXCEPT ![cmd] = "failed"]
             \/ result' = [result EXCEPT ![cmd] = "ok"] /\ Enough(cmd)
      PROVE  QC!Next
  <2>0. PICK c : c = cmd
    OBVIOUS
  <2>1. c \in Commands /\ result[c] = "none" /\ c <= cmd
    BY <1>5, <2>0 DEF CallDecided, PoolMutex, TypeOK, Commands
  <2>2. Acked' = Acked
    BY <1>5 DEF Acked
  <2>3. Status[c] = "pending"
    BY <2>1, StatusValue
  <2>4. Cardinality(Acked[c]) = successNum[c]
    BY <2>1, AckedCount
  <2>5. ASSUME NEW v \in {"ok", "failed"}, result' = [result EXCEPT ![c] = v]
        PROVE  Status' = [Status EXCEPT ![c] = v]
    <3>1. \A d \in Commands : Status'[d] = IF d = c THEN v ELSE Status[d]
      BY <1>1, <1>5, <2>0, <2>1, <2>5 DEF Status
    <3>2. Status' = [d \in Commands |-> Status'[d]]
      BY DEF Status
    <3> QED
      BY <2>1, <3>1, <3>2, StatusValue
  <2>6. CASE result' = [result EXCEPT ![c] = "failed"]
    <3>1. QC!Fail(c)
      BY <1>5, <2>2, <2>3, <2>5, <2>6 DEF QC!Fail
    <3> QED
      BY <1>1, <2>1, <3>1 DEF QC!Next, QC!Decide
  <2>7. CASE result' = [result EXCEPT ![c] = "ok"] /\ Enough(c)
    <3>1. QC!Succeed(c)
      <4>1. Cardinality(Acked[c]) >= need[c]
        BY <2>4, <2>7 DEF Enough
      <4>2. Status' = [Status EXCEPT ![c] = "ok"]
        BY <2>5, <2>7
      <4>3. need' = need
        BY <1>5
      <4>4. QC!Cardinality(Acked[c]) = Cardinality(Acked[c])
        BY DEF QC!Cardinality, Cardinality
      <4> QED
        BY <2>2, <2>3, <4>1, <4>2, <4>3, <4>4 DEF QC!Succeed
    <3> QED
      BY <1>1, <2>1, <3>1 DEF QC!Next, QC!Decide
  <2> QED
    BY <1>5, <2>0, <2>6, <2>7
<1>6. CASE ReadCheck
  <2>1. /\ UNCHANGED <<cmd, need, blob, successNum>> /\ pc[Caller] = "reading"
        /\ \/ result' = [result EXCEPT ![cmd] = "failed"]
           \/ result' = [result EXCEPT ![cmd] = "ok"] /\ Enough(cmd)
           \/ result' = result
    BY <1>1, <1>6 DEF ReadCheck
  <2> QED
    BY <1>2, <1>5, <2>1
<1>7. CASE ReadGiveUp
  BY <1>5, <1>7 DEF ReadGiveUp
<1>8. CASE \/ Execute \/ ReadTryLock \/ ReleaseLock \/ ReleaseCommand \/ UNCHANGED vars
  BY <1>2, <1>8
  DEF Execute, ExecuteTryLock, ExecuteGiveUp, ExecuteAdd, ExecuteSignal, ReadTryLock,
      ReleaseLock, ReleaseCommand, vars
<1>9. ASSUME NEW w \in Workers, WorkerStep(w) \/ SpuriousWakeup(w), ~WriteResult(w)
      PROVE  UNCHANGED QC!vars
  BY <1>2, <1>9
  DEF WorkerStep, LockPool, WaitForTask, SpuriousWakeup, PickTask, TakeTask,
      CountDoing, SignalNext, CommandReplied, CommandFailed, WriteTryLock,
      WriteGiveUp, FreeLock, FreeTask
<1> QED
  BY <1>3, <1>4, <1>6, <1>7, <1>8, <1>9 DEF Next, CallerStep, Read, WorkerStep

(* The pool implements quorum calls. *)
THEOREM QuorumCallImplemented == Spec => ImplementsQuorumCall
<1>1. Init => QC!Init
  BY InitRefines
<1>2. Typed /\ Owned /\ CallDecided /\ Slots /\ [Next]_vars => [QC!Next]_(QC!vars)
  BY StepRefines
<1>3. Spec => []Typed /\ []Owned /\ [](CallDecided /\ Heap) /\ [](CmdMutex /\ Slots)
  BY TypedInv, OwnedInv, HeapInv, SlotsInv
<1> QED
  BY <1>1, <1>2, <1>3, PTL DEF Spec, ImplementsQuorumCall, QC!Spec
=============================================================================
