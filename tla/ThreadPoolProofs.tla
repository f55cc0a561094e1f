-------------------------- MODULE ThreadPoolProofs --------------------------
(***************************************************************************)
(* Proofs about ThreadPool, for any number of workers, replicas, calls and *)
(* retries.                                                                *)
(***************************************************************************)
EXTENDS ThreadPool, FiniteSetTheorems, TLAPS

(* A step of the queue keeps its tasks of type Tasks. *)
LEMMA HeadTailType ==
  ASSUME NEW q \in Seq(Tasks), q # <<>>
  PROVE  Head(q) \in Tasks /\ Tail(q) \in Seq(Tasks) /\ Len(Tail(q)) = Len(q) - 1
         /\ Len(q) > 0
OBVIOUS

(* A task is a command and a replica, and it is not NoTask. *)
LEMMA TaskType ==
  ASSUME NEW t \in Tasks
  PROVE  /\ t # NoTask /\ t[1] \in Commands /\ t[2] \in Replicas
         /\ Commands \subseteq Nat
BY ConstantsAssumption DEF Tasks, NoTask, Commands, Replicas

(* What execute() appends is a sequence of one task per replica. *)
LEMMA AddedTasks ==
  ASSUME NEW c \in Commands, NEW n \in 0..N
  PROVE  LET q == [i \in 1..n |-> <<c, i>>] IN
         q \in Seq(Tasks) /\ Len(q) = n
BY ConstantsAssumption DEF Tasks, Replicas

(* A signal moves the signalling thread, and at most one that waits. *)
LEMMA SignalEffect ==
  ASSUME TypeOK, NEW t \in Threads, NEW l \in CallerLabels \cup WorkerLabels,
         pc[t] = "signal", SignalThenGoto(t, l)
  PROVE  /\ pc' \in [Threads -> CallerLabels \cup WorkerLabels]
         /\ pc'[t] = l
         /\ \A u \in Threads \ {t} :
              pc'[u] = pc[u] \/ (u \in Workers /\ pc[u] = "wait" /\ pc'[u] = "wake")
<1>1. pc \in [Threads -> CallerLabels \cup WorkerLabels] /\ Workers \subseteq Threads
      /\ "wake" \in CallerLabels \cup WorkerLabels
  BY DEF TypeOK, Threads, WorkerLabels
<1>2. CASE pc' = [pc EXCEPT ![t] = l]
  BY <1>1, <1>2
<1>3. ASSUME NEW w \in Workers, pc[w] = "wait", pc' = [pc EXCEPT ![w] = "wake", ![t] = l]
      PROVE  /\ pc' \in [Threads -> CallerLabels \cup WorkerLabels] /\ pc'[t] = l
             /\ \A u \in Threads \ {t} :
                  pc'[u] = pc[u] \/ (u \in Workers /\ pc[u] = "wait" /\ pc'[u] = "wake")
  BY <1>1, <1>3
<1> QED
  BY <1>2, <1>3 DEF SignalThenGoto, Waiting, Goto

(* Dropping a reference keeps the types of what it changes. *)
LEMMA DropType ==
  ASSUME TypeOK, NEW c \in Commands, DropReference(c)
  PROVE  /\ refNum' \in [Commands -> Int] /\ commands' \subseteq Commands
         /\ cmdLock' \in [Commands -> Threads \cup {NoThread}]
<1>1. refNum' \in [Commands -> Int]
  BY DEF TypeOK, DropReference
<1>2. commands' \subseteq Commands
  BY DEF TypeOK, DropReference
<1>3. cmdLock' \in [Commands -> Threads \cup {NoThread}]
  BY DEF TypeOK, DropReference, ReleaseCmd
<1> QED
  BY <1>1, <1>2, <1>3

(* waitingTasksNum counts the tasks in the queue: it changes with the queue,
   under the pool's mutex, in execute() and in _threadDo(). *)
BacklogCounted == waitingTasksNum = Len(taskQueue)

(* The inductive invariant under the others.  No part is inductive alone: that
   the queue is not empty when a worker unlinks its head follows from the mutex,
   and that the counter stays a natural number from its being the length. *)
Typed == TypeOK /\ PoolMutex /\ BacklogCounted

(* threadPoolInit() establishes it. *)
LEMMA InitTyped == Init => Typed
BY ConstantsAssumption DEF Init, Typed, TypeOK, PoolMutex, BacklogCounted,
   PoolLabels, TaskLabels, CallerLabels, WorkerLabels, Threads, Commands, Replicas

(* Every step of every thread preserves it: one case per action. *)
LEMMA StepTyped == Typed /\ [Next]_vars => Typed'
<1> SUFFICES ASSUME Typed, [Next]_vars PROVE Typed'
  OBVIOUS
<1> USE ConstantsAssumption DEF Typed, Threads, poolVars, commandVars, heapVars,
        callerVars, Goto, AcquirePool, ReleasePool, AcquireCmd, ReleaseCmd
<1>1. ASSUME NEW op \in Operations, NEW n \in Replicas, Call(op, n) PROVE Typed'
  <2>a. cmd + 1 \in Commands /\ n \in 1..N /\ n + 1 \in Int
    BY <1>1 DEF Call, TypeOK, Commands, Replicas
  <2>b. {cmd + 1} \X (1..n) \subseteq Tasks
    BY <2>a DEF Tasks, Replicas
  <2>c. Threshold(op) \in 0..N
    BY <1>1 DEF Operations, Threshold
  <2>1. TypeOK'
    <3>1. need' \in [Commands -> 0..N] /\ refNum' \in [Commands -> Int]
      BY <1>1, <2>a, <2>c DEF Call, NewRefs, TypeOK
    <3>2. retry' \in [Threads -> Nat]
      BY <1>1 DEF Call, TypeOK
    <3>3. cmd' \in 0..MaxCommands /\ ipNum' \in 0..N
      BY <1>1, <2>a DEF Call, TypeOK, Commands
    <3>4. commands' \subseteq Commands /\ tasks' \subseteq Tasks
      BY <1>1, <2>a, <2>b DEF Call, TypeOK
    <3>5. /\ pc' \in [Threads -> CallerLabels \cup WorkerLabels]
          /\ pc'[Caller] \in CallerLabels /\ \A v \in Workers : pc'[v] \in WorkerLabels
      BY <1>1 DEF Call, TypeOK, CallerLabels, WorkerLabels
    <3> QED
      BY <1>1, <3>1, <3>2, <3>3, <3>4, <3>5 DEF Call, TypeOK
  <2>2. PoolMutex'
    BY <1>1, <2>a, <2>b, <2>c, SMTT(30) DEF Call, NewRefs, TypeOK, PoolMutex, PoolLabels, TaskLabels
  <2>3. BacklogCounted'
    BY <1>1, <2>a, <2>b, <2>c DEF Call, NewRefs, BacklogCounted
  <2> QED BY <2>1, <2>2, <2>3
<1>2. CASE ExecuteTryLock
  <2>1. TypeOK'
    BY <1>2 DEF ExecuteTryLock, TypeOK, CallerLabels, WorkerLabels
  <2>2. PoolMutex'
    BY <1>2 DEF ExecuteTryLock, TypeOK, PoolMutex, PoolLabels, TaskLabels
  <2>3. BacklogCounted'
    BY <1>2 DEF ExecuteTryLock, BacklogCounted
  <2> QED BY <2>1, <2>2, <2>3
<1>3. CASE ExecuteGiveUp
  BY <1>3 DEF ExecuteGiveUp, TypeOK, CallerLabels, WorkerLabels,
        BacklogCounted, PoolMutex, PoolLabels, TaskLabels
<1>4. CASE ExecuteAdd
  <2>a. cmd \in Commands /\ ipNum \in 0..N /\ ipNum > 0
    BY <1>4 DEF ExecuteAdd, TypeOK, PoolMutex, Commands
  <2>0. /\ [i \in 1..ipNum |-> <<cmd, i>>] \in Seq(Tasks)
        /\ Len([i \in 1..ipNum |-> <<cmd, i>>]) = ipNum /\ ipNum > 0
    BY <2>a, AddedTasks
  <2>1. TypeOK'
    <3>1. taskQueue' \in Seq(Tasks) /\ waitingTasksNum' \in Nat /\ toSignal' \in 0..N
      <4>1. CASE BacklogFull
        BY <1>4, <4>1 DEF ExecuteAdd, TypeOK
      <4>2. CASE ~BacklogFull
        <5>1. /\ taskQueue' = taskQueue \o [i \in 1..ipNum |-> <<cmd, i>>]
              /\ waitingTasksNum' = waitingTasksNum + ipNum /\ toSignal' = ipNum
          BY <1>4, <4>2 DEF ExecuteAdd, SignalsDue
        <5> QED
          BY <5>1, <2>a, <2>0 DEF TypeOK
      <4> QED
        BY <4>1, <4>2
    <3>2. retry' \in [Threads -> Nat]
      BY <1>4 DEF ExecuteAdd, TypeOK
    <3>3. /\ pc' \in [Threads -> CallerLabels \cup WorkerLabels]
          /\ pc'[Caller] \in CallerLabels /\ \A v \in Workers : pc'[v] \in WorkerLabels
      BY <1>4 DEF ExecuteAdd, TypeOK, CallerLabels, WorkerLabels
    <3>4. poolLock' \in Threads \cup {NoThread} /\ idleThreadsNum' \in Int
      BY <1>4 DEF ExecuteAdd, TypeOK
    <3> QED
      BY <1>4, <3>1, <3>2, <3>3, <3>4 DEF ExecuteAdd, TypeOK
  <2>2. PoolMutex'
    BY <1>4, <2>0 DEF ExecuteAdd, SignalsDue, BacklogFull, TypeOK, PoolMutex, PoolLabels, TaskLabels
  <2>3. BacklogCounted'
    BY <1>4, <2>a, <2>0 DEF ExecuteAdd, TypeOK, BacklogCounted
  <2> QED BY <2>1, <2>2, <2>3
<1>5. CASE ExecuteSignal
  <2>1. pc[Caller] = "signal" /\ toSignal > 0 /\ Caller \in Threads
    BY <1>5 DEF ExecuteSignal, PoolMutex
  <2>2. PICK l \in {"read", "signal"} :
             (l = "signal" <=> toSignal' > 0) /\ SignalThenGoto(Caller, l)
    BY <1>5, <2>1 DEF ExecuteSignal, TypeOK
  <2>3. /\ pc' \in [Threads -> CallerLabels \cup WorkerLabels] /\ pc'[Caller] = l
        /\ \A u \in Threads \ {Caller} :
             pc'[u] = pc[u] \/ (u \in Workers /\ pc[u] = "wait" /\ pc'[u] = "wake")
    BY <2>1, <2>2, SignalEffect DEF CallerLabels
  <2>4. TypeOK'
    <3>1. toSignal' \in 0..N
      BY <1>5, <2>1 DEF ExecuteSignal, TypeOK
    <3>2. retry' \in [Threads -> Nat]
      BY <1>5 DEF ExecuteSignal, TypeOK
    <3>3. pc'[Caller] \in CallerLabels /\ \A w \in Workers : pc'[w] \in WorkerLabels
      BY <2>2, <2>3 DEF TypeOK, CallerLabels, WorkerLabels
    <3> QED
      BY <1>5, <2>3, <3>1, <3>2, <3>3 DEF ExecuteSignal, TypeOK
  <2>5. PoolMutex'
    BY <1>5, <2>1, <2>2, <2>3 DEF ExecuteSignal, PoolMutex, PoolLabels, TaskLabels
  <2>6. BacklogCounted'
    BY <1>5 DEF ExecuteSignal, BacklogCounted
  <2> QED BY <2>4, <2>5, <2>6
<1>6. CASE ReadTryLock
  <2>0. cmd \in Commands
    BY <1>6, TaskType DEF ReadTryLock, TypeOK, PoolMutex, TaskLabels, Commands
  <2>1. cmdLock' \in [Commands -> Threads \cup {NoThread}]
    BY <1>6, <2>0 DEF ReadTryLock, TypeOK
  <2>2. TypeOK'
    <3>1. retry' \in [Threads -> Nat]
      BY <1>6 DEF ReadTryLock, TypeOK
    <3>2. /\ pc' \in [Threads -> CallerLabels \cup WorkerLabels]
          /\ pc'[Caller] \in CallerLabels /\ \A w \in Workers : pc'[w] \in WorkerLabels
      BY <1>6 DEF ReadTryLock, TypeOK, CallerLabels, WorkerLabels
    <3> QED
      BY <1>6, <2>1, <3>1, <3>2 DEF ReadTryLock, TypeOK
  <2>3. PoolMutex'
    BY <1>6 DEF ReadTryLock, TypeOK, PoolMutex, PoolLabels, TaskLabels
  <2>4. BacklogCounted'
    BY <1>6 DEF ReadTryLock, BacklogCounted
  <2> QED BY <2>2, <2>3, <2>4
<1>7. CASE ReadCheck
  <2>1. TypeOK'
    BY <1>7 DEF ReadCheck, TypeOK, CallerLabels, WorkerLabels
  <2>2. PoolMutex'
    BY <1>7 DEF ReadCheck, TypeOK, PoolMutex, PoolLabels, TaskLabels
  <2>3. BacklogCounted'
    BY <1>7 DEF ReadCheck, BacklogCounted
  <2> QED BY <2>1, <2>2, <2>3
<1>8. CASE ReadGiveUp
  BY <1>8 DEF ReadGiveUp, TypeOK, CallerLabels, WorkerLabels,
        BacklogCounted, PoolMutex, PoolLabels, TaskLabels
<1>9. CASE ReleaseLock
  BY <1>9 DEF ReleaseLock, TypeOK, CallerLabels, WorkerLabels,
        BacklogCounted, PoolMutex, PoolLabels, TaskLabels
<1>10. CASE ReleaseCommand
  <2>0. cmd \in Commands /\ DropReference(cmd)
    BY <1>10 DEF ReleaseCommand, TypeOK, PoolMutex, Commands
  <2>1. TypeOK'
    BY <1>10, <2>0, DropType DEF ReleaseCommand, TypeOK, CallerLabels, WorkerLabels
  <2>2. PoolMutex'
    BY <1>10, <2>0, DropType DEF ReleaseCommand, TypeOK, PoolMutex, PoolLabels, TaskLabels
  <2>3. BacklogCounted'
    BY <1>10, <2>0, DropType DEF ReleaseCommand, BacklogCounted
  <2> QED BY <2>1, <2>2, <2>3
<1>11. ASSUME NEW w \in Workers, LockPool(w) PROVE Typed'
  <2>1. TypeOK'
    BY <1>11 DEF LockPool, TypeOK, CallerLabels, WorkerLabels
  <2>2. PoolMutex'
    BY <1>11, ZenonT(60) DEF LockPool, TypeOK, PoolMutex, PoolLabels, TaskLabels
  <2>3. BacklogCounted'
    BY <1>11 DEF LockPool, BacklogCounted
  <2> QED BY <2>1, <2>2, <2>3
<1>12. ASSUME NEW w \in Workers, WaitForTask(w) PROVE Typed'
  <2>1. TypeOK'
    BY <1>12 DEF WaitForTask, TypeOK, CallerLabels, WorkerLabels
  <2>2. PoolMutex'
    BY <1>12 DEF WaitForTask, TypeOK, PoolMutex, PoolLabels, TaskLabels
  <2>3. BacklogCounted'
    BY <1>12 DEF WaitForTask, BacklogCounted
  <2> QED BY <2>1, <2>2, <2>3
<1>13. ASSUME NEW w \in Workers, SpuriousWakeup(w) PROVE Typed'
  BY <1>13 DEF SpuriousWakeup, TypeOK, CallerLabels, WorkerLabels,
        BacklogCounted, PoolMutex, PoolLabels, TaskLabels
<1>14. ASSUME NEW w \in Workers, PickTask(w) PROVE Typed'
  <2>1. TypeOK'
    BY <1>14, HeadTailType, TaskType DEF PickTask, TypeOK, CallerLabels, WorkerLabels
  <2>2. PoolMutex'
    BY <1>14, HeadTailType, TaskType DEF PickTask, TypeOK, PoolMutex, PoolLabels, TaskLabels
  <2>3. BacklogCounted'
    BY <1>14, HeadTailType, TaskType DEF PickTask, BacklogCounted
  <2> QED BY <2>1, <2>2, <2>3
<1>15. ASSUME NEW w \in Workers, TakeTask(w) PROVE Typed'
  <2>1. TypeOK'
    BY <1>15, HeadTailType, SMTT(30)
    DEF TakeTask, TypeOK, CallerLabels, WorkerLabels, PoolMutex, BacklogCounted
  <2>2. PoolMutex'
    BY <1>15, HeadTailType DEF TakeTask, TypeOK, PoolMutex, PoolLabels, TaskLabels
  <2>3. BacklogCounted'
    BY <1>15, HeadTailType DEF TakeTask, TypeOK, PoolMutex, BacklogCounted
  <2> QED BY <2>1, <2>2, <2>3
<1>16. ASSUME NEW w \in Workers, CountDoing(w) PROVE Typed'
  BY <1>16 DEF CountDoing, TypeOK, CallerLabels, WorkerLabels,
        BacklogCounted, PoolMutex, PoolLabels, TaskLabels
<1>17. ASSUME NEW w \in Workers, SignalNext(w) PROVE Typed'
  <2>1. pc[w] = "signal" /\ SignalThenGoto(w, "command") /\ w \in Threads
    BY <1>17 DEF SignalNext
  <2>2. /\ pc' \in [Threads -> CallerLabels \cup WorkerLabels] /\ pc'[w] = "command"
        /\ \A u \in Threads \ {w} :
             pc'[u] = pc[u] \/ (u \in Workers /\ pc[u] = "wait" /\ pc'[u] = "wake")
    BY <2>1, SignalEffect DEF WorkerLabels
  <2>3. TypeOK'
    BY <1>17, <2>1, <2>2 DEF SignalNext, TypeOK, CallerLabels, WorkerLabels
  <2>4. PoolMutex'
    BY <1>17, <2>1, <2>2 DEF SignalNext, PoolMutex, PoolLabels, TaskLabels
  <2>5. BacklogCounted'
    BY <1>17 DEF SignalNext, BacklogCounted
  <2> QED BY <2>3, <2>4, <2>5
<1>18. ASSUME NEW w \in Workers, CommandReplied(w) PROVE Typed'
  BY <1>18 DEF CommandReplied, TypeOK, CallerLabels, WorkerLabels,
        BacklogCounted, PoolMutex, PoolLabels, TaskLabels
<1>19. ASSUME NEW w \in Workers, CommandFailed(w) PROVE Typed'
  <2>1. TypeOK'
    BY <1>19 DEF CommandFailed, TypeOK, CallerLabels, WorkerLabels
  <2>2. PoolMutex'
    BY <1>19 DEF CommandFailed, TypeOK, PoolMutex, PoolLabels, TaskLabels
  <2>3. BacklogCounted'
    BY <1>19 DEF CommandFailed, BacklogCounted
  <2> QED BY <2>1, <2>2, <2>3
<1>20. ASSUME NEW w \in Workers, WriteTryLock(w) PROVE Typed'
  <2>0. task[w][1] \in Commands
    BY <1>20, TaskType DEF WriteTryLock, TypeOK, PoolMutex, TaskLabels, Commands
  <2>1. cmdLock' \in [Commands -> Threads \cup {NoThread}]
    <3>1. CASE cmdLock' = [cmdLock EXCEPT ![task[w][1]] = w]
      BY <2>0, <3>1 DEF TypeOK
    <3> QED
      BY <1>20, <3>1 DEF WriteTryLock, TypeOK
  <2>2. TypeOK'
    <3>1. retry' \in [Threads -> Nat]
      BY <1>20 DEF WriteTryLock, TypeOK
    <3>2. slot' \in [Workers -> Nat]
      BY <1>20, <2>0, ZenonT(60) DEF WriteTryLock, TypeOK
    <3>3. /\ pc' \in [Threads -> CallerLabels \cup WorkerLabels]
          /\ pc'[Caller] \in CallerLabels /\ \A v \in Workers : pc'[v] \in WorkerLabels
      <4>1. pc' = [pc EXCEPT ![w] = "writing"] \/ pc' = pc
        BY <1>20 DEF WriteTryLock
      <4> QED
        BY <4>1 DEF TypeOK, CallerLabels, WorkerLabels
    <3> QED
      BY <1>20, <2>1, <3>1, <3>2, <3>3 DEF WriteTryLock, TypeOK
  <2>3. PoolMutex'
    BY <1>20 DEF WriteTryLock, TypeOK, PoolMutex, PoolLabels, TaskLabels
  <2>4. BacklogCounted'
    BY <1>20 DEF WriteTryLock, BacklogCounted
  <2> QED BY <2>2, <2>3, <2>4
<1>21. ASSUME NEW w \in Workers, WriteGiveUp(w) PROVE Typed'
  BY <1>21 DEF WriteGiveUp, TypeOK, CallerLabels, WorkerLabels,
        BacklogCounted, PoolMutex, PoolLabels, TaskLabels
<1>22. ASSUME NEW w \in Workers, WriteResult(w) PROVE Typed'
  <2>0. task[w][1] \in Commands /\ task[w][2] \in Replicas
    BY <1>22, TaskType DEF WriteResult, TypeOK, PoolMutex, TaskLabels
  <2>1. TypeOK'
    <3>1. successNum' \in [Commands -> Nat]
      BY <1>22, <2>0, SMTT(30) DEF WriteResult, TypeOK
    <3>2. blob' \in [Commands -> [Replicas -> 0..N]]
      <4>1. task[w][2] \in 0..N
        BY <2>0 DEF Replicas
      <4>2. [blob[task[w][1]] EXCEPT ![slot[w] + 1] = task[w][2]] \in [Replicas -> 0..N]
        BY <4>1, <2>0 DEF TypeOK
      <4> QED
        BY <1>22, <2>0, <4>2 DEF WriteResult, TypeOK
    <3>3. slot' \in [Workers -> Nat] /\ retry' \in [Threads -> Nat]
      BY <1>22 DEF WriteResult, TypeOK
    <3>4. cmdLock' \in [Commands -> Threads \cup {NoThread}]
      BY <1>22, <2>0 DEF WriteResult, TypeOK
    <3>5. /\ pc' \in [Threads -> CallerLabels \cup WorkerLabels]
          /\ pc'[Caller] \in CallerLabels /\ \A v \in Workers : pc'[v] \in WorkerLabels
      BY <1>22 DEF WriteResult, TypeOK, CallerLabels, WorkerLabels
    <3> QED
      BY <1>22, <3>1, <3>2, <3>3, <3>4, <3>5 DEF WriteResult, TypeOK
  <2>2. PoolMutex'
    BY <1>22, <2>0 DEF WriteResult, TypeOK, PoolMutex, PoolLabels, TaskLabels
  <2>3. BacklogCounted'
    BY <1>22, <2>0 DEF WriteResult, BacklogCounted
  <2> QED BY <2>1, <2>2, <2>3
<1>23. ASSUME NEW w \in Workers, FreeLock(w) PROVE Typed'
  BY <1>23 DEF FreeLock, TypeOK, CallerLabels, WorkerLabels,
        BacklogCounted, PoolMutex, PoolLabels, TaskLabels
<1>24. ASSUME NEW w \in Workers, FreeTask(w) PROVE Typed'
  <2>0. task[w][1] \in Commands /\ DropReference(task[w][1])
    BY <1>24, TaskType DEF FreeTask, TypeOK, PoolMutex, TaskLabels
  <2>1. TypeOK'
    BY <1>24, <2>0, DropType DEF FreeTask, TypeOK, CallerLabels, WorkerLabels
  <2>2. PoolMutex'
    BY <1>24, <2>0, DropType DEF FreeTask, TypeOK, PoolMutex, PoolLabels, TaskLabels
  <2>3. BacklogCounted'
    BY <1>24, <2>0, DropType DEF FreeTask, BacklogCounted
  <2> QED BY <2>1, <2>2, <2>3
<1>25. CASE UNCHANGED vars
  BY <1>25 DEF vars, BacklogCounted, TypeOK, CallerLabels, WorkerLabels,
        BacklogCounted, PoolMutex, PoolLabels, TaskLabels
<1> QED
  BY <1>1, <1>2, <1>3, <1>4, <1>5, <1>6, <1>7, <1>8, <1>9, <1>10, <1>11, <1>12, <1>13,
     <1>14, <1>15, <1>16, <1>17, <1>18, <1>19, <1>20, <1>21, <1>22, <1>23, <1>24, <1>25
  DEF Next, CallerStep, Execute, Read, WorkerStep

(* It holds in every reachable state of the pool. *)
THEOREM TypedInv == Spec => []Typed
<1>1. Init => Typed
  BY InitTyped
<1>2. Typed /\ [Next]_vars => Typed'
  BY StepTyped
<1> QED
  BY <1>1, <1>2, PTL DEF Spec

(* Every variable keeps its type. *)
THEOREM TypeCorrect == Spec => []TypeOK
BY TypedInv, PTL DEF Typed

(* The pool's mutex excludes, and every thread has in hand what its code uses. *)
THEOREM PoolMutexCorrect == Spec => []PoolMutex
BY TypedInv, PTL DEF Typed

-----------------------------------------------------------------------------
(* The safety of the queue, on top of Typed *)

(* The number of workers in a set of workers, and of one more or one less. *)
LEMMA WorkerCount ==
  ASSUME NEW S \in SUBSET Workers
  PROVE  /\ IsFiniteSet(S) /\ Cardinality(S) \in Nat
         /\ \A T \in SUBSET Workers : S \subseteq T => Cardinality(S) <= Cardinality(T)
         /\ \A w \in Workers : w \notin S => Cardinality(S \cup {w}) = Cardinality(S) + 1
         /\ \A w \in S : Cardinality(S \ {w}) = Cardinality(S) - 1
<1>1. IsFiniteSet(S) /\ Cardinality(S) \in Nat
  BY ConstantsAssumption, FS_Subset, FS_CardinalityType
<1>2. \A T \in SUBSET Workers : S \subseteq T => Cardinality(S) <= Cardinality(T)
  BY ConstantsAssumption, FS_Subset
<1> QED
  BY <1>1, <1>2, FS_AddElement, FS_RemoveElement

(* The backlog overshoots the limit by less than one fan-out. *)
LEMMA StepBacklog == Typed /\ BacklogBounded /\ [Next]_vars => BacklogBounded'
<1> SUFFICES ASSUME Typed, BacklogBounded, [Next]_vars PROVE BacklogBounded'
  OBVIOUS
<1>1. BacklogCounted'
  BY StepTyped DEF Typed
<1>2. waitingTasksNum' <= MAX_WAITING_TASKS_NUM + N - 1
  <2>1. CASE ExecuteAdd
    <3>1. ipNum \in 0..N /\ waitingTasksNum \in Nat
      BY DEF Typed, TypeOK
    <3>2. CASE BacklogFull
      BY <2>1, <3>2 DEF ExecuteAdd, BacklogBounded, poolVars
    <3>3. CASE ~BacklogFull
      BY <2>1, <3>1, <3>3, ConstantsAssumption DEF ExecuteAdd, BacklogFull
    <3> QED
      BY <3>2, <3>3
  <2>2. ASSUME NEW w \in Workers, TakeTask(w)
        PROVE  waitingTasksNum' <= MAX_WAITING_TASKS_NUM + N - 1
    BY <2>2, ConstantsAssumption DEF TakeTask, BacklogBounded, Typed, TypeOK
  <2>3. CASE UNCHANGED waitingTasksNum
    BY <2>3 DEF BacklogBounded
  <2> QED
    BY <2>1, <2>2, <2>3
    DEF Next, CallerStep, Execute, Read, WorkerStep, vars, poolVars, Call,
        ExecuteTryLock, ExecuteGiveUp, ExecuteSignal, ReadTryLock, ReadCheck,
        ReadGiveUp, ReleaseLock, ReleaseCommand, LockPool, WaitForTask,
        SpuriousWakeup, PickTask, CountDoing, SignalNext, CommandReplied,
        CommandFailed, WriteTryLock, WriteGiveUp, WriteResult, FreeLock, FreeTask
<1> QED
  BY <1>1, <1>2 DEF BacklogBounded, BacklogCounted

(* The backlog is counted right and bounded. *)
THEOREM BacklogCorrect == Spec => []BacklogBounded
<1>1. Init => BacklogBounded
  BY ConstantsAssumption DEF Init, BacklogBounded
<1> QED
  BY <1>1, TypedInv, StepBacklog, PTL DEF Spec

(* A worker that sleeps leaves no task without somebody on the way to it. *)
LEMMA StepWakeup == Typed /\ NoLostWakeup /\ [Next]_vars => NoLostWakeup'
<1> SUFFICES ASSUME Typed, NoLostWakeup, [Next]_vars PROVE NoLostWakeup'
  OBVIOUS
<1> USE ConstantsAssumption
    DEF Typed, Threads, poolVars, commandVars, heapVars, callerVars, Goto
<1>1. /\ Awake \in SUBSET Workers /\ Awake' \in SUBSET Workers
      /\ Len(taskQueue) \in Nat /\ toSignal \in Nat /\ toSignal' \in Nat
  BY StepTyped DEF Awake, TypeOK
<1>2. Cardinality(Awake) \in Nat /\ Cardinality(Awake') \in Nat
  BY <1>1, WorkerCount
<1>3. ASSUME Awake \subseteq Awake', Waiting' \subseteq Waiting,
             UNCHANGED <<taskQueue, toSignal>>
      PROVE  NoLostWakeup'
  <2>1. Cardinality(Awake) <= Cardinality(Awake')
    BY <1>1, <1>3, WorkerCount
  <2>2. CASE Waiting = {}
    BY <1>3, <2>2 DEF NoLostWakeup
  <2>3. CASE Waiting # {}
    BY <1>1, <1>2, <1>3, <2>1, <2>3 DEF NoLostWakeup
  <2> QED
    BY <2>2, <2>3
<1>4. CASE ExecuteAdd
  <2>1. Awake' = Awake /\ Waiting' = Waiting /\ toSignal = 0 /\ ipNum \in Nat
    BY <1>4, <1>1, SMTT(30) DEF ExecuteAdd, Awake, Waiting, TypeOK, PoolMutex
  <2>2. CASE BacklogFull
    BY <1>4, <2>1, <2>2, <1>3 DEF ExecuteAdd
  <2>3. CASE ~BacklogFull
    <3>1. /\ taskQueue' = taskQueue \o [i \in 1..ipNum |-> <<cmd, i>>]
          /\ toSignal' = ipNum
      BY <1>4, <2>3 DEF ExecuteAdd, SignalsDue
    <3>2. Len(taskQueue') = Len(taskQueue) + ipNum
      BY <3>1, <2>1 DEF TypeOK
    <3> QED
      BY <3>1, <3>2, <2>1, <1>1, <1>2 DEF NoLostWakeup
  <2> QED
    BY <2>2, <2>3
<1>5. CASE ExecuteSignal
  <2>1. taskQueue' = taskQueue /\ toSignal' = toSignal - 1
    BY <1>5 DEF ExecuteSignal
  <2>2. CASE Waiting = {} /\ \A w \in Workers : pc'[w] = pc[w]
    BY <2>2 DEF NoLostWakeup, Waiting
  <2>3. ASSUME NEW w \in Workers, pc[w] = "wait",
               \A v \in Workers : pc'[v] = IF v = w THEN "wake" ELSE pc[v]
        PROVE  NoLostWakeup'
    <3>1. Awake' = Awake \cup {w} /\ w \notin Awake /\ Waiting # {}
      BY <2>3 DEF Awake, Waiting
    <3>2. Cardinality(Awake') = Cardinality(Awake) + 1
      BY <3>1, <1>1, WorkerCount
    <3> QED
      BY <2>1, <3>1, <3>2, <1>1, <1>2 DEF NoLostWakeup
  <2> QED
    <3>1. \A w \in Workers : w # Caller
      OBVIOUS
    <3>2. PICK l : SignalThenGoto(Caller, l)
      BY <1>5 DEF ExecuteSignal
    <3>3. CASE Waiting = {} /\ pc' = [pc EXCEPT ![Caller] = l]
      BY <2>2, <3>1, <3>3 DEF TypeOK
    <3>4. ASSUME NEW w \in Waiting, pc' = [pc EXCEPT ![w] = "wake", ![Caller] = l]
          PROVE  NoLostWakeup'
      <4>1. w \in Workers /\ pc[w] = "wait"
        BY <3>4 DEF Waiting
      <4>2. \A v \in Workers : pc'[v] = IF v = w THEN "wake" ELSE pc[v]
        BY <3>1, <3>4, <4>1 DEF TypeOK
      <4> QED
        BY <2>3, <4>1, <4>2
    <3> QED
      BY <3>2, <3>3, <3>4 DEF SignalThenGoto
<1>6. ASSUME NEW w \in Workers, WaitForTask(w) PROVE NoLostWakeup'
  BY <1>6, <1>1, <1>2 DEF WaitForTask, NoLostWakeup
<1>7. ASSUME NEW w \in Workers, TakeTask(w) PROVE NoLostWakeup'
  <2>1. Awake' = Awake \ {w} /\ w \in Awake /\ Waiting' = Waiting
    BY <1>7 DEF TakeTask, Awake, Waiting, TypeOK
  <2>2. Cardinality(Awake') = Cardinality(Awake) - 1
    BY <2>1, <1>1, WorkerCount
  <2>3. Len(taskQueue') = Len(taskQueue) - 1 /\ toSignal' = toSignal
    BY <1>7, HeadTailType DEF TakeTask, TypeOK, PoolMutex
  <2> QED
    BY <2>1, <2>2, <2>3, <1>1, <1>2 DEF NoLostWakeup
<1>8. ASSUME NEW w \in Workers, LockPool(w) \/ SpuriousWakeup(w) \/ PickTask(w)
      PROVE  NoLostWakeup'
  <2>1. Awake \subseteq Awake' /\ Waiting' \subseteq Waiting
    BY <1>8 DEF LockPool, SpuriousWakeup, PickTask, Awake, Waiting, TypeOK
  <2> QED
    BY <1>8, <2>1, <1>3 DEF LockPool, SpuriousWakeup, PickTask
<1>9. ASSUME NEW w \in Workers, SignalNext(w) PROVE NoLostWakeup'
  <2>1. Awake \subseteq Awake' /\ Waiting' \subseteq Waiting
    BY <1>9 DEF SignalNext, SignalThenGoto, Awake, Waiting, TypeOK
  <2> QED
    BY <1>9, <2>1, <1>3 DEF SignalNext
<1>10. ASSUME NEW w \in Workers,
              \/ CountDoing(w) \/ CommandReplied(w) \/ CommandFailed(w)
              \/ WriteTryLock(w) \/ WriteGiveUp(w) \/ WriteResult(w)
              \/ FreeLock(w) \/ FreeTask(w)
       PROVE  NoLostWakeup'
  <2>1. /\ pc[w] \notin {"lock", "check", "wait", "wake", "recheck", "take"}
        /\ pc'[w] # "wait" /\ \A v \in Workers \ {w} : pc'[v] = pc[v]
    BY <1>10 DEF CountDoing, CommandReplied, CommandFailed, WriteTryLock,
         WriteGiveUp, WriteResult, FreeLock, FreeTask, TypeOK
  <2>2. Awake \subseteq Awake' /\ Waiting' \subseteq Waiting
    BY <2>1 DEF Awake, Waiting
  <2> QED
    BY <1>10, <2>2, <1>3
    DEF CountDoing, CommandReplied, CommandFailed, WriteTryLock, WriteGiveUp,
        WriteResult, FreeLock, FreeTask
<1>11. ASSUME \A w \in Workers : pc'[w] = pc[w], UNCHANGED <<taskQueue, toSignal>>
       PROVE  NoLostWakeup'
  BY <1>3, <1>11 DEF Awake, Waiting
<1>12. ASSUME NEW op \in Operations, NEW n \in Replicas, Call(op, n)
       PROVE  NoLostWakeup'
  BY <1>11, <1>12 DEF Call, TypeOK
<1>13. CASE ExecuteTryLock \/ ExecuteGiveUp \/ Read \/ UNCHANGED vars
  BY <1>11, <1>13
  DEF ExecuteTryLock, ExecuteGiveUp, Read, ReadTryLock, ReadCheck, ReadGiveUp,
      ReleaseLock, ReleaseCommand, vars, TypeOK
<1> QED
  BY <1>4, <1>5, <1>6, <1>7, <1>8, <1>9, <1>10, <1>12, <1>13
  DEF Next, CallerStep, Execute, WorkerStep

(* No wakeup is lost: no task waits in the queue for a worker that sleeps. *)
THEOREM WakeupCorrect == Spec => []NoLostWakeup
<1>1. Init => NoLostWakeup
  BY ConstantsAssumption DEF Init, NoLostWakeup, Waiting, Threads
<1> QED
  BY <1>1, TypedInv, StepWakeup, PTL DEF Spec

(* The idle counter never exceeds the workers that wait for a task. *)
LEMMA StepIdle == Typed /\ IdleNotOverstated /\ [Next]_vars => IdleNotOverstated'
<1> SUFFICES ASSUME Typed, IdleNotOverstated, [Next]_vars PROVE IdleNotOverstated'
  OBVIOUS
<1> USE ConstantsAssumption
    DEF Typed, Threads, poolVars, commandVars, heapVars, callerVars, Goto
<1>1. /\ Idlers \in SUBSET Workers /\ Idlers' \in SUBSET Workers
      /\ idleThreadsNum \in Int /\ Workers \subseteq Threads
  BY DEF Idlers, TypeOK
<1>2. Cardinality(Idlers) \in Nat /\ Cardinality(Idlers') \in Nat
  BY <1>1, WorkerCount
<1>3. ASSUME Idlers \subseteq Idlers', UNCHANGED idleThreadsNum
      PROVE  IdleNotOverstated'
  <2>1. Cardinality(Idlers) <= Cardinality(Idlers')
    BY <1>1, <1>3, WorkerCount
  <2> QED
    BY <1>1, <1>2, <1>3, <2>1 DEF IdleNotOverstated
<1>4. ASSUME NEW w \in Workers, WaitForTask(w) PROVE IdleNotOverstated'
  <2>1. CASE pc[w] = "check"
    <3>1. idleThreadsNum' = idleThreadsNum + 1 /\ pc' = [pc EXCEPT ![w] = "wait"]
      BY <1>4, <2>1 DEF WaitForTask, RunOnce
    <3>2. Idlers' = Idlers \cup {w} /\ w \notin Idlers
      BY <2>1, <3>1, <1>1 DEF Idlers, TypeOK
    <3>3. Cardinality(Idlers') = Cardinality(Idlers) + 1
      BY <3>2, <1>1, WorkerCount
    <3> QED
      BY <3>1, <3>3, <1>1, <1>2 DEF IdleNotOverstated
  <2>2. CASE pc[w] # "check"
    <3>1. Idlers \subseteq Idlers' /\ idleThreadsNum' = idleThreadsNum
      BY <1>4, <2>2 DEF WaitForTask, RunOnce, Idlers, TypeOK
    <3> QED
      BY <3>1, <1>3
  <2> QED
    BY <2>1, <2>2
<1>5. ASSUME NEW w \in Workers, TakeTask(w) PROVE IdleNotOverstated'
  <2>1. Idlers' = Idlers \ {w} /\ w \in Idlers /\ idleThreadsNum' = idleThreadsNum - 1
    BY <1>5 DEF TakeTask, Idlers, TypeOK
  <2>2. Cardinality(Idlers') = Cardinality(Idlers) - 1
    BY <2>1, <1>1, WorkerCount
  <2> QED
    BY <2>1, <2>2, <1>1, <1>2 DEF IdleNotOverstated
<1>6. ASSUME NEW w \in Workers,
             \/ LockPool(w) \/ SpuriousWakeup(w) \/ PickTask(w)
             \/ CountDoing(w) \/ CommandReplied(w) \/ CommandFailed(w)
             \/ WriteTryLock(w) \/ WriteGiveUp(w) \/ WriteResult(w)
             \/ FreeLock(w) \/ FreeTask(w)
      PROVE  IdleNotOverstated'
  <2>1. /\ \A v \in Workers \ {w} : pc'[v] = pc[v]
        /\ w \in Idlers => w \in Idlers'
    BY <1>6
    DEF LockPool, SpuriousWakeup, PickTask, CountDoing, CommandReplied, CommandFailed,
        WriteTryLock, WriteGiveUp, WriteResult, FreeLock, FreeTask, Idlers, TypeOK
  <2>2. Idlers \subseteq Idlers'
    BY <2>1 DEF Idlers
  <2> QED
    BY <1>6, <2>2, <1>3
    DEF LockPool, SpuriousWakeup, PickTask, CountDoing, CommandReplied, CommandFailed,
        WriteTryLock, WriteGiveUp, WriteResult, FreeLock, FreeTask
<1>7. ASSUME NEW t \in Threads, NEW l \in CallerLabels \cup WorkerLabels,
             pc[t] = "signal", SignalThenGoto(t, l), UNCHANGED idleThreadsNum
      PROVE  IdleNotOverstated'
  <2>1. Idlers \subseteq Idlers'
    BY <1>1, <1>7, SignalEffect DEF Idlers
  <2> QED
    BY <1>7, <2>1, <1>3
<1>8. CASE ExecuteSignal
  <2>1. PICK l \in {"read", "signal"} : SignalThenGoto(Caller, l)
    BY <1>8 DEF ExecuteSignal
  <2> QED
    BY <1>8, <2>1, <1>7 DEF ExecuteSignal, CallerLabels
<1>9. ASSUME NEW w \in Workers, SignalNext(w) PROVE IdleNotOverstated'
  BY <1>1, <1>9, <1>7 DEF SignalNext, WorkerLabels
<1>10. ASSUME \A w \in Workers : pc'[w] = pc[w], UNCHANGED idleThreadsNum
       PROVE  IdleNotOverstated'
  BY <1>3, <1>10 DEF Idlers
<1>11. ASSUME NEW op \in Operations, NEW n \in Replicas, Call(op, n)
       PROVE  IdleNotOverstated'
  BY <1>10, <1>11 DEF Call, TypeOK
<1>12. CASE ExecuteTryLock \/ ExecuteGiveUp \/ ExecuteAdd \/ Read \/ UNCHANGED vars
  BY <1>10, <1>12
  DEF ExecuteTryLock, ExecuteGiveUp, ExecuteAdd, Read, ReadTryLock, ReadCheck,
      ReadGiveUp, ReleaseLock, ReleaseCommand, vars, TypeOK
<1> QED
  BY <1>4, <1>5, <1>6, <1>8, <1>9, <1>11, <1>12
  DEF Next, CallerStep, Execute, WorkerStep

(* The idle counter is a lower bound of the idle workers. *)
THEOREM IdleCorrect == Spec => []IdleNotOverstated
<1>1. Init => IdleNotOverstated
  <2>1. ASSUME Init PROVE Idlers = {} /\ idleThreadsNum = 0
    BY <2>1 DEF Init, Idlers, Threads
  <2> QED
    BY <2>1, FS_EmptySet DEF IdleNotOverstated
<1> QED
  BY <1>1, TypedInv, StepIdle, PTL DEF Spec
=============================================================================
