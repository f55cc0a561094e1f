----------------------------- MODULE ThreadPool -----------------------------
(***************************************************************************)
(* The client's thread pool (threadpool.c): one caller thread hands Redis  *)
(* commands to a fixed set of worker threads and polls for their answers.  *)
(*                                                                         *)
(* A call of the router allocates a RedisCommand, fans it out into one     *)
(* ThreadTask per replica (execute), and polls the command until enough    *)
(* tasks have written back (readResult).  A worker takes a task, runs the  *)
(* Redis command and writes its answer back (writeResult).  The command is *)
(* reference counted by the caller and by each of its tasks.               *)
(*                                                                         *)
(* Mutexes are modelled by their holder, and every stretch of code that    *)
(* runs between two operations on shared state is one action.  The heap is *)
(* the set of allocated commands and the set of allocated tasks.  A local  *)
(* variable that is out of scope is 0.                                     *)
(***************************************************************************)
EXTENDS Integers, Sequences, FiniteSets

CONSTANTS
  Workers,                \* the THREAD_NUM worker threads
  Caller,                 \* the client thread that runs the API functions
  NoThread,               \* the holder of a free mutex
  MaxCommands,            \* bound: number of API calls of a behaviour
  N, R, W,                \* replicas, read and write thresholds (def.h)
  MAX_WAITING_TASKS_NUM,  \* backlog at which execute() refuses
  ADD_RETRY, LOCK_RETRY   \* attempts at a mutex

ASSUME ConstantsAssumption ==
  /\ IsFiniteSet(Workers) /\ Workers # {}
  /\ Caller \notin Workers /\ NoThread \notin Workers \cup {Caller}
  /\ MaxCommands \in Nat
  /\ N \in Nat /\ R \in 1..N /\ W \in 1..N
  /\ MAX_WAITING_TASKS_NUM \in Nat \ {0}
  /\ ADD_RETRY \in Nat /\ LOCK_RETRY \in Nat

Threads  == Workers \cup {Caller}
Commands == 1..MaxCommands
Replicas == 1..N
Tasks    == Commands \X Replicas   \* the task of a command for a replica
NoTask   == <<0, 0>>

VARIABLES
  taskQueue, waitingTasksNum, idleThreadsNum, poolLock,  \* *g_threadPool
  commands,    \* RedisCommands that are allocated
  tasks,       \* ThreadTasks that are allocated
  refNum, successNum, blob, cmdLock,                     \* the RedisCommands
  cmd,         \* caller: the command of the current or of the last call
  ipNum,       \* caller: number of tasks of the current command
  toSignal,    \* caller: signals execute() has still to send
  need,        \* answers readResult() asks for, per command
  result,      \* what readResult() returned, per command
  pc, retry,   \* per thread
  task, slot   \* per worker: its task, its local copy of successNum

poolVars    == <<taskQueue, waitingTasksNum, idleThreadsNum>>
commandVars == <<refNum, successNum, blob>>
heapVars    == <<commands, tasks>>
callerVars  == <<cmd, ipNum, toSignal, need, result>>
vars == <<poolVars, poolLock, heapVars, commandVars, cmdLock, callerVars,
          pc, retry, task, slot>>

-----------------------------------------------------------------------------
(* Mutexes and the condition variable *)

Goto(t, l) == pc' = [pc EXCEPT ![t] = l]

(* Mutants: a mutex is taken even if another thread holds it. *)
BargePool(t)   == poolLock' = t
BargeCmd(t, c) == cmdLock' = [cmdLock EXCEPT ![c] = t]

AcquirePool(t) == poolLock = NoThread /\ poolLock' = t
ReleasePool    == poolLock' = NoThread

AcquireCmd(t, c) == cmdLock[c] = NoThread /\ cmdLock' = [cmdLock EXCEPT ![c] = t]
ReleaseCmd(c)    == cmdLock' = [cmdLock EXCEPT ![c] = NoThread]

Waiting == {w \in Workers : pc[w] = "wait"}

(* Mutant: nobody is woken. *)
NoSignal(t, l) == Goto(t, l)

(* pthread_cond_signal: wakes one waiting worker, and is lost if there is
   none; thread t goes on at label l. *)
SignalThenGoto(t, l) ==
  \/ \E w \in Waiting : pc' = [pc EXCEPT ![w] = "wake", ![t] = l]
  \/ Waiting = {} /\ Goto(t, l)

(* Mutant: the mutex stays locked while references remain. *)
DropReferenceKeepingLock(c) ==
  /\ refNum' = [refNum EXCEPT ![c] = @ - 1]
  /\ commands' = IF refNum[c] = 1 THEN commands \ {c} ELSE commands
  /\ IF refNum[c] = 1 THEN ReleaseCmd(c) ELSE UNCHANGED cmdLock

(* _freeRedisCommand, once its mutex is held: drop a reference, and free the
   command with the last one. *)
DropReference(c) ==
  /\ refNum' = [refNum EXCEPT ![c] = @ - 1]
  /\ commands' = IF refNum[c] = 1 THEN commands \ {c} ELSE commands
  /\ ReleaseCmd(c)

-----------------------------------------------------------------------------
(* The caller: router.c's calls, execute() and readResult() *)

Operations == {"createBucket", "deleteBlob", "deleteBucket", "existBlob",
               "existBucket", "loadBlob", "saveBlob"}

(* The threshold each route...() function gives to readResult(). *)
Threshold(op) ==
  CASE op \in {"createBucket", "saveBlob"}   -> W
    [] op = "loadBlob"                       -> R
    [] op \in {"deleteBlob", "deleteBucket"} -> N
    [] op \in {"existBlob", "existBucket"}   -> 1

(* rand() % THREAD_NUM < idleThreadsNum ? N : refNum, the counter being read
   without the pool's mutex. *)
ExpectedAnswersNum(num) ==
  {n \in {N} : idleThreadsNum > 0}
    \cup {n \in {num} : idleThreadsNum < Cardinality(Workers)}

(* The ipNum each route...() function gives to execute(). *)
FanOut(op) ==
  IF op \in {"loadBlob", "saveBlob"}
  THEN ExpectedAnswersNum(Threshold(op)) ELSE {N}

(* Mutant: the caller does not count itself. *)
InitialRefs(n) == n

(* newRedisCommand counts its caller, _newThreadTask each of the n tasks. *)
NewRefs(n) == 1 + n

(* newRedisCommand, and the tasks execute() builds before it takes a lock. *)
Call(op, n) ==
  LET c == cmd + 1 IN
  /\ pc[Caller] = "idle" /\ cmd < MaxCommands
  /\ n \in FanOut(op)
  /\ cmd' = c /\ ipNum' = n
  /\ need' = [need EXCEPT ![c] = Threshold(op)]
  /\ commands' = commands \cup {c}
  /\ tasks' = tasks \cup ({c} \X (1..n))
  /\ refNum' = [refNum EXCEPT ![c] = NewRefs(n)]
  /\ retry' = [retry EXCEPT ![Caller] = ADD_RETRY]
  /\ Goto(Caller, "add")
  /\ UNCHANGED <<poolVars, poolLock, successNum, blob, cmdLock, toSignal,
                 result, task, slot>>

ExecuteTryLock ==
  /\ pc[Caller] = "add" /\ retry[Caller] > 0
  /\ retry' = [retry EXCEPT ![Caller] = @ - 1]
  /\ \/ AcquirePool(Caller) /\ Goto(Caller, "adding")
     \/ poolLock # NoThread /\ UNCHANGED <<poolLock, pc>>
  /\ UNCHANGED <<poolVars, heapVars, commandVars, cmdLock, callerVars, task, slot>>

(* Every attempt failed: the tasks are dropped without being freed, and the
   caller goes on to wait for answers that nobody will give. *)
ExecuteGiveUp ==
  /\ pc[Caller] = "add" /\ retry[Caller] = 0
  /\ retry' = [retry EXCEPT ![Caller] = LOCK_RETRY]
  /\ Goto(Caller, "read")
  /\ UNCHANGED <<poolVars, poolLock, heapVars, commandVars, cmdLock, callerVars,
                 task, slot>>

(* Mutants: the limit is off by one; the signals are; one signal for all. *)
BacklogOverFull == waitingTasksNum > MAX_WAITING_TASKS_NUM
SignalsOverDue  == ipNum + 1
OneSignal       == 1

BacklogFull == waitingTasksNum >= MAX_WAITING_TASKS_NUM

(* One signal per task. *)
SignalsDue == ipNum

ExecuteAdd ==
  /\ pc[Caller] = "adding"
  /\ IF BacklogFull
     THEN Goto(Caller, "add") /\ UNCHANGED <<poolVars, toSignal, retry>>
     ELSE /\ taskQueue' = taskQueue \o [i \in 1..ipNum |-> <<cmd, i>>]
          /\ waitingTasksNum' = waitingTasksNum + ipNum
          /\ toSignal' = SignalsDue
          /\ retry' = [retry EXCEPT ![Caller] = 0]
          /\ Goto(Caller, "signal")
          /\ UNCHANGED idleThreadsNum
  /\ ReleasePool
  /\ UNCHANGED <<heapVars, commandVars, cmdLock, cmd, ipNum, need, result,
                 task, slot>>

ExecuteSignal ==
  /\ pc[Caller] = "signal"
  /\ toSignal' = toSignal - 1
  /\ SignalThenGoto(Caller, IF toSignal = 1 THEN "read" ELSE "signal")
  /\ retry' = [retry EXCEPT ![Caller] = IF toSignal = 1 THEN LOCK_RETRY ELSE 0]
  /\ UNCHANGED <<poolVars, poolLock, heapVars, commandVars, cmdLock, cmd, ipNum,
                 need, result, task, slot>>

ReadTryLock ==
  /\ pc[Caller] = "read" /\ retry[Caller] > 0
  /\ retry' = [retry EXCEPT ![Caller] = @ - 1]
  /\ \/ AcquireCmd(Caller, cmd) /\ Goto(Caller, "reading")
     \/ cmdLock[cmd] # NoThread /\ UNCHANGED <<cmdLock, pc>>
  /\ UNCHANGED <<poolVars, poolLock, heapVars, commandVars, callerVars, task, slot>>

(* Mutant: one answer too few is enough. *)
AlmostEnough(c) == successNum[c] + 1 >= need[c]

Enough(c) == successNum[c] >= need[c]

(* The threshold is met; or it is not, and the caller tries again unless this
   was the attempt with retry = 1.  A failed call keeps its reference. *)
ReadCheck ==
  LET enough == Enough(cmd)
      last   == retry[Caller] = 1 IN
  /\ pc[Caller] = "reading"
  /\ ReleaseCmd(cmd)
  /\ Goto(Caller, IF enough THEN "release" ELSE IF last THEN "idle" ELSE "read")
  /\ result' = [result EXCEPT ![cmd] =
                  IF enough THEN "ok" ELSE IF last THEN "failed" ELSE @]
  /\ retry' = [retry EXCEPT ![Caller] = IF enough \/ last THEN 0 ELSE @]
  /\ UNCHANGED <<poolVars, poolLock, heapVars, commandVars, cmd, ipNum, toSignal,
                 need, task, slot>>

ReadGiveUp ==
  /\ pc[Caller] = "read" /\ retry[Caller] = 0
  /\ result' = [result EXCEPT ![cmd] = "failed"]
  /\ Goto(Caller, "idle")
  /\ UNCHANGED <<poolVars, poolLock, heapVars, commandVars, cmdLock, cmd, ipNum,
                 toSignal, need, retry, task, slot>>

ReleaseLock ==
  /\ pc[Caller] = "release"
  /\ AcquireCmd(Caller, cmd) /\ Goto(Caller, "releasing")
  /\ UNCHANGED <<poolVars, poolLock, heapVars, commandVars, callerVars, retry,
                 task, slot>>

ReleaseCommand ==
  /\ pc[Caller] = "releasing"
  /\ DropReference(cmd)
  /\ Goto(Caller, "idle")
  /\ UNCHANGED <<poolVars, poolLock, tasks, successNum, blob, callerVars, retry,
                 task, slot>>

-----------------------------------------------------------------------------
(* A worker: _threadDo() and writeResult() *)

(* Mutant: a worker is counted as idle again after each wakeup. *)
CountsAsIdle(w) == TRUE

(* runonce: a worker is counted as idle once per task it waits for. *)
RunOnce(w) == pc[w] = "check"

(* The mutex is taken at the top of the loop, and again by pthread_cond_wait
   when it returns. *)
LockPool(w) ==
  /\ \/ pc[w] = "lock" /\ Goto(w, "check")
     \/ pc[w] = "wake" /\ Goto(w, "recheck")
  /\ AcquirePool(w)
  /\ UNCHANGED <<poolVars, heapVars, commandVars, cmdLock, callerVars, retry, task, slot>>

WaitForTask(w) ==
  /\ pc[w] \in {"check", "recheck"} /\ taskQueue = <<>>
  /\ idleThreadsNum' = IF RunOnce(w) THEN idleThreadsNum + 1 ELSE idleThreadsNum
  /\ ReleasePool
  /\ Goto(w, "wait")
  /\ UNCHANGED <<taskQueue, waitingTasksNum, heapVars, commandVars, cmdLock,
                 callerVars, retry, task, slot>>

(* pthread_cond_wait may return without a signal. *)
SpuriousWakeup(w) ==
  /\ pc[w] = "wait" /\ Goto(w, "wake")
  /\ UNCHANGED <<poolVars, poolLock, heapVars, commandVars, cmdLock, callerVars,
                 retry, task, slot>>

(* The head of the queue is read, and then unlinked. *)
PickTask(w) ==
  /\ pc[w] \in {"check", "recheck"} /\ taskQueue # <<>>
  /\ task' = [task EXCEPT ![w] = Head(taskQueue)]
  /\ Goto(w, "take")
  /\ UNCHANGED <<poolVars, poolLock, heapVars, commandVars, cmdLock, callerVars,
                 retry, slot>>

TakeTask(w) ==
  /\ pc[w] = "take"
  /\ taskQueue' = Tail(taskQueue)
  /\ waitingTasksNum' = waitingTasksNum - 1
  /\ idleThreadsNum' = idleThreadsNum - 1
  /\ Goto(w, "count")
  /\ UNCHANGED <<poolLock, heapVars, commandVars, cmdLock, callerVars, retry,
                 task, slot>>

(* doingNum, which is only logged, is bumped under the command's mutex while
   the pool's mutex is held; then both are released. *)
CountDoing(w) ==
  /\ pc[w] = "count" /\ cmdLock[task[w][1]] = NoThread
  /\ Goto(w, IF taskQueue # <<>> THEN "signal" ELSE "command")
  /\ ReleasePool
  /\ UNCHANGED <<poolVars, heapVars, commandVars, cmdLock, callerVars, retry, task, slot>>

SignalNext(w) ==
  /\ pc[w] = "signal"
  /\ SignalThenGoto(w, "command")
  /\ UNCHANGED <<poolVars, poolLock, heapVars, commandVars, cmdLock, callerVars,
                 retry, task, slot>>

(* The Redis command returned an answer, or failed.  A command that failed
   returns without writeResult(), and nobody frees its task. *)
CommandReplied(w) ==
  /\ pc[w] = "command" /\ Goto(w, "write")
  /\ retry' = [retry EXCEPT ![w] = LOCK_RETRY]
  /\ UNCHANGED <<poolVars, poolLock, heapVars, commandVars, cmdLock, callerVars,
                 task, slot>>

CommandFailed(w) ==
  /\ pc[w] = "command" /\ Goto(w, "lock")
  /\ task' = [task EXCEPT ![w] = NoTask]
  /\ UNCHANGED <<poolVars, poolLock, heapVars, commandVars, cmdLock, callerVars,
                 retry, slot>>

WriteTryLock(w) ==
  LET c == task[w][1] IN
  /\ pc[w] = "write" /\ retry[w] > 0
  /\ retry' = [retry EXCEPT ![w] = @ - 1]
  /\ \/ /\ AcquireCmd(w, c) /\ Goto(w, "writing")
        /\ slot' = [slot EXCEPT ![w] = successNum[c]]
     \/ cmdLock[c] # NoThread /\ UNCHANGED <<cmdLock, pc, slot>>
  /\ UNCHANGED <<poolVars, poolLock, heapVars, commandVars, callerVars, task>>

WriteGiveUp(w) ==
  /\ pc[w] = "write" /\ retry[w] = 0 /\ Goto(w, "lock")
  /\ task' = [task EXCEPT ![w] = NoTask]
  /\ UNCHANGED <<poolVars, poolLock, heapVars, commandVars, cmdLock, callerVars,
                 retry, slot>>

(* The i-th worker to succeed writes slot i of the command's blob buffer. *)
WriteResult(w) ==
  LET c == task[w][1] IN
  /\ pc[w] = "writing"
  /\ successNum' = [successNum EXCEPT ![c] = slot[w] + 1]
  /\ blob' = [blob EXCEPT ![c][slot[w] + 1] = task[w][2]]
  /\ slot' = [slot EXCEPT ![w] = 0] /\ retry' = [retry EXCEPT ![w] = 0]
  /\ ReleaseCmd(c)
  /\ Goto(w, "free")
  /\ UNCHANGED <<poolVars, poolLock, heapVars, refNum, callerVars, task>>

FreeLock(w) ==
  /\ pc[w] = "free"
  /\ AcquireCmd(w, task[w][1]) /\ Goto(w, "freeing")
  /\ UNCHANGED <<poolVars, poolLock, heapVars, commandVars, callerVars, retry, task, slot>>

FreeTask(w) ==
  /\ pc[w] = "freeing"
  /\ DropReference(task[w][1])
  /\ tasks' = tasks \ {task[w]}
  /\ task' = [task EXCEPT ![w] = NoTask]
  /\ Goto(w, "lock")
  /\ UNCHANGED <<poolVars, poolLock, successNum, blob, callerVars, retry, slot>>

-----------------------------------------------------------------------------
Init ==
  /\ taskQueue = <<>> /\ waitingTasksNum = 0 /\ idleThreadsNum = 0
  /\ poolLock = NoThread
  /\ commands = {} /\ tasks = {}
  /\ refNum = [c \in Commands |-> 0]
  /\ successNum = [c \in Commands |-> 0]
  /\ blob = [c \in Commands |-> [i \in Replicas |-> 0]]
  /\ cmdLock = [c \in Commands |-> NoThread]
  /\ cmd = 0 /\ ipNum = 0 /\ toSignal = 0
  /\ need = [c \in Commands |-> 0]
  /\ result = [c \in Commands |-> "none"]
  /\ pc = [t \in Threads |-> IF t = Caller THEN "idle" ELSE "lock"]
  /\ retry = [t \in Threads |-> 0]
  /\ task = [w \in Workers |-> NoTask]
  /\ slot = [w \in Workers |-> 0]

Execute == ExecuteTryLock \/ ExecuteGiveUp \/ ExecuteAdd \/ ExecuteSignal
Read    == ReadTryLock \/ ReadCheck \/ ReadGiveUp \/ ReleaseLock \/ ReleaseCommand

CallerStep == Execute \/ Read

WorkerStep(w) ==
  \/ LockPool(w) \/ WaitForTask(w) \/ PickTask(w) \/ TakeTask(w) \/ CountDoing(w) \/ SignalNext(w)
  \/ CommandReplied(w) \/ CommandFailed(w)
  \/ WriteTryLock(w) \/ WriteGiveUp(w) \/ WriteResult(w) \/ FreeLock(w) \/ FreeTask(w)

Next ==
  \/ \E op \in Operations, n \in Replicas : Call(op, n)
  \/ CallerStep
  \/ \E w \in Workers : WorkerStep(w) \/ SpuriousWakeup(w)

Spec == Init /\ [][Next]_vars

(* The step of a worker that is not in a Redis command.  Such a command need not
   end: its sockets block, and a server that reads no more holds up write() for
   as long as it likes. *)
ScheduledStep(w) == WorkerStep(w) /\ pc[w] # "command"

(* Every runnable thread is scheduled. *)
Fairness == WF_vars(CallerStep) /\ \A w \in Workers : WF_vars(ScheduledStep(w))

FairSpec == Spec /\ Fairness

-----------------------------------------------------------------------------
(* Properties *)

CallerLabels == {"idle", "add", "adding", "signal", "read", "reading",
                 "release", "releasing"}
WorkerLabels == {"lock", "check", "wait", "wake", "recheck", "take", "count",
                 "signal", "command", "write", "writing", "free", "freeing"}

(* The type of every variable of the pool, of the commands and of the threads:
   in particular the backlog is never negative, and execute() signals at most
   once per replica. *)
TypeOK ==
  /\ taskQueue \in Seq(Tasks)
  /\ waitingTasksNum \in Nat /\ idleThreadsNum \in Int
  /\ poolLock \in Threads \cup {NoThread}
  /\ commands \subseteq Commands /\ tasks \subseteq Tasks
  /\ refNum \in [Commands -> Int]
  /\ successNum \in [Commands -> Nat]
  /\ blob \in [Commands -> [Replicas -> 0..N]]
  /\ cmdLock \in [Commands -> Threads \cup {NoThread}]
  /\ cmd \in 0..MaxCommands /\ ipNum \in 0..N /\ toSignal \in 0..N
  /\ need \in [Commands -> 0..N]
  /\ result \in [Commands -> {"none", "ok", "failed"}]
  /\ pc \in [Threads -> CallerLabels \cup WorkerLabels]
  /\ pc[Caller] \in CallerLabels /\ \A w \in Workers : pc[w] \in WorkerLabels
  /\ retry \in [Threads -> Nat]
  /\ task \in [Workers -> Tasks \cup {NoTask}]
  /\ slot \in [Workers -> Nat]

(* The labels between taking the pool's mutex and releasing it, and those at
   which a worker has a task. *)
PoolLabels == {"adding", "check", "recheck", "take", "count"}
TaskLabels == {"take", "count", "signal", "command", "write", "writing", "free",
               "freeing"}

(* The pool's mutex is held by the thread that is in the code it protects, so
   the head of the queue a worker has read is still there when it unlinks it;
   the caller and the workers reach the code that uses their command, their
   task or their count with one in hand. *)
PoolMutex ==
  /\ \A t \in Threads : poolLock = t <=> pc[t] \in PoolLabels
  /\ \A w \in Workers :
       /\ pc[w] = "take" => taskQueue # <<>> /\ task[w] = Head(taskQueue)
       /\ pc[w] \in TaskLabels <=> task[w] # NoTask
  /\ pc[Caller] # "idle" => cmd > 0 /\ ipNum > 0
  /\ pc[Caller] = "signal" <=> toSignal > 0

Queued == {taskQueue[i] : i \in 1..Len(taskQueue)}

(* What the threads hold pointers to. *)
CallerHolds(c) ==
  /\ c \in 1..cmd
  /\ result[c] = "ok" => c = cmd /\ pc[Caller] \in {"release", "releasing"}

Held == {task[w] : w \in Workers} \ {NoTask}

(* The reference count of a command is the number of its tasks, plus one while
   the caller has not dropped the reference of newRedisCommand: whatever the
   order of the last answer, of the caller's timeout and of the frees. *)
RefCounted ==
  \A c \in commands :
    refNum[c] = Cardinality({t \in tasks : t[1] = c})
                  + (IF CallerHolds(c) THEN 1 ELSE 0)

(* No thread ever reaches a task or a command that has been freed: the queue
   and the workers refer to allocated tasks, an allocated task to an allocated
   command, and the caller polls an allocated one. *)
NoUseAfterFree ==
  /\ Queued \cup Held \subseteq tasks
  /\ \A t \in tasks : t[1] \in commands
  /\ \A c \in 1..cmd : CallerHolds(c) => c \in commands

(* The pool's mutex gives every task to one worker: no two hold the same task,
   a task is queued once, and only the worker about to unlink the head of the
   queue holds a task that is still queued. *)
TaskOwnedOnce ==
  /\ \A v, w \in Workers : v # w /\ task[v] # NoTask => task[v] # task[w]
  /\ \A i, j \in 1..Len(taskQueue) : i # j => taskQueue[i] # taskQueue[j]
  /\ \A w \in Workers :
       task[w] \in Queued <=> pc[w] = "take" /\ task[w] = Head(taskQueue)

(* The i-th worker to succeed has slot i of the blob buffer to itself: the
   slots below successNum hold the answers of distinct replicas, and a worker
   about to write has the next slot. *)
SlotPerAnswer ==
  /\ \A c \in Commands : \A i, j \in 1..successNum[c] :
       blob[c][i] # 0 /\ (i # j => blob[c][i] # blob[c][j])
  /\ \A w \in Workers : pc[w] = "writing" => slot[w] = successNum[task[w][1]]

(* Workers that will look at the queue before they wait. *)
Awake == {w \in Workers : pc[w] \in {"lock", "check", "wake", "recheck", "take"}}

(* No wakeup is lost: while a worker sleeps, every queued task has a worker of
   its own on its way to the queue, or a signal execute() has yet to send. *)
NoLostWakeup ==
  Waiting = {} \/ Len(taskQueue) <= Cardinality(Awake) + toSignal

(* The backlog is counted right, and is bounded: execute() tests the limit
   before it adds, so the queue can exceed it by one fan-out less one. *)
BacklogBounded ==
  /\ waitingTasksNum = Len(taskQueue)
  /\ waitingTasksNum <= MAX_WAITING_TASKS_NUM + N - 1

(* Workers that wait for a task, or are about to count themselves out. *)
Idlers == {w \in Workers : pc[w] \in {"wait", "wake", "recheck", "take"}}

(* The counter router.c picks the fan-out with never overstates the workers
   that wait for a task, however often they wake up in vain. *)
IdleNotOverstated == idleThreadsNum <= Cardinality(Idlers)

(* The pool as the caller sees it. *)
Status == [c \in Commands |->
  IF c > cmd THEN "unborn" ELSE IF result[c] = "none" THEN "pending" ELSE result[c]]
Acked == [c \in Commands |-> {blob[c][i] : i \in 1..successNum[c]}]

QC == INSTANCE QuorumCall WITH status <- Status, acked <- Acked

(* The pool implements quorum calls: execute(), readResult(), the workers and
   writeResult() together never report success on fewer distinct replicas than
   the threshold, nor count a replica twice, nor decide a call twice. *)
ImplementsQuorumCall == QC!Spec

(* Every call of the API returns, even if no Redis command ever ends: the caller's
   waits are bounded, and the mutexes it blocks on are released. *)
EveryCallReturns == pc[Caller] # "idle" ~> pc[Caller] = "idle"

(* At least one worker is not held up for ever by a server that has stalled. *)
SomeWorkerReturns == \E w \in Workers : []<>(pc[w] # "command")

(* Every task that was queued is taken, as long as one worker returns from its
   commands, however many others never do: the signals reach that one.  With as
   many stalled workers as there are, a queued task may wait for ever. *)
EveryTaskTaken ==
  SomeWorkerReturns => \A t \in Tasks : t \in Queued ~> t \notin Queued
=============================================================================
