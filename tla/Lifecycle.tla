------------------------------ MODULE Lifecycle ------------------------------
(***************************************************************************)
(* The start and the end of a client (client.c, api.c, router.c and the    *)
(* pools below) beside the configuration server (config-server.c).  Each   *)
(* reads its copy of the list of Redis servers, in its own way.            *)
(*                                                                         *)
(* Threads are cancelled where they call recv(), write(), usleep() or wait *)
(* for a condition, and nobody waits for their end.  A step that uses      *)
(* memory which was freed, or takes NULL for a task, ends the run, with    *)
(* fate "corrupt".  What the threads do between start and end is reduced   *)
(* to the locks they hold and the memory they use; ThreadPool,             *)
(* ConnectionPool and RedisCommands have the rest.                         *)
(***************************************************************************)
EXTENDS Integers, Sequences, FiniteSets, SequencesExt

CONSTANTS
  Lines,        \* the servers that the client's RedisServers.cfg names, in order
  ServerLines,  \* those that the configuration server's copy names
  THREAD_NUM, N,
  MaxCalls,     \* bound: calls that add tasks
  None          \* no thread

ASSUME ConstantsAssumption ==
  /\ Lines \in Seq(ToSet(Lines)) /\ IsInjective(Lines)
  /\ ServerLines \in Seq(ToSet(Lines))
  /\ THREAD_NUM \in Nat \ {0} /\ N \in Nat \ {0} /\ MaxCalls \in Nat
  /\ None \notin Nat

Hosts   == ToSet(Lines)
Workers == 1..THREAD_NUM
Calls   == 1..MaxCalls

VARIABLES
  main,          \* where the client's thread is
  fate,          \* of the client: "running", "exited", "crashed" or "corrupt"
  connections,   \* g_connectionPool: "none", "empty", "built" or "freed"
  queues,        \* the servers that have a connection queue, in order
  failed,        \* history: a name was not resolved or a server not reached
  server, ring,  \* the configuration server, and the nodes of its ring
  read,          \* the lines the configuration server has read
  calls, tasks,  \* calls so far; all tasks ever added: [call, host]
  taskQueue,     \* the first task of the queue; each links to the next one
  p,             \* threadPoolDestroy()'s local pointer
  freed,         \* tasks whose memory is freed
  poolLock,      \* the thread that holds the mutex of the thread pool
  lockFreed,     \* its memory is freed
  queueLock,     \* of a server: the thread that holds its queue's mutex
  commandLock,   \* of a call: the worker that holds its command's mutex
  pc, task,      \* of a worker
  cancelled      \* the workers a cancellation is pending for

starting == <<connections, queues, failed>>
remote   == <<server, ring, read>>
memory   == <<calls, tasks, taskQueue, p, freed, lockFreed>>
locks    == <<poolLock, queueLock, commandLock>>
workers  == <<pc, task, cancelled>>
vars     == <<main, fate, starting, remote, memory, locks, workers>>

-----------------------------------------------------------------------------
(* The configuration server *)

(* __conhash_init, per line: a name that is not resolved is passed over, if
   freeing the result that was not filled in goes well. *)
AddNode ==
  /\ server = "reading" /\ read < Len(ServerLines)
  /\ read' = read + 1
  /\ \/ ring' = ring \cup {ServerLines[read + 1]} /\ UNCHANGED server
     \/ ring' = ring /\ server' \in {"reading", "down"}
  /\ UNCHANGED <<main, fate, starting, memory, locks, workers>>

(* Its own file may be missing; the ring is then empty. *)
NoFile ==
  /\ server = "reading" /\ read = 0
  /\ read' = Len(ServerLines)
  /\ UNCHANGED <<main, fate, starting, server, ring, memory, locks, workers>>

(* __rpc_init: it answers once it has read all of its lines. *)
Listen ==
  /\ server = "reading" /\ read = Len(ServerLines)
  /\ server' \in {"listening", "down"}
  /\ UNCHANGED <<main, fate, starting, ring, read, memory, locks, workers>>

ConfigServer == AddNode \/ NoFile \/ Listen

-----------------------------------------------------------------------------
(* The client's thread: start *)

Goto(l) == main' = l

Die(f) == fate' = f /\ UNCHANGED main

(* Mutant: the pool is released whenever it cannot be built. *)
ReleasedPool == "freed"

(* A missing file leaves a pool without queues. *)
PoolWithoutFile == "empty"

(* connectionPoolInit: the file *)
OpenFile ==
  /\ main = "file"
  /\ \/ Goto("lines") /\ UNCHANGED starting
     \/ /\ Goto("client") /\ connections' = PoolWithoutFile
        /\ UNCHANGED <<queues, failed>>
  /\ UNCHANGED <<fate, remote, memory, locks, workers>>

(* __newConnectionQueue, for every line *)
NewQueue ==
  /\ main = "lines" /\ Len(queues) < Len(Lines)
  /\ queues' = Append(queues, Lines[Len(queues) + 1])
  /\ UNCHANGED <<main, fate, connections, failed, remote, memory, locks, workers>>

(* Mutant: the lines that follow are left out, the pool stays. *)
KeepPool == "built"

DestroyPool == "freed"

(* A name that is not resolved: the pool is destroyed, and the result that was
   not filled in is freed, which may crash. *)
Unresolved ==
  /\ main = "lines" /\ Len(queues) < Len(Lines)
  /\ failed' = TRUE
  /\ \/ connections' = DestroyPool /\ Goto("client") /\ UNCHANGED fate
     \/ fate' = "crashed" /\ UNCHANGED <<main, connections>>
  /\ UNCHANGED <<queues, remote, memory, locks, workers>>

(* A server that is not reached: __freeConnectionQueue() destroys the mutex that
   was not made yet, through a null pointer. *)
Refused ==
  /\ main = "lines" /\ Len(queues) < Len(Lines)
  /\ failed' = TRUE /\ fate' = "crashed"
  /\ UNCHANGED <<main, connections, queues, remote, memory, locks, workers>>

AllRead ==
  /\ main = "lines" /\ Len(queues) = Len(Lines)
  /\ connections' = "built" /\ Goto("client")
  /\ UNCHANGED <<fate, queues, failed, remote, memory, locks, workers>>

(* routerInit() does not look at what redisInit() returned.  Without the
   configuration server it fails. *)
CreateClient ==
  /\ main = "client"
  /\ \/ server = "listening" /\ Goto("threads")
     \/ Goto("exit")
  /\ UNCHANGED <<fate, starting, remote, memory, locks, workers>>

(* threadPoolInit, per thread: it starts, or routerInit() fails. *)
CreateThread ==
  LET w == Cardinality({x \in Workers : pc[x] # "absent"}) + 1 IN
  /\ main = "threads" /\ w \in Workers
  /\ \/ pc' = [pc EXCEPT ![w] = "lock"] /\ UNCHANGED main
     \/ Goto("exit") /\ UNCHANGED pc
  /\ UNCHANGED <<fate, starting, remote, memory, locks, task, cancelled>>

Ready ==
  /\ main = "threads" /\ \A x \in Workers : pc[x] # "absent"
  /\ Goto("ready")
  /\ UNCHANGED <<fate, starting, remote, memory, locks, workers>>

(* A call of the API: a task for each of the nodes it asks, which are N or as
   many as the threshold of the operation.  A call that finds less than N nodes,
   or the mutex busy, adds nothing. *)
Call ==
  /\ main = "ready" /\ calls < MaxCalls /\ poolLock = None /\ Cardinality(ring) >= N
  /\ \E hosts \in {S \in SUBSET ring : Cardinality(S) \in 1..N} :
       tasks' = tasks \o SetToSeq({[call |-> calls + 1, host |-> h] : h \in hosts})
  /\ calls' = calls + 1
  /\ UNCHANGED <<main, fate, starting, remote, taskQueue, p, freed, lockFreed, locks, workers>>

-----------------------------------------------------------------------------
(* The client's thread: end *)

ApiDestroy ==
  /\ main = "ready" /\ Goto("cancel")
  /\ UNCHANGED <<fate, starting, remote, memory, locks, workers>>

(* Mutant: one thread too many is cancelled. *)
OneMore == (1..(THREAD_NUM + 1)) \ cancelled

ToCancel == Workers \ cancelled

(* threadPoolDestroy: the threads are cancelled one by one, ... *)
Cancel ==
  /\ main = "cancel"
  /\ IF ToCancel = {}
     THEN Goto("drain") /\ UNCHANGED cancelled
     ELSE /\ cancelled' = cancelled \cup {CHOOSE w \in ToCancel : \A x \in ToCancel : w <= x}
          /\ UNCHANGED main
  /\ UNCHANGED <<fate, starting, remote, memory, locks, pc, task>>

(* taskQueue is NULL, as is a pointer that was read from it then. *)
QueueEmpty == taskQueue > Len(tasks)
IsNull(t)  == t > Len(tasks)

(* ... and the tasks are taken from the queue without its mutex: workers may take
   them between the test, the reading of the head and the unlinking, ... *)
DrainTest ==
  /\ main = "drain" /\ Goto(IF QueueEmpty THEN "mutex" ELSE "head")
  /\ UNCHANGED <<fate, starting, remote, memory, locks, workers>>

DrainHead ==
  /\ main = "head" /\ Goto("pop")
  /\ p' = taskQueue
  /\ UNCHANGED <<fate, starting, remote, calls, tasks, taskQueue, freed, lockFreed, locks, workers>>

(* ... so that the pointer may be NULL, or the task freed, ... *)
DrainPop ==
  /\ main = "pop"
  /\ IF IsNull(p) \/ p \in freed
     THEN Die("corrupt") /\ UNCHANGED taskQueue
     ELSE taskQueue' = p + 1 /\ Goto("free") /\ UNCHANGED fate
  /\ UNCHANGED <<starting, remote, calls, tasks, p, freed, lockFreed, locks, workers>>

(* ... and each is freed, which takes the mutex of the command. *)
DrainFree ==
  /\ main = "free"
  /\ IF p \in freed
     THEN Die("corrupt") /\ UNCHANGED freed
     ELSE /\ commandLock[tasks[p].call] = None
          /\ freed' = freed \cup {p} /\ Goto("drain") /\ UNCHANGED fate
  /\ UNCHANGED <<starting, remote, calls, tasks, taskQueue, p, lockFreed, locks, workers>>

(* Then the mutex of the pool is freed, whoever holds it, ... *)
FreeLock ==
  /\ main = "mutex"
  /\ lockFreed' = TRUE /\ Goto("cond")
  /\ UNCHANGED <<fate, starting, remote, calls, tasks, taskQueue, p, freed, locks, workers>>

(* ... and the condition, for which no thread may be left waiting. *)
DestroyCond ==
  /\ main = "cond" /\ \A w \in Workers : pc[w] # "wait"
  /\ Goto("connections")
  /\ UNCHANGED <<fate, starting, remote, memory, locks, workers>>

(* connectionPoolDestroy: the queues, not what is in them, and the pool. *)
FreeConnections ==
  /\ main = "connections"
  /\ IF connections = "freed"
     THEN Die("corrupt") /\ UNCHANGED <<connections, queues>>
     ELSE /\ IF queues # <<>>
             THEN queues' = Tail(queues) /\ UNCHANGED <<main, connections>>
             ELSE connections' = "freed" /\ Goto("exit") /\ UNCHANGED queues
          /\ UNCHANGED fate
  /\ UNCHANGED <<failed, remote, memory, locks, workers>>

Exit ==
  /\ main = "exit" /\ fate' = "exited"
  /\ UNCHANGED <<main, starting, remote, memory, locks, workers>>

Main ==
  \/ OpenFile \/ NewQueue \/ Unresolved \/ Refused \/ AllRead
  \/ CreateClient \/ CreateThread \/ Ready \/ Call
  \/ ApiDestroy \/ Cancel \/ DrainTest \/ DrainHead \/ DrainPop \/ DrainFree
  \/ FreeLock \/ DestroyCond \/ FreeConnections \/ Exit

-----------------------------------------------------------------------------
(* A worker *)

Host(w)    == tasks[task[w]].host
Command(w) == tasks[task[w]].call

WGoto(w, l) == pc' = [pc EXCEPT ![w] = l]

(* The next step of w uses memory that is freed, or NULL in place of a task. *)
Dangling(w) ==
  \/ pc[w] \in {"lock", "locked", "take", "unlink", "mark", "dying"} /\ lockFreed
  \/ pc[w] = "unlink" /\ IsNull(task[w])
  \/ pc[w] \in {"unlink", "mark", "open", "use", "result", "unref"} /\ task[w] \in freed
  \/ pc[w] = "open" /\ connections = "freed"
  \/ pc[w] \in {"opening", "close", "closing"} /\ ~Contains(queues, Host(w))

UseFreed(w) ==
  /\ Dangling(w) /\ fate' = "corrupt"
  /\ UNCHANGED <<main, starting, remote, memory, locks, workers>>

Lock(w) ==
  /\ pc[w] = "lock" /\ poolLock = None
  /\ poolLock' = w /\ WGoto(w, "locked")
  /\ UNCHANGED <<main, fate, starting, remote, memory, queueLock, commandLock, task, cancelled>>

(* pthread_cond_wait: releases the mutex, and takes it again in the end. *)
Wait(w) ==
  /\ pc[w] = "locked" /\ QueueEmpty
  /\ poolLock' = None /\ WGoto(w, "wait")
  /\ UNCHANGED <<main, fate, starting, remote, memory, queueLock, commandLock, task, cancelled>>

Wake(w) ==
  /\ pc[w] = "wait" /\ WGoto(w, "lock")
  /\ UNCHANGED <<main, fate, starting, remote, memory, locks, task, cancelled>>

(* A task is there.  threadPoolDestroy() may take it before the head is read,
   and the next one before the head is set to it. *)
FindTask(w) ==
  /\ pc[w] = "locked" /\ ~QueueEmpty
  /\ WGoto(w, "take")
  /\ UNCHANGED <<main, fate, starting, remote, memory, locks, task, cancelled>>

Take(w) ==
  /\ pc[w] = "take" /\ WGoto(w, "unlink")
  /\ task' = [task EXCEPT ![w] = taskQueue]
  /\ UNCHANGED <<main, fate, starting, remote, memory, locks, cancelled>>

Unlink(w) ==
  /\ pc[w] = "unlink" /\ WGoto(w, "mark")
  /\ taskQueue' = task[w] + 1
  /\ UNCHANGED <<main, fate, starting, remote, calls, tasks, p, freed, lockFreed, locks,
                 task, cancelled>>

(* ++doingNum under the mutex of the command; then the pool's is released. *)
Mark(w) ==
  /\ pc[w] = "mark" /\ commandLock[Command(w)] = None
  /\ poolLock' = None /\ WGoto(w, "open")
  /\ UNCHANGED <<main, fate, starting, remote, memory, queueLock, commandLock, task, cancelled>>

(* openConnection and closeConnection: recv() is called under the mutex of the
   queue.  A server without a queue fails the command. *)
LockQueue(w) ==
  /\ pc[w] \in {"open", "close"}
  /\ IF Contains(queues, Host(w))
     THEN /\ queueLock[Host(w)] = None
          /\ queueLock' = [queueLock EXCEPT ![Host(w)] = w]
          /\ WGoto(w, IF pc[w] = "open" THEN "opening" ELSE "closing")
     ELSE WGoto(w, "lock") /\ UNCHANGED queueLock
  /\ UNCHANGED <<main, fate, starting, remote, memory, poolLock, commandLock, task, cancelled>>

UnlockQueue(w) ==
  /\ pc[w] \in {"opening", "closing"}
  /\ queueLock' = [queueLock EXCEPT ![Host(w)] = None]
  /\ WGoto(w, IF pc[w] = "opening" THEN "use" ELSE "lock")
  /\ UNCHANGED <<main, fate, starting, remote, memory, poolLock, commandLock, task, cancelled>>

(* The command is written, and its reply read or waited for in vain, unless it
   stops the client (RedisCommands has the ways it does). *)
Execute(w) ==
  /\ pc[w] = "use"
  /\ \/ \E l \in {"result", "close"} : WGoto(w, l) /\ UNCHANGED fate
     \/ fate' = "crashed" /\ UNCHANGED pc
  /\ UNCHANGED <<main, starting, remote, memory, locks, task, cancelled>>

(* writeResult: the answer is counted under the mutex of the command, or not
   at all if that is busy; ... *)
LockCommand(w) ==
  /\ pc[w] = "result"
  /\ IF commandLock[Command(w)] = None
     THEN commandLock' = [commandLock EXCEPT ![Command(w)] = w] /\ WGoto(w, "counting")
     ELSE WGoto(w, "close") /\ UNCHANGED commandLock
  /\ UNCHANGED <<main, fate, starting, remote, memory, poolLock, queueLock, task, cancelled>>

UnlockCommand(w) ==
  /\ pc[w] = "counting"
  /\ commandLock' = [commandLock EXCEPT ![Command(w)] = None]
  /\ WGoto(w, "unref")
  /\ UNCHANGED <<main, fate, starting, remote, memory, poolLock, queueLock, task, cancelled>>

(* ... then the task is freed, for which the mutex is taken once more. *)
FreeTask(w) ==
  /\ pc[w] = "unref" /\ commandLock[Command(w)] = None
  /\ freed' = freed \cup {task[w]}
  /\ WGoto(w, "close")
  /\ UNCHANGED <<main, fate, starting, remote, calls, tasks, taskQueue, p, lockFreed, locks,
                 task, cancelled>>

(* Mutant: a worker may be cancelled while it counts an answer. *)
Everywhere(w) == pc[w] \in {"opening", "closing", "use", "counting"}

(* The worker is where a cancellation takes effect: in recv(), write(), or in
   usleep() because the mutex of the command is busy. *)
CancellationPoint(w) ==
  \/ pc[w] \in {"opening", "closing", "use"}
  \/ pc[w] = "result" /\ commandLock[Command(w)] # None

(* The mutexes it holds stay locked. *)
Killed(w) ==
  /\ w \in cancelled /\ CancellationPoint(w)
  /\ WGoto(w, "dead")
  /\ UNCHANGED <<main, fate, starting, remote, memory, locks, task, cancelled>>

(* A worker that is cancelled while it waits takes the mutex before it dies. *)
KilledWaiting(w) ==
  /\ w \in cancelled /\ pc[w] = "wait"
  /\ WGoto(w, "dying")
  /\ UNCHANGED <<main, fate, starting, remote, memory, locks, task, cancelled>>

LockAndDie(w) ==
  /\ pc[w] = "dying" /\ poolLock = None
  /\ poolLock' = w /\ WGoto(w, "dead")
  /\ UNCHANGED <<main, fate, starting, remote, memory, queueLock, commandLock, task, cancelled>>

Worker(w) ==
  \/ UseFreed(w) \/ Killed(w) \/ KilledWaiting(w) \/ Wake(w)
  \/ /\ ~Dangling(w)
     /\ \/ Lock(w) \/ Wait(w) \/ FindTask(w) \/ Take(w) \/ Unlink(w) \/ Mark(w)
        \/ LockQueue(w) \/ UnlockQueue(w) \/ Execute(w)
        \/ LockCommand(w) \/ UnlockCommand(w) \/ FreeTask(w) \/ LockAndDie(w)

-----------------------------------------------------------------------------
Init ==
  /\ main = "file" /\ fate = "running"
  /\ connections = "none" /\ queues = <<>> /\ failed = FALSE
  /\ server = "reading" /\ ring = {} /\ read = 0
  /\ calls = 0 /\ tasks = <<>> /\ taskQueue = 1 /\ p = 0 /\ freed = {}
  /\ poolLock = None /\ lockFreed = FALSE
  /\ queueLock = [h \in Hosts |-> None] /\ commandLock = [c \in Calls |-> None]
  /\ pc = [w \in Workers |-> "absent"] /\ task = [w \in Workers |-> 0]
  /\ cancelled = {}

(* The client ends with its fate. *)
ClientThread == fate = "running" /\ Main
WorkerThread(w) == fate = "running" /\ Worker(w)

Next ==
  \/ fate = "running" /\ ConfigServer
  \/ ClientThread
  \/ \E w \in Workers : WorkerThread(w)

Spec == Init /\ [][Next]_vars

(* The threads of the client run on, and a worker that comes back to wait for a
   task again and again is not woken every time before it is cancelled. *)
FairSpec ==
  /\ Spec /\ WF_vars(ClientThread)
  /\ \A w \in Workers :
       /\ WF_vars(WorkerThread(w))
       /\ SF_vars(fate = "running" /\ KilledWaiting(w))

-----------------------------------------------------------------------------
(* Properties *)

Starting == {"file", "lines", "client", "threads"}
Ending   == {"cancel", "drain", "head", "pop", "free", "mutex", "cond", "connections", "exit"}
Threads  == Workers \cup {None}

(* The type of both programs and of the threads. *)
TypeOK ==
  /\ main \in Starting \cup {"ready"} \cup Ending
  /\ fate \in {"running", "exited", "crashed", "corrupt"}
  /\ connections \in {"none", "empty", "built", "freed"}
  /\ queues \in Seq(Hosts) /\ failed \in BOOLEAN
  /\ server \in {"reading", "listening", "down"} /\ ring \subseteq Hosts
  /\ read \in 0..Len(ServerLines)
  /\ calls \in 0..MaxCalls /\ tasks \in Seq([call : Calls, host : Hosts])
  /\ taskQueue \in 1..(Len(tasks) + 1) /\ p \in 0..(Len(tasks) + 1)
  /\ freed \subseteq 1..Len(tasks) /\ lockFreed \in BOOLEAN
  /\ poolLock \in Threads
  /\ queueLock \in [Hosts -> Threads] /\ commandLock \in [Calls -> Threads]
  /\ pc \in [Workers -> {"absent", "lock", "locked", "wait", "take", "unlink", "mark", "open",
                         "opening", "use", "result", "counting", "unref", "close", "closing",
                         "dying", "dead"}]
  /\ task \in [Workers -> 0..(Len(tasks) + 1)] /\ cancelled \subseteq Workers

(* connectionPoolInit() succeeds only with a queue for every line of the client's
   list.  As the lines of the configuration server are among those, every server a
   task can be for has connections from then until the pool is destroyed, whatever
   lines the server has passed over: a worker never looks for a queue in vain
   (redis.c: "Failed to get idle connection from pool.").  A missing file, or a name
   that is not resolved, leaves no pool that counts as built. *)
HostsHaveConnections ==
  connections = "built" /\ main \notin {"connections", "exit"} =>
    /\ ring \subseteq ToSet(queues)
    /\ \A i \in 1..Len(tasks) : Contains(queues, tasks[i].host)

(* Until apiDestroy() is called no thread uses a task, a mutex, a queue or a pool
   that was freed, and no worker takes NULL for the head of the task queue.  The one
   exception is the pool of connections that connectionPoolInit() itself freed for a
   name that was not resolved: routerInit() does not look at what redisInit()
   returned, and its workers go on to use it.  This is about the memory of the pools
   only; what a command may do to the client is the subject of RedisCommands. *)
MemorySound ==
  fate = "corrupt" => main \in Ending \/ (failed /\ connections = "freed")

(* threadPoolDestroy() takes mutexes of commands, and waits for the condition to
   be left, while workers die with mutexes in hand and take tasks from the queue it
   empties: still apiDestroy() is left, unless the client is stopped on the way, by
   memory that was freed or by a NULL for a task. *)
ShutdownEnds == main = "cancel" ~> fate # "running"
=============================================================================
