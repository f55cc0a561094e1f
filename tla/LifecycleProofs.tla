--------------------------- MODULE LifecycleProofs ---------------------------
(***************************************************************************)
(* Proofs about Lifecycle: what holds between the start of a client and    *)
(* apiDestroy(), for any list of servers and any number of threads.        *)
(***************************************************************************)
EXTENDS Lifecycle, FiniteSetTheorems, SequenceTheorems, WellFoundedInduction, TLAPS

(* Where a worker has a task in hand, and where it knows of one. *)
HoldsTask(w) == pc[w] \in {"mark", "open", "opening", "use", "result", "counting", "unref"}
NamesTask(w) == HoldsTask(w) \/ pc[w] \in {"close", "closing"}

(* A task is known where one is used. *)
TasksNamed ==
  /\ \A w \in Workers : NamesTask(w) => task[w] \in 1..Len(tasks)
  /\ \A w \in Workers : pc[w] = "unlink" => task[w] # 0
  /\ main = "pop" => p # 0
  /\ main = "free" => p \in 1..Len(tasks)

Typed == TypeOK /\ TasksNamed

-----------------------------------------------------------------------------
(* The servers of a call can be counted, so that they can be put in a row. *)
LEMMA TasksInRow ==
  ASSUME NEW c \in Calls, NEW hosts \in SUBSET Hosts
  PROVE  SetToSeq({[call |-> c, host |-> h] : h \in hosts})
           \in Seq([call : Calls, host : Hosts])
<1>1. PICK S : S = {[call |-> c, host |-> h] : h \in hosts}
  OBVIOUS
<1>2. IsFiniteSet(hosts)
  <2>1. /\ Lines \in [1..Len(Lines) -> Hosts] /\ Len(Lines) \in Nat
        /\ \A h \in Hosts : \E i \in 1..Len(Lines) : Lines[i] = h
    <3>1. /\ Lines \in [1..Len(Lines) -> Hosts] /\ Len(Lines) \in Nat
          /\ DOMAIN Lines = 1..Len(Lines)
      BY ConstantsAssumption, LenProperties DEF Hosts
    <3> QED
      BY <3>1 DEF Hosts, ToSet
  <2>2. Lines \in Surjection(1..Len(Lines), Hosts)
    BY <2>1 DEF Surjection
  <2>3. IsFiniteSet(1..Len(Lines))
    BY <2>1, FS_Interval
  <2> QED
    BY <2>2, <2>3, FS_Surjection, FS_Subset
<1>3. IsFiniteSet(S)
  <2>1. PICK f : f = [h \in hosts |-> [call |-> c, host |-> h]]
    OBVIOUS
  <2>2. f \in Surjection(hosts, S)
    BY <1>1, <2>1 DEF Surjection
  <2> QED
    BY <1>2, <2>2, FS_Surjection
<1>4. Cardinality(S) \in Nat /\ ExistsBijection(1..Cardinality(S), S)
  BY <1>3, FS_CardinalityType
<1>5. \E f \in [1..Cardinality(S) -> S] : IsInjective(f)
  BY <1>4 DEF ExistsBijection, Bijection, Injection, IsInjective
<1>6. SetToSeq(S) \in [1..Cardinality(S) -> S]
  BY <1>5 DEF SetToSeq
<1>7. S \subseteq [call : Calls, host : Hosts]
  BY <1>1
<1>8. SetToSeq(S) \in [1..Cardinality(S) -> [call : Calls, host : Hosts]]
  BY <1>6, <1>7
<1> QED
  <2>1. SetToSeq(S) \in UNION {[1..n -> [call : Calls, host : Hosts]] : n \in Nat}
    BY <1>4, <1>8
  <2> QED
    BY <1>1, <2>1, SeqDef, Zenon

(* There is a first one among any of the workers. *)
LEMMA FirstWorker ==
  ASSUME NEW S \in SUBSET Workers, S # {}
  PROVE  (CHOOSE w \in S : \A x \in S : w <= x) \in S
<1>1. S \subseteq Nat
  BY ConstantsAssumption DEF Workers
<1>2. PICK w \in S : \A x \in S : ~ (<<x, w>> \in OpToRel(<, Nat))
  BY <1>1, NatLessThanWellFounded, WFMin
<1>3. \A x \in S : ~ (x < w)
  BY <1>1, <1>2, Zenon DEF OpToRel
<1>4. \A x \in S : w <= x
  BY <1>1, <1>3
<1> QED
  BY <1>4

(* Its lines are the servers, and a sequence of them. *)
LEMMA LinesType ==
  /\ Lines \in Seq(Hosts) /\ Len(Lines) \in Nat
  /\ \A i \in 1..Len(Lines) : Lines[i] \in Hosts
  /\ \A h \in Hosts : Contains(Lines, h)
  /\ \A w \in Workers : w # None /\ w \in Threads
  /\ Len(ServerLines) \in Nat /\ \A i \in 1..Len(ServerLines) : ServerLines[i] \in Hosts
<1>1. Lines \in Seq(Hosts)
  BY ConstantsAssumption DEF Hosts
<1>2. \A h \in Hosts : Contains(Lines, h)
  BY <1>1, LenProperties DEF Hosts, ToSet, Contains
<1>3. \A w \in Workers : w # None /\ w \in Threads
  BY ConstantsAssumption DEF Workers, Threads
<1>4. ServerLines \in Seq(Hosts)
  BY ConstantsAssumption DEF Hosts
<1> QED
  BY <1>1, <1>2, <1>3, <1>4, LenProperties, ElementOfSeq

(* The two programs that start keep their types. *)
LEMMA StartTyped ==
  ASSUME Typed,
         \/ ConfigServer \/ OpenFile \/ NewQueue \/ Unresolved \/ Refused \/ AllRead
         \/ CreateClient \/ CreateThread \/ Ready \/ Call
  PROVE  Typed'
<1> USE ConstantsAssumption, LinesType
    DEF Typed, TasksNamed, HoldsTask, NamesTask, TypeOK, Starting, Ending, starting,
        remote, memory, locks, workers, Goto
<1>1. CASE AddNode
  <2>1. read + 1 \in 1..Len(ServerLines) /\ read' = read + 1
    BY <1>1 DEF AddNode
  <2>2. ServerLines[read + 1] \in Hosts
    BY <2>1
  <2>3. ring' \subseteq Hosts /\ server' \in {"reading", "listening", "down"}
    BY <1>1, <2>2 DEF AddNode
  <2> QED
    BY <1>1, <2>1, <2>3 DEF AddNode
<1>2. CASE NoFile
  BY <1>2 DEF NoFile
<1>3. CASE Listen
  BY <1>3 DEF Listen
<1>4. CASE OpenFile
  BY <1>4 DEF OpenFile, PoolWithoutFile
<1>5. CASE NewQueue
  BY <1>5 DEF NewQueue
<1>6. CASE Unresolved
  BY <1>6 DEF Unresolved, DestroyPool
<1>7. CASE Refused
  BY <1>7 DEF Refused
<1>8. CASE AllRead
  BY <1>8 DEF AllRead
<1>9. CASE CreateClient
  BY <1>9 DEF CreateClient
<1>10. CASE CreateThread
  BY <1>10, ZenonT(60) DEF CreateThread
<1>11. CASE Ready
  BY <1>11 DEF Ready
<1>12. CASE Call
  <2>1. PICK hosts \in SUBSET Hosts :
          tasks' = tasks \o SetToSeq({[call |-> calls + 1, host |-> h] : h \in hosts})
    BY <1>12 DEF Call
  <2>2. PICK new : new = SetToSeq({[call |-> calls + 1, host |-> h] : h \in hosts})
    OBVIOUS
  <2>3. calls + 1 \in Calls
    BY <1>12 DEF Call, Calls
  <2>4. new \in Seq([call : Calls, host : Hosts])
    BY <2>2, <2>3, TasksInRow
  <2>5. /\ tasks' \in Seq([call : Calls, host : Hosts])
        /\ Len(tasks') \in Nat /\ Len(tasks) \in Nat /\ Len(tasks) <= Len(tasks')
    BY <2>1, <2>2, <2>4
  <2>6. /\ 1..Len(tasks) \subseteq 1..Len(tasks')
        /\ 0..(Len(tasks) + 1) \subseteq 0..(Len(tasks') + 1)
        /\ 1..(Len(tasks) + 1) \subseteq 1..(Len(tasks') + 1)
    BY <2>5
  <2>7. UNCHANGED <<main, fate, starting, remote, taskQueue, p, freed, lockFreed, locks, workers>>
    BY <1>12 DEF Call
  <2>8. calls' \in 0..MaxCalls
    BY <1>12, <2>3 DEF Call, Calls
  <2>9. TypeOK'
    BY <2>5, <2>6, <2>7, <2>8
  <2>10. TasksNamed'
    BY <2>6, <2>7
  <2> QED
    BY <2>9, <2>10
<1> QED
  BY <1>1, <1>2, <1>3, <1>4, <1>5, <1>6, <1>7, <1>8, <1>9, <1>10, <1>11, <1>12
     DEF ConfigServer

(* apiDestroy() does. *)
LEMMA EndTyped ==
  ASSUME Typed,
         \/ ApiDestroy \/ Cancel \/ DrainTest \/ DrainHead \/ DrainPop \/ DrainFree \/ FreeLock
         \/ DestroyCond \/ FreeConnections \/ Exit
  PROVE  Typed'
<1> USE ConstantsAssumption, LinesType
    DEF Typed, TasksNamed, HoldsTask, NamesTask, TypeOK, Starting, Ending, starting,
        remote, memory, locks, workers, Goto, Die
<1>1. CASE ApiDestroy
  BY <1>1 DEF ApiDestroy
<1>2. CASE Cancel
  <2>1. CASE ToCancel = {}
    BY <1>2, <2>1 DEF Cancel
  <2>2. CASE ToCancel # {}
    <3>1. PICK S : S = ToCancel
      OBVIOUS
    <3>2. PICK w : w = CHOOSE v \in S : \A x \in S : v <= x
      OBVIOUS
    <3>3. S \in SUBSET Workers /\ S # {}
      BY <2>2, <3>1 DEF ToCancel
    <3>4. w \in Workers
      BY <3>2, <3>3, FirstWorker, Zenon
    <3>5. cancelled' = cancelled \cup {w}
      BY <1>2, <2>2, <3>1, <3>2, Zenon DEF Cancel
    <3> QED
      BY <1>2, <2>2, <3>4, <3>5 DEF Cancel
  <2> QED
    BY <2>1, <2>2
<1>3. CASE DrainTest \/ DrainHead
  <2>1. CASE DrainTest
    <3>1. main' \in {"mutex", "head"}
      BY <2>1 DEF DrainTest
    <3> QED
      BY <2>1, <3>1 DEF DrainTest
  <2>2. CASE DrainHead
    BY <2>2 DEF DrainHead
  <2> QED
    BY <1>3, <2>1, <2>2
<1>4. CASE DrainPop
  BY <1>4 DEF DrainPop, IsNull
<1>5. CASE DrainFree
  <2>1. CASE p \in freed
    BY <1>5, <2>1 DEF DrainFree
  <2>2. CASE p \notin freed
    <3>1. p \in 1..Len(tasks)
      BY <1>5 DEF DrainFree
    <3>2. freed' = freed \cup {p} /\ main' = "drain"
      BY <1>5, <2>2 DEF DrainFree
    <3>3. UNCHANGED <<fate, starting, remote, calls, tasks, taskQueue, p, lockFreed, locks, workers>>
      BY <1>5, <2>2 DEF DrainFree
    <3> QED
      BY <3>1, <3>2, <3>3
  <2> QED
    BY <2>1, <2>2
<1>6. CASE FreeLock
  BY <1>6 DEF FreeLock
<1>7. CASE DestroyCond
  BY <1>7 DEF DestroyCond
<1>8. CASE FreeConnections
  <2>1. CASE connections = "freed"
    BY <1>8, <2>1 DEF FreeConnections
  <2>2. CASE connections # "freed" /\ queues # <<>>
    <3>1. queues' \in Seq(Hosts)
      <4>1. queues' = Tail(queues) /\ queues \in Seq(Hosts) /\ queues # <<>>
        BY <1>8, <2>2 DEF FreeConnections
      <4> QED
        BY <4>1, HeadTailProperties
    <3> QED
      BY <1>8, <2>2, <3>1 DEF FreeConnections
  <2>3. CASE connections # "freed" /\ queues = <<>>
    BY <1>8, <2>3 DEF FreeConnections
  <2> QED
    BY <2>1, <2>2, <2>3
<1>9. CASE Exit
  BY <1>9 DEF Exit
<1> QED
  BY <1>1, <1>2, <1>3, <1>4, <1>5, <1>6, <1>7, <1>8, <1>9

(* A worker does. *)
LEMMA WorkerTyped ==
  ASSUME Typed, NEW w \in Workers, Worker(w)
  PROVE  Typed'
<1> USE ConstantsAssumption, LinesType
    DEF Typed, TasksNamed, HoldsTask, NamesTask, TypeOK, starting, remote, memory, locks,
        workers, WGoto
<1>0. None \in Threads
  BY DEF Threads
<1>1. CASE UseFreed(w)
  BY <1>1 DEF UseFreed
<1>2. CASE Killed(w) \/ KilledWaiting(w) \/ Wake(w)
  <2>1. CASE Killed(w)
    BY <1>2, <2>1 DEF Killed
  <2>2. CASE KilledWaiting(w)
    BY <1>2, <2>2 DEF KilledWaiting
  <2>3. CASE Wake(w)
    BY <1>2, <2>3 DEF Wake
  <2> QED
    BY <1>2, <2>1, <2>2, <2>3
<1>3. CASE Lock(w) \/ Wait(w) \/ LockAndDie(w)
  <2>1. CASE Lock(w)
    BY <1>0, <2>1 DEF Lock
  <2>2. CASE Wait(w)
    BY <1>0, <2>2 DEF Wait
  <2>3. CASE LockAndDie(w)
    BY <1>0, <2>3 DEF LockAndDie
  <2> QED
    BY <1>3, <2>1, <2>2, <2>3
<1>4. CASE FindTask(w) \/ Take(w) \/ (Unlink(w) /\ ~Dangling(w))
  <2>1. CASE FindTask(w)
    BY <2>1 DEF FindTask
  <2>2. CASE Take(w)
    BY <2>2 DEF Take
  <2>3. CASE Unlink(w) /\ ~Dangling(w)
    <3>1. task[w] \in 1..Len(tasks)
      BY <2>3 DEF Unlink, Dangling, IsNull
    <3> QED
      BY <2>3, <3>1 DEF Unlink
  <2> QED
    BY <1>4, <2>1, <2>2, <2>3
<1>5. CASE Mark(w)
  BY <1>0, <1>5 DEF Mark
<1>6. CASE LockQueue(w)
  <2>1. CASE Contains(queues, Host(w))
    <3>1. /\ queueLock' \in [Hosts -> Threads]
          /\ \E l \in {"opening", "closing"} : pc' = [pc EXCEPT ![w] = l]
      BY <1>6, <2>1 DEF LockQueue
    <3> QED
      BY <1>6, <2>1, <3>1 DEF LockQueue
  <2>2. CASE ~Contains(queues, Host(w))
    <3>1. pc' = [pc EXCEPT ![w] = "lock"] /\ UNCHANGED locks
      BY <1>6, <2>2 DEF LockQueue
    <3> QED
      BY <1>6, <3>1 DEF LockQueue
  <2> QED
    BY <2>1, <2>2
<1>7. CASE UnlockQueue(w)
  <2>1. /\ queueLock' \in [Hosts -> Threads]
        /\ \E l \in {"use", "lock"} : pc' = [pc EXCEPT ![w] = l]
    BY <1>0, <1>7 DEF UnlockQueue
  <2> QED
    BY <1>7, <2>1 DEF UnlockQueue
<1>8. CASE Execute(w)
  <2>1. CASE fate' = "crashed" /\ UNCHANGED pc
    BY <1>8, <2>1 DEF Execute
  <2>2. CASE ~(fate' = "crashed" /\ UNCHANGED pc)
    <3>1. /\ UNCHANGED <<main, fate, starting, remote, memory, locks, task, cancelled>>
          /\ pc[w] = "use" /\ \E l \in {"result", "close"} : pc' = [pc EXCEPT ![w] = l]
      BY <1>8, <2>2 DEF Execute
    <3> QED
      BY <3>1
  <2> QED
    BY <2>1, <2>2
<1>9. CASE LockCommand(w)
  <2>1. /\ commandLock' \in [Calls -> Threads]
        /\ \E l \in {"counting", "close"} : pc' = [pc EXCEPT ![w] = l]
    BY <1>9 DEF LockCommand
  <2> QED
    BY <1>9, <2>1 DEF LockCommand
<1>10. CASE UnlockCommand(w)
  BY <1>0, <1>10, ZenonT(60) DEF UnlockCommand
<1>11. CASE FreeTask(w)
  <2>0. task[w] \in 1..Len(tasks)
    BY <1>11 DEF FreeTask
  <2>1. freed' \subseteq 1..Len(tasks) /\ pc' = [pc EXCEPT ![w] = "close"]
    BY <1>11, <2>0 DEF FreeTask
  <2> QED
    BY <1>11, <2>1 DEF FreeTask
<1> QED
  BY <1>1, <1>2, <1>3, <1>4, <1>5, <1>6, <1>7, <1>8, <1>9, <1>10, <1>11 DEF Worker

(* Both programs start with the types. *)
LEMMA InitTyped == Init => Typed
<1> SUFFICES ASSUME Init PROVE Typed
  OBVIOUS
<1>1. /\ Len(<<>>) = 0 /\ None \in Threads
      /\ <<>> \in Seq(Hosts) /\ <<>> \in Seq([call : Calls, host : Hosts])
  BY DEF Threads
<1>2. TypeOK
  <2>1. /\ queues = <<>> /\ tasks = <<>> /\ taskQueue = 1 /\ p = 0
        /\ freed = {} /\ calls = 0 /\ read = 0
    BY DEF Init
  <2>2. /\ queueLock \in [Hosts -> Threads] /\ commandLock \in [Calls -> Threads]
        /\ task \in [Workers -> 0..(Len(tasks) + 1)]
    BY <1>1, <2>1 DEF Init
  <2>3. /\ taskQueue \in 1..(Len(tasks) + 1) /\ p \in 0..(Len(tasks) + 1)
        /\ freed \subseteq 1..Len(tasks)
        /\ calls \in 0..MaxCalls /\ read \in 0..Len(ServerLines)
        /\ queues \in Seq(Hosts) /\ tasks \in Seq([call : Calls, host : Hosts])
    BY <1>1, <2>1, ConstantsAssumption, LinesType
  <2>4. /\ main = "file" /\ fate = "running" /\ connections = "none" /\ failed = FALSE
        /\ server = "reading" /\ ring = {} /\ lockFreed = FALSE /\ poolLock = None
        /\ pc = [w \in Workers |-> "absent"] /\ cancelled = {}
    BY DEF Init
  <2> QED
    BY <1>1, <2>2, <2>3, <2>4 DEF TypeOK, Starting
<1>3. TasksNamed
  BY DEF Init, TasksNamed, NamesTask, HoldsTask
<1> QED
  BY <1>2, <1>3 DEF Typed

(* Every step keeps them. *)
LEMMA StepTyped == Typed /\ [Next]_vars => Typed'
<1> SUFFICES ASSUME Typed, [Next]_vars PROVE Typed'
  OBVIOUS
<1>1. CASE UNCHANGED vars
  BY <1>1 DEF vars, Typed, TypeOK, TasksNamed, HoldsTask, NamesTask, starting, remote, memory,
              locks, workers
<1> QED
  BY <1>1, StartTyped, EndTyped, WorkerTyped DEF Next, ClientThread, WorkerThread, Main

(* TypeOK of the run, for any list of servers, threads and calls: both programs,
   the tasks and the threads keep their types. *)
THEOREM TypeCorrect == Spec => []TypeOK
<1>1. Typed => TypeOK
  BY DEF Typed
<1> QED
  BY <1>1, InitTyped, StepTyped, PTL DEF Spec

-----------------------------------------------------------------------------
(* The queues follow the list of the servers: while the pool is being built,
   they are those of its first lines; once it is built, of all of them. *)
ListRead ==
  /\ main \in {"file", "lines"} =>
       /\ Len(queues) <= Len(Lines)
       /\ \A i \in 1..Len(queues) : queues[i] = Lines[i]
       /\ connections = "none"
  /\ connections = "built" /\ main \notin {"connections", "exit"} => queues = Lines

(* Each step keeps the queues in the order of the list. *)
LEMMA StepListRead == Typed /\ ListRead /\ [Next]_vars => ListRead'
<1> SUFFICES ASSUME Typed, ListRead, [Next]_vars PROVE ListRead'
  OBVIOUS
<1> USE DEF starting, remote, memory, locks, workers, Goto, Die
<1>1. ASSUME UNCHANGED starting,
             main' = main \/ (main' \notin {"file", "lines"} /\ main \notin {"connections", "exit"})
             \/ (main = "file" /\ main' = "lines")
      PROVE  ListRead'
  BY <1>1 DEF ListRead
<1>2. CASE ConfigServer
  BY <1>1, <1>2 DEF ConfigServer, AddNode, NoFile, Listen
<1>3. CASE OpenFile
  BY <1>3 DEF OpenFile, ListRead, PoolWithoutFile
<1>4. CASE NewQueue
  <2>1. /\ main = "lines" /\ Len(queues) < Len(Lines) /\ UNCHANGED <<main, connections>>
        /\ queues' = Append(queues, Lines[Len(queues) + 1])
        /\ queues \in Seq(Hosts) /\ Lines \in Seq(Hosts)
    BY <1>4, LinesType DEF NewQueue, Typed, TypeOK
  <2>2. /\ Len(queues') = Len(queues) + 1
        /\ \A i \in 1..Len(queues') : queues'[i] = Lines[i]
    BY <2>1 DEF ListRead
  <2> QED
    BY <2>1, <2>2, LinesType DEF ListRead, Typed, TypeOK
<1>5. CASE Unresolved
  BY <1>5 DEF Unresolved, ListRead, DestroyPool
<1>6. CASE Refused
  BY <1>6 DEF Refused, ListRead
<1>7. CASE AllRead
  <2>1. queues \in Seq(Hosts) /\ Lines \in Seq(Hosts) /\ Len(queues) = Len(Lines)
    BY <1>7, LinesType DEF AllRead, Typed, TypeOK
  <2>2. queues = Lines
    BY <1>7, <2>1, SeqEqual DEF AllRead, ListRead
  <2> QED
    BY <1>7, <2>2 DEF AllRead, ListRead
<1>8. CASE CreateClient \/ CreateThread \/ Ready \/ Call
  BY <1>1, <1>8 DEF CreateClient, CreateThread, Ready, Call
<1>9. CASE ApiDestroy \/ Cancel \/ DrainTest \/ DrainHead \/ DrainPop \/ DrainFree \/ FreeLock \/ DestroyCond
  BY <1>1, <1>9 DEF ApiDestroy, Cancel, DrainTest, DrainHead, DrainPop, DrainFree, FreeLock, DestroyCond
<1>10. CASE FreeConnections
  BY <1>10 DEF FreeConnections, ListRead
<1>11. CASE Exit
  BY <1>1, <1>11 DEF Exit
<1>12. ASSUME NEW w \in Workers, Worker(w) PROVE ListRead'
  <2>1. UNCHANGED <<main, starting>>
    BY <1>12 DEF Worker, UseFreed, Killed, KilledWaiting, Wake, Lock, Wait, FindTask, Take, Unlink, Mark,
                 LockQueue, UnlockQueue, Execute, LockCommand, UnlockCommand, FreeTask, LockAndDie
  <2> QED
    BY <1>1, <2>1
<1>13. CASE UNCHANGED vars
  BY <1>1, <1>13 DEF vars
<1> QED
  BY <1>2, <1>3, <1>4, <1>5, <1>6, <1>7, <1>8, <1>9, <1>10, <1>11, <1>12, <1>13
     DEF Next, ClientThread, WorkerThread, Main

(* The queues follow the list, whatever the list is. *)
THEOREM ListInv == Spec => [](Typed /\ ListRead)
<1>1. Init => ListRead
  BY LinesType DEF Init, ListRead
<1> QED
  BY <1>1, InitTyped, StepTyped, StepListRead, PTL DEF Spec

(* What the run checks as HostsHaveConnections: connectionPoolInit() counts a pool
   as built only with a queue for every line, so that every server of a task finds
   its queue until the pool is destroyed; for any list of the client, any part of it
   that the configuration server has in any order, and any lines it passes over. *)
THEOREM ConnectionsCorrect == Spec => []HostsHaveConnections
<1>1. Typed /\ ListRead => HostsHaveConnections
  <2> SUFFICES ASSUME Typed, queues = Lines
               PROVE  /\ ring \subseteq ToSet(queues)
                      /\ \A i \in 1..Len(tasks) : Contains(queues, tasks[i].host)
    BY DEF ListRead, HostsHaveConnections
  <2>1. ring \subseteq ToSet(queues)
    BY DEF Typed, TypeOK, Hosts
  <2>2. \A i \in 1..Len(tasks) : tasks[i].host \in Hosts
    <3>1. tasks \in Seq([call : Calls, host : Hosts])
      BY DEF Typed, TypeOK
    <3>2. \A i \in 1..Len(tasks) : tasks[i] \in [call : Calls, host : Hosts]
      BY <3>1, ElementOfSeq
    <3> QED
      BY <3>2
  <2> QED
    BY <2>1, <2>2, LinesType
<1> QED
  BY <1>1, ListInv, PTL

-----------------------------------------------------------------------------
(* The end of the client has not begun. *)
Early == main \notin Ending

(* Where a worker works on the task queue, with the pool's mutex in hand. *)
InQueue(w) == pc[w] \in {"locked", "take", "unlink", "mark"}

(* Nobody but the worker that holds the mutex takes from the queue: what it has
   found there stays at the head until it unlinks it. *)
HeadKept ==
  /\ \A w \in Workers : InQueue(w) => poolLock = w
  /\ \A w \in Workers : pc[w] = "take" => ~QueueEmpty
  /\ \A w \in Workers : pc[w] = "unlink" => task[w] = taskQueue /\ ~QueueEmpty

(* What was freed was taken from the queue before, and nobody has it in hand. *)
TasksIntact ==
  /\ \A t \in freed : t < taskQueue
  /\ \A w \in Workers : HoldsTask(w) => task[w] < taskQueue /\ task[w] \notin freed
  /\ \A v, w \in Workers : HoldsTask(v) /\ HoldsTask(w) /\ task[v] = task[w] => v = w

(* The threads are created after the pool of connections, and have found the
   queues they use in it. *)
PoolsIntact ==
  /\ ~lockFreed
  /\ connections = "freed" => failed
  /\ failed => connections = "freed" \/ fate # "running"
  /\ main \in {"file", "lines"} => ~failed \/ fate # "running"
  /\ main \in {"file", "lines", "client"} => \A w \in Workers : pc[w] = "absent"
  /\ \A w \in Workers :
       pc[w] \in {"opening", "use", "result", "counting", "unref", "close", "closing"} =>
         Contains(queues, Host(w))

Intact == Early => HeadKept /\ TasksIntact /\ PoolsIntact

(* What has begun to end goes on ending. *)
LEMMA StepEarly ==
  ASSUME [Next]_vars, Early'
  PROVE  /\ Early
         /\ ~(ApiDestroy \/ Cancel \/ DrainTest \/ DrainHead \/ DrainPop \/ DrainFree \/ FreeLock
                \/ DestroyCond \/ FreeConnections \/ Exit)
<1> USE DEF Early, Ending, Goto, Die
<1>1. ~(ApiDestroy \/ Cancel \/ DrainTest \/ DrainHead \/ DrainPop \/ DrainFree \/ FreeLock
          \/ DestroyCond \/ FreeConnections \/ Exit)
  BY DEF ApiDestroy, Cancel, DrainTest, DrainHead, DrainPop, DrainFree, FreeLock, DestroyCond,
         FreeConnections, Exit
<1>2. ASSUME ConfigServer PROVE Early
  BY <1>2 DEF ConfigServer, AddNode, NoFile, Listen
<1>3. ASSUME OpenFile \/ NewQueue \/ Unresolved \/ Refused \/ AllRead PROVE Early
  BY <1>3 DEF OpenFile, NewQueue, Unresolved, Refused, AllRead
<1>4. ASSUME CreateClient \/ CreateThread \/ Ready \/ Call PROVE Early
  BY <1>4 DEF CreateClient, CreateThread, Ready, Call
<1>5. ASSUME NEW w \in Workers, Worker(w) PROVE main' = main
  BY <1>5 DEF Worker, UseFreed, Killed, KilledWaiting, Wake, Lock, Wait, FindTask, Take, Unlink, Mark,
              LockQueue, UnlockQueue, Execute, LockCommand, UnlockCommand, FreeTask, LockAndDie
<1> QED
  BY <1>1, <1>2, <1>3, <1>4, <1>5 DEF Next, ClientThread, WorkerThread, Main, vars

(* Starting does no harm to the threads. *)
LEMMA StartIntact ==
  ASSUME Typed, Intact, Early, Early', fate = "running",
         \/ ConfigServer \/ OpenFile \/ NewQueue \/ Unresolved \/ Refused \/ AllRead
         \/ CreateClient \/ CreateThread \/ Ready \/ Call
  PROVE  Intact'
<1> USE DEF Intact, starting, remote, memory, locks, workers, Goto, HoldsTask
<1>0. ASSUME UNCHANGED <<tasks, taskQueue, task, pc, poolLock>> PROVE HeadKept'
  BY <1>0 DEF HeadKept, InQueue, QueueEmpty
<1>1. ASSUME UNCHANGED <<taskQueue, freed, task, pc>> PROVE TasksIntact'
  BY <1>1 DEF TasksIntact
<1>2. ASSUME UNCHANGED <<fate, starting, memory, pc, task>>,
             main' \in {"file", "lines", "client"} => main' = main
      PROVE  PoolsIntact'
  BY <1>2 DEF PoolsIntact, Host
<1>3. CASE ConfigServer
  BY <1>0, <1>1, <1>2, <1>3 DEF ConfigServer, AddNode, NoFile, Listen
<1>4. CASE OpenFile \/ NewQueue \/ Unresolved \/ Refused \/ AllRead
  <2>1. /\ main \in {"file", "lines", "client"} /\ UNCHANGED <<memory, pc, task>>
        /\ UNCHANGED <<poolLock, tasks>>
        /\ connections' = "freed" => connections = "freed" \/ failed'
        /\ failed => failed'
        /\ main \in {"file", "lines"} /\ (failed' => connections' = "freed" \/ fate' # "running")
        /\ main' \in {"file", "lines"} => ~failed' \/ fate' # "running"
    <3>1. ~failed
      BY <1>4 DEF Early, PoolsIntact, OpenFile, NewQueue, Unresolved, Refused, AllRead
    <3>2. CASE OpenFile
      BY <3>1, <3>2 DEF OpenFile, PoolWithoutFile
    <3>3. CASE NewQueue
      BY <3>1, <3>3 DEF NewQueue
    <3>4. CASE Unresolved
      BY <3>1, <3>4 DEF Unresolved, DestroyPool, Typed, TypeOK
    <3>5. CASE Refused
      BY <3>1, <3>5 DEF Refused
    <3>6. CASE AllRead
      BY <3>1, <3>6 DEF AllRead
    <3> QED
      BY <1>4, <3>2, <3>3, <3>4, <3>5, <3>6
  <2> QED
    BY <1>0, <1>1, <2>1 DEF PoolsIntact
<1>5. CASE CreateClient \/ Ready
  BY <1>0, <1>1, <1>2, <1>5 DEF CreateClient, Ready
<1>6. CASE CreateThread
  <2>1. /\ UNCHANGED <<main, fate, starting, memory, locks, task>> /\ main = "threads"
        /\ \E w \in Workers : pc' = [pc EXCEPT ![w] = "lock"]
        /\ pc = [w \in Workers |-> pc[w]]
    <3>1. main' # "exit"
      BY DEF Early, Ending
    <3>2. PICK w : w = Cardinality({x \in Workers : pc[x] # "absent"}) + 1
      OBVIOUS
    <3>3. w \in Workers /\ pc' = [pc EXCEPT ![w] = "lock"] /\ main' = main
      BY <1>6, <3>1, <3>2 DEF CreateThread
    <3> QED
      BY <1>6, <3>3 DEF CreateThread, Typed, TypeOK
  <2>2. TasksIntact'
    BY <2>1 DEF TasksIntact
  <2>3. PoolsIntact'
    BY <2>1 DEF PoolsIntact, Host
  <2>4. HeadKept'
    BY <2>1 DEF HeadKept, InQueue, QueueEmpty
  <2> QED
    BY <2>2, <2>3, <2>4
<1>7. CASE Call
  <2>1. /\ UNCHANGED <<main, fate, starting, pc, task, taskQueue, freed, lockFreed, poolLock>>
        /\ poolLock = None
        /\ tasks' \in Seq([call : Calls, host : Hosts])
        /\ \A i \in 1..Len(tasks) : tasks'[i] = tasks[i]
    <3>1. PICK hosts \in SUBSET Hosts :
            tasks' = tasks \o SetToSeq({[call |-> calls + 1, host |-> h] : h \in hosts})
      BY <1>7 DEF Call, Typed, TypeOK
    <3>2. PICK new : new = SetToSeq({[call |-> calls + 1, host |-> h] : h \in hosts})
      OBVIOUS
    <3>3. calls + 1 \in Calls /\ tasks \in Seq([call : Calls, host : Hosts])
      BY <1>7, ConstantsAssumption DEF Call, Calls, Typed, TypeOK
    <3>4. new \in Seq([call : Calls, host : Hosts]) /\ tasks' = tasks \o new
      BY <3>1, <3>2, <3>3, TasksInRow
    <3>5. /\ tasks' \in Seq([call : Calls, host : Hosts])
          /\ \A i \in 1..Len(tasks) : tasks'[i] = tasks[i]
      BY <3>3, <3>4, ConcatProperties
    <3>6. /\ UNCHANGED <<main, fate, starting, pc, task, taskQueue, freed, lockFreed, poolLock>>
          /\ poolLock = None
      BY <1>7 DEF Call
    <3> QED
      BY <3>5, <3>6
  <2>2. \A w \in Workers : NamesTask(w) => task[w] \in 1..Len(tasks)
    BY DEF Typed, TypeOK, TasksNamed
  <2>3. PoolsIntact'
    BY <2>1, <2>2 DEF PoolsIntact, Host, NamesTask
  <2>4. HeadKept'
    BY <2>1, LinesType DEF HeadKept, InQueue
  <2> QED
    BY <1>1, <2>1, <2>3, <2>4
<1> QED
  BY <1>3, <1>4, <1>5, <1>6, <1>7

(* Nor do the threads themselves, with the task queue, ... *)
LEMMA WorkerHeadKept ==
  ASSUME Typed, HeadKept, NEW w \in Workers, Worker(w)
  PROVE  HeadKept'
<1> USE DEF starting, remote, memory, locks, workers, WGoto, HeadKept, InQueue, QueueEmpty
<1>0. /\ pc \in [Workers -> {"absent", "lock", "locked", "wait", "take", "unlink", "mark", "open",
                             "opening", "use", "result", "counting", "unref", "close", "closing",
                             "dying", "dead"}]
      /\ task \in [Workers -> 0..(Len(tasks) + 1)]
      /\ \A v \in Workers : v # None
  BY LinesType DEF Typed, TypeOK
<1>1. ASSUME UNCHANGED <<tasks, taskQueue, task, poolLock>>,
             NEW l, pc' = [pc EXCEPT ![w] = l], l \notin {"locked", "take", "unlink", "mark"}
      PROVE  HeadKept'
  BY <1>0, <1>1
<1>2. CASE UseFreed(w)
  BY <1>2 DEF UseFreed
<1>3. CASE Killed(w) \/ KilledWaiting(w) \/ Wake(w)
  <2>1. /\ UNCHANGED <<tasks, taskQueue, task, poolLock>>
        /\ \E l \in {"dead", "dying", "lock"} : pc' = [pc EXCEPT ![w] = l]
    BY <1>3 DEF Killed, KilledWaiting, Wake
  <2> QED
    BY <1>1, <2>1
<1>4. CASE Lock(w) \/ LockAndDie(w)
  <2>1. /\ UNCHANGED <<tasks, taskQueue, task>> /\ poolLock = None /\ poolLock' = w
        /\ \E l \in {"locked", "dead"} : pc' = [pc EXCEPT ![w] = l]
    BY <1>4 DEF Lock, LockAndDie
  <2> QED
    BY <1>0, <2>1
<1>5. CASE Wait(w) \/ Mark(w)
  <2>1. /\ UNCHANGED <<tasks, taskQueue, task>> /\ InQueue(w)
        /\ \E l \in {"wait", "open"} : pc' = [pc EXCEPT ![w] = l]
    BY <1>5 DEF Wait, Mark
  <2> QED
    BY <1>0, <2>1
<1>6. CASE FindTask(w)
  BY <1>0, <1>6 DEF FindTask
<1>7. CASE Take(w)
  BY <1>0, <1>7 DEF Take
<1>8. CASE Unlink(w)
  BY <1>0, <1>8 DEF Unlink
<1>9. CASE LockQueue(w) \/ UnlockQueue(w) \/ Execute(w) \/ LockCommand(w) \/ UnlockCommand(w)
             \/ FreeTask(w)
  <2>1. /\ UNCHANGED <<tasks, taskQueue, task, poolLock>>
        /\ \/ pc' = pc
           \/ \E l \in {"opening", "closing", "use", "lock", "result", "close", "counting", "unref"} :
                pc' = [pc EXCEPT ![w] = l]
    <3>1. CASE LockQueue(w)
      BY <3>1 DEF LockQueue
    <3>2. CASE UnlockQueue(w)
      BY <3>2 DEF UnlockQueue
    <3>3. CASE Execute(w)
      BY <3>3 DEF Execute
    <3>4. CASE LockCommand(w)
      BY <3>4 DEF LockCommand
    <3>5. CASE UnlockCommand(w)
      BY <3>5 DEF UnlockCommand
    <3>6. CASE FreeTask(w)
      BY <3>6 DEF FreeTask
    <3> QED
      BY <1>9, <3>1, <3>2, <3>3, <3>4, <3>5, <3>6
  <2> QED
    BY <1>0, <1>1, <2>1
<1> QED
  BY <1>2, <1>3, <1>4, <1>5, <1>6, <1>7, <1>8, <1>9 DEF Worker

(* ... and with the memory. *)
LEMMA WorkerIntact ==
  ASSUME Typed, Intact, Early, NEW w \in Workers, Worker(w)
  PROVE  Intact'
<1> USE ConstantsAssumption
    DEF Intact, starting, remote, memory, locks, workers, WGoto, HoldsTask, Typed
<1>0. /\ pc \in [Workers -> {"absent", "lock", "locked", "wait", "take", "unlink", "mark", "open",
                             "opening", "use", "result", "counting", "unref", "close", "closing",
                             "dying", "dead"}]
      /\ task \in [Workers -> 0..(Len(tasks) + 1)] /\ taskQueue \in Nat /\ freed \subseteq Nat
      /\ HeadKept /\ TasksIntact /\ PoolsIntact /\ tasks \in Seq([call : Calls, host : Hosts])
      /\ HeadKept'
  BY WorkerHeadKept DEF TypeOK
<1>1. ASSUME UNCHANGED <<main, fate, starting, memory, task>>,
             NEW l, pc' = [pc EXCEPT ![w] = l],
             l \in {"mark", "open", "opening", "use", "result", "counting", "unref"}
               => HoldsTask(w),
             l \in {"opening", "use", "result", "counting", "unref", "close", "closing"}
               => Contains(queues, Host(w)),
             pc[w] # "absent"
      PROVE  Intact'
  <2>1. TasksIntact'
    BY <1>0, <1>1 DEF TasksIntact
  <2>2. PoolsIntact'
    BY <1>0, <1>1 DEF PoolsIntact, Host
  <2> QED
    BY <1>0, <2>1, <2>2
<1>2. ASSUME UNCHANGED <<main, starting, memory, pc, task>>, fate' # "running" PROVE Intact'
  BY <1>0, <1>2 DEF TasksIntact, PoolsIntact, Host
<1>3. CASE UseFreed(w)
  BY <1>2, <1>3 DEF UseFreed
<1>4. CASE Killed(w) \/ KilledWaiting(w) \/ Wake(w)
  <2>1. /\ UNCHANGED <<main, fate, starting, memory, task>> /\ pc[w] # "absent"
        /\ \E l \in {"dead", "dying", "lock"} : pc' = [pc EXCEPT ![w] = l]
    BY <1>4 DEF Killed, CancellationPoint, KilledWaiting, Wake
  <2> QED
    BY <1>1, <2>1
<1>5. CASE Lock(w) \/ Wait(w) \/ FindTask(w) \/ LockAndDie(w)
  <2>1. /\ UNCHANGED <<main, fate, starting, memory, task>> /\ pc[w] # "absent"
        /\ \E l \in {"locked", "wait", "take", "dead"} : pc' = [pc EXCEPT ![w] = l]
    BY <1>5 DEF Lock, Wait, FindTask, LockAndDie
  <2> QED
    BY <1>1, <2>1
<1>6. CASE Take(w)
  <2>1. /\ UNCHANGED <<main, fate, starting, memory>> /\ pc[w] = "take"
        /\ task' = [task EXCEPT ![w] = taskQueue] /\ pc' = [pc EXCEPT ![w] = "unlink"]
    BY <1>6 DEF Take
  <2>2. TasksIntact'
    BY <1>0, <2>1 DEF TasksIntact
  <2>3. PoolsIntact'
    BY <1>0, <2>1 DEF PoolsIntact, Host
  <2> QED
    BY <1>0, <2>2, <2>3
<1>7. CASE Unlink(w)
  <2>1. /\ UNCHANGED <<main, fate, starting, tasks, freed, lockFreed, task>> /\ pc[w] = "unlink"
        /\ taskQueue' = task[w] + 1 /\ pc' = [pc EXCEPT ![w] = "mark"]
    BY <1>7 DEF Unlink
  <2>2. taskQueue' = taskQueue + 1 /\ task[w] = taskQueue
    BY <1>0, <2>1 DEF HeadKept
  <2>3. TasksIntact'
    BY <1>0, <2>1, <2>2 DEF TasksIntact
  <2>4. PoolsIntact'
    BY <1>0, <2>1 DEF PoolsIntact, Host
  <2> QED
    BY <1>0, <2>3, <2>4
<1>8. CASE Mark(w)
  BY <1>1, <1>8 DEF Mark
<1>9. CASE LockQueue(w)
  <2>1. CASE Contains(queues, Host(w))
    <3>1. \/ pc[w] = "open" /\ pc' = [pc EXCEPT ![w] = "opening"]
          \/ pc[w] = "close" /\ pc' = [pc EXCEPT ![w] = "closing"]
      BY <1>9, <2>1 DEF LockQueue
    <3> QED
      BY <1>1, <1>9, <2>1, <3>1 DEF LockQueue
  <2>2. CASE ~Contains(queues, Host(w))
    <3>1. pc' = [pc EXCEPT ![w] = "lock"] /\ pc[w] # "absent"
      BY <1>9, <2>2 DEF LockQueue
    <3> QED
      BY <1>1, <1>9, <3>1 DEF LockQueue
  <2> QED
    BY <2>1, <2>2
<1>10. CASE UnlockQueue(w)
  <2>1. \/ pc[w] = "opening" /\ pc' = [pc EXCEPT ![w] = "use"]
        \/ pc[w] = "closing" /\ pc' = [pc EXCEPT ![w] = "lock"]
    BY <1>10 DEF UnlockQueue
  <2>2. Contains(queues, Host(w))
    BY <1>0, <2>1 DEF PoolsIntact
  <2> QED
    BY <1>1, <1>10, <2>1, <2>2 DEF UnlockQueue
<1>11. CASE Execute(w) \/ LockCommand(w) \/ UnlockCommand(w)
  <2>1. CASE Execute(w) /\ fate' = "crashed" /\ pc' = pc
    BY <1>2, <2>1 DEF Execute
  <2>2. CASE ~(Execute(w) /\ fate' = "crashed" /\ pc' = pc)
    <3>1. /\ UNCHANGED <<main, fate, starting, memory, task>>
          /\ pc[w] \in {"use", "result", "counting"}
          /\ \E l \in {"result", "counting", "unref", "close"} : pc' = [pc EXCEPT ![w] = l]
      BY <1>11, <2>2 DEF Execute, LockCommand, UnlockCommand
    <3>2. Contains(queues, Host(w))
      BY <1>0, <3>1 DEF PoolsIntact
    <3> QED
      BY <1>1, <3>1, <3>2
  <2> QED
    BY <2>1, <2>2
<1>12. CASE FreeTask(w)
  <2>1. /\ UNCHANGED <<main, fate, starting, tasks, taskQueue, lockFreed, task>>
        /\ pc[w] = "unref" /\ pc' = [pc EXCEPT ![w] = "close"]
        /\ freed' = freed \cup {task[w]}
    BY <1>12 DEF FreeTask
  <2>2. TasksIntact'
    BY <1>0, <2>1 DEF TasksIntact
  <2>3. PoolsIntact'
    BY <1>0, <2>1 DEF PoolsIntact, Host
  <2> QED
    BY <1>0, <2>2, <2>3
<1> QED
  BY <1>3, <1>4, <1>5, <1>6, <1>7, <1>8, <1>9, <1>10, <1>11, <1>12 DEF Worker

(* The memory the threads use is intact until the end begins. *)
LEMMA StepIntact == Typed /\ Intact /\ [Next]_vars => Intact'
<1> SUFFICES ASSUME Typed, Intact, [Next]_vars, Early' PROVE Intact'
  BY DEF Intact
<1>1. CASE UNCHANGED vars
  BY <1>1 DEF vars, Intact, Early, HeadKept, InQueue, QueueEmpty, TasksIntact, PoolsIntact,
              HoldsTask, Host, starting, memory, locks, workers
<1> QED
  BY <1>1, StepEarly, StartIntact, WorkerIntact DEF Next, ClientThread, WorkerThread, Main

(* While it is intact, no thread is about to use what is freed, unless it is the
   pool of connections that was given up, nor NULL. *)
LEMMA NoneDangling ==
  ASSUME Typed, Intact, Early, connections # "freed", NEW w \in Workers
  PROVE  ~Dangling(w)
<1>1. taskQueue \notin freed /\ taskQueue \in Nat /\ Len(tasks) \in Nat
  BY ConstantsAssumption DEF Early, Intact, TasksIntact, Typed, TypeOK
<1>2. pc[w] = "unlink" => ~IsNull(task[w]) /\ task[w] \notin freed
  BY <1>1 DEF Intact, HeadKept, QueueEmpty, IsNull
<1> QED
  BY <1>2 DEF Intact, TasksIntact, PoolsIntact, HoldsTask, Dangling

(* A thread uses what is freed only then or while the client ends. *)
LEMMA StepSound == Typed /\ Intact /\ MemorySound /\ [Next]_vars => MemorySound'
<1> SUFFICES ASSUME Typed, Intact, MemorySound, [Next]_vars,
                    fate' = "corrupt", Early', ~(failed /\ connections = "freed")'
             PROVE  FALSE
  BY DEF MemorySound, Early
<1> USE DEF starting, remote, memory, locks, workers
<1>1. /\ Early
      /\ ~(ApiDestroy \/ Cancel \/ DrainTest \/ DrainHead \/ DrainPop \/ DrainFree \/ FreeLock
             \/ DestroyCond \/ FreeConnections \/ Exit)
  BY StepEarly
<1>2. fate = "running" \/ UNCHANGED vars
  BY DEF Next, ClientThread, WorkerThread
<1>3. CASE UNCHANGED vars
  BY <1>1, <1>3 DEF vars, MemorySound, Early
<1>4. CASE fate = "running" /\ ConfigServer
  BY <1>4 DEF ConfigServer, AddNode, NoFile, Listen
<1>5. CASE fate = "running" /\ (OpenFile \/ NewQueue \/ Unresolved \/ Refused \/ AllRead)
  BY <1>5 DEF OpenFile, NewQueue, Unresolved, Refused, AllRead
<1>6. CASE fate = "running" /\ (CreateClient \/ CreateThread \/ Ready \/ Call)
  BY <1>6 DEF CreateClient, CreateThread, Ready, Call
<1>7. ASSUME fate = "running", NEW w \in Workers, Worker(w) PROVE FALSE
  <2>1. ~UseFreed(w)
    <3>1. CASE UseFreed(w)
      <4>1. ~(failed /\ connections = "freed")
        BY <3>1 DEF UseFreed
      <4>2. connections # "freed"
        BY <1>1, <4>1 DEF Intact, PoolsIntact
      <4> QED
        BY <1>1, <3>1, <4>2, NoneDangling DEF UseFreed
    <3> QED
      BY <3>1
  <2> QED
    BY <1>7, <2>1 DEF Worker, Killed, KilledWaiting, Wake, Lock, Wait, FindTask, Take, Unlink, Mark,
                 LockQueue, UnlockQueue, Execute, LockCommand, UnlockCommand, FreeTask, LockAndDie
<1> QED
  BY <1>1, <1>2, <1>3, <1>4, <1>5, <1>6, <1>7 DEF Next, ClientThread, WorkerThread, Main

(* The memory is intact at first. *)
LEMMA InitIntact == Init => Intact /\ MemorySound
BY DEF Init, Intact, HeadKept, InQueue, TasksIntact, PoolsIntact, HoldsTask, MemorySound

(* What the threads use is intact until apiDestroy(). *)
THEOREM IntactInv == Spec => [](Typed /\ Intact)
<1> QED
  BY InitTyped, StepTyped, InitIntact, StepIntact, PTL DEF Spec

(* What the run checks as MemorySound: until apiDestroy() no thread uses a task, a
   queue or a mutex that is freed, and no worker takes NULL for a task, for any
   number of threads, calls and servers; but workers go on to use the pool of
   connections that connectionPoolInit() freed for a name it could not resolve.
   This is not to say that the client lives as long: a command may stop it. *)
THEOREM SoundCorrect == Spec => []MemorySound
<1> QED
  BY InitIntact, StepSound, IntactInv, PTL DEF Spec
=============================================================================
