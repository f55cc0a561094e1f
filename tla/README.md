# MailDB, modelled in TLA+

MailDB is a client library for a replicated blob store on Redis servers, and a
configuration server that says which servers hold a bucket. This directory holds
TLA+ models of its parts, the TLC runs that check them on small instances, and
TLAPS proofs of what is proved for all instances. Paths are relative to
`src/src/` unless they begin with `report/`, which is
`src/report/thuthesis@UTF8-4.5.1/data/` here (the thesis that describes the
system).

## The system

| part | state | operations | interacts with |
|---|---|---|---|
| API wrapper (`api.c`) | none | seven operations on buckets and blobs | calls the router, one to one |
| router (`router.c`) | the RPC client | `routeCreateBucket` ... `routeSaveBlob` | asks the configuration server for N servers, fans a command out through the thread pool, waits for R, W, N or 1 answers |
| thread pool (`threadpool.c`) | task queue, idle counter, mutex, condition variable; reference-counted `RedisCommand`s | `execute`, `readResult`, `_threadDo`, `writeResult` | one caller thread, `THREAD_NUM` workers; runs the functions of `redis.c` |
| Redis commands (`redis.c`) | none | `del`, `exists`, `hDel`, `hExists`, `hGet`, `hSet` | take a connection, write a command, poll a bounded time for the reply, write back the answer, put the connection back |
| connection pool (`connectionpool.c`) | per server a doubly linked list of connections | `openConnection`, `closeConnection` | shared by the workers, one mutex per list |
| configuration server (`config-server.c`) | the ring | answers `get_hosts_by_key`; at its start it adds the servers of a file, then resets the ring | sequential RPC service |
| consistent hashing (`conhash.c`, `conhash_inter.c`) | node list, count of virtual nodes, tree | `conhash_add_node`, `conhash_del_node`, `conhash_reset`, `conhash_lookup` | keeps virtual nodes in the tree |
| red-black tree (`util_rbtree.c`) | root, sentinel, nodes | insert, delete, `eq_key`, `gt_key`, `geq_key` | used by consistent hashing |
| blob encoding | length headers and buffers in `newRedisCommand`, `_recvBulk`, `writeResult`, `routeLoadBlob` | copies, each by the length in a header | across the layers |
| start and shutdown | the two pools, the RPC client, the threads | `apiInit`, `apiDestroy` down to the pools | all layers; the configuration server reads the same list of servers |
| test client (`client.c`) | its test data | starts, calls one operation after the other, ends | the API |
| MD5, build files, documents | | | third party, or not part of the service |

What is hard, and what makes each part correct:

* **Thread pool.** One caller and many workers share the queue, the commands and
  the counters under two kinds of mutex, one of them polled with `trylock` and
  given up after some attempts. Answers arrive after their call has given up.
  Correct means: memory is freed once and by the last to use it, a task is
  executed once, answers do not overwrite each other, no wakeup is lost, the
  backlog is bounded, a success stands for enough replicas, every call returns.
* **Replication.** A call returns before its tasks do; a task left behind may be
  executed after later calls. Correct means what R + W > N buys in spite of it,
  and under which provision.
* **Connection pool.** Workers take connections at the head of a list and put
  them back in any order, with a tail pointer that never moves. Correct means:
  idle connections come first, none is lost or shared, and a reply is read by
  the worker it is for.
* **Redis commands.** Lengths travel in headers, replies come in pieces, a
  request may be cut off, and what one command leaves on a connection is there
  for the next. Correct means: a command that succeeds was executed and its
  answer is the server's state; a value is stored whole or not at all; no buffer
  is overrun.
* **Start and shutdown.** Two programs read one list, each with failures of its
  own; threads are cancelled at any point with mutexes in hand while the memory
  they share is freed. Correct means: a task is only for a server that has
  connections, nothing freed is used while the client serves calls, and the
  shutdown ends.
* **Ring and tree.** Replicas collide on points, and nodes come and go. Correct
  means: the tree is a balanced search tree with exactly the virtual nodes of
  the listed servers, a lookup gives the nearest servers at work, and a change
  moves only what it must.

## Modules

| module | models | composed with |
|---|---|---|
| `QuorumCall` | what a call promises: success only with as many distinct replicas as the threshold, decided once, answers possible at any time | abstract specification |
| `ThreadPool` | `threadpool.c` with the calls of `router.c` | implements `QuorumCall` |
| `Replication` | the seven operations over N servers, on top of the promise of a quorum call | implements `QuorumCall` |
| `ConnectionPool` | the connections to one server and the steps of a command | |
| `RedisCommands` | the six commands on one connection, what is on the wire, and the bytes of a blob from save to load | |
| `Lifecycle` | start and end of the client beside the start of the configuration server | |
| `ConHash` | the ring and the servers of a key | takes the tree to be a set of points |
| `RBTree` | the tree, pointer by pointer | |
| `ThreadPoolProofs`, `ThreadPoolHeapProofs` | theorems about `ThreadPool`: its counters; its tasks, its memory and its answers | the second extends the first |
| `ReplicationProofs`, `ConnectionPoolProofs`, `RedisCommandsProofs`, `LifecycleProofs`, `ConHashProofs`, `RBTreeProofs` | theorems about the module they are named for | |
| `MC...` | constants, symmetry and views for TLC | |

The layers meet in four places. `QuorumCall` lies between the threads and the
servers: `ThreadPool` is shown to implement it with all its threads, and
`Replication`, which has no threads, makes calls of its kind only. Between
`RBTree` and `ConHash` lies what the searches return: `SearchesSucceed` shows
that `gt_key` and `geq_key` go round the ring, which is how `ConHash` walks it.
`Replication` lets a task be executed whole, and its answer be counted only
afterwards: that this is what a command on a connection comes to is
`AnswerIsHeld` and `StoredWhole` of `RedisCommands`. `ThreadPool` lets a command
fail because there is no connection; `HostsHaveConnections` of `Lifecycle` says
that this is not for want of a server, and it takes from `ThreadPool` only the
locks and the memory a thread has in hand.

### ThreadPool

A thread is a program counter. Every stretch of code between two operations on
shared state is one action; a mutex is its holder, `trylock` fails exactly when
somebody holds it, and a retry counter is a variable. The heap is the set of
allocated commands and the set of allocated tasks, so that a use after free is a
pointer out of the set. `pthread_cond_wait` may wake up without a signal and
takes the mutex again; a signal wakes one waiting worker or is lost.
`idleThreadsNum` is read without the mutex when the fan-out is chosen, as in
`router.c:32`: any value of `rand()` may come. A Redis command replies or fails
(`CommandReplied`, `CommandFailed`), at once, much later or never. `doingNum`,
which is only logged, is left out, but the mutex it is bumped under is waited
for.

The two ways a call fails are kept apart as in the code: `ReadCheck` on the
attempt with `retry = 1`, and `ReadGiveUp` when the mutex was busy to the end.
Neither drops the caller's reference, so the invariant `RefCounted` counts the
caller as a holder of every command whose call failed, for ever.

### Replication

`store` is what each server has of one bucket: the blob, named by the call that
saved it, and the mark `createBucket` leaves. `tasks[c]` are the servers that
have still to execute the command of call `c`; they may do so at any time, or
never (`Lose`). The answer of a task that is executed while its call waits is
counted with it; one that arrives later is as good as lost to the call.
`settled[c]` is history: no older mutation had a task left when `c` began. It is
the provision of `FreshAnswer`, `SavedIsHeld` and `DeletedStaysDeleted`: none of
them says anything of a save or a deletion that overlaps with the late tasks of
an older save, and there they are false. The run `replication_read` shows it for
the first of them, with calls that all succeed.

### ConnectionPool

The list is modelled by its links, with the header, the constructor's `tail` and
NULL. A request is the worker it belongs to; when the worker puts the connection
back the request becomes `Late`, and so does its reply. A write that fails may
have sent a part of the request (`Cut`), and the connection goes back as idle:
what the server makes of the bytes that follow is any of what the protocol lets
happen (`Swallow`), as in `RedisCommands`. `Receive` takes the first reply in
the buffer; `_recvInt` takes what follows it along when it is short, `_recvBulk`
does not, so both may happen. Two history variables name the provisions of the
properties: `exhausted`, that the last idle connection was taken at some time,
and `clean`, the workers whose connection had no request to be answered, whole
or cut off, when `openConnection` cleared its buffer. `OwnReply` is about those
workers only, but in every behaviour: other commands may time out, be cut off
and leave replies behind as they like. For the other workers the code has
nothing that tells a late reply from their own.

### RedisCommands

One client thread, one connection, one blob. A byte is a record of what it is
(the length it is part of, or the data of which save) and its place, so that
cutting, shifting or mixing bytes shows. The request of a command is one element
of `requests`, which the client sends whole or cut off: at the writes of `hSet`,
or at the only write of the others. The reply is a sequence of tokens: the first
line, the body of a bulk, and the CRLF after it. The body arrives in any pieces,
`_recvBulk` takes it as it comes, and takes the CRLF if it has arrived. What the
server does with a request that was cut off and followed by another (`Swallow`)
is any of what the protocol lets happen: the bytes are still not enough, or they
complete the value and the rest is no command; which one depends on lengths the
model does not count. A server that closes the connection (`ServerCloses`) does
so for good, as the pool never connects again. Memory that is overrun, a null
pointer and SIGPIPE stop the program (`pc = "stopped"`).

Two history variables name the provisions: `late`, that a command was given up
while its reply was still to come, and `swallowed`, that bytes of one command
were taken for another's. First lines, and the two bytes of the CRLF, arrive
whole, and the rest of a late body is not taken for a first line; the properties
hold under `~late` only, so the latter does not matter to them.

### Lifecycle

Two programs. `ConfigServer` reads the lines of `RedisServers.cfg` and adds the
nodes; it passes over a name that is not resolved. The client's thread (`main`)
goes through `connectionPoolInit`, `clnt_create` and `threadPoolInit`, calls,
and goes through `threadPoolDestroy` and `connectionPoolDestroy`; each can fail
where the code looks at a result or should. Each program has a copy of the file,
the client where it runs and the configuration server where it runs; either copy
may be missing, and that of the configuration server may name any of the
client's servers, in any order. Tasks are numbered and linked to the next
number, so that the queue is the number of its first task, NULL is a number that
no task has, and `freed` are the tasks that were freed. `threadPoolDestroy`
tests the queue, reads its head and sets it to the next task without the mutex,
so these are three actions (`DrainTest`, `DrainHead`, `DrainPop`), and so are
they in a worker (`FindTask`, `Take`, `Unlink`): the main thread may find NULL
or a freed task where it read a task, and a worker may unlink what the main
thread has taken. A worker goes through `_threadDo` in as many steps as it holds
locks; what it does with them in between is in `ThreadPool` and
`ConnectionPool`.

`pthread_cancel` takes effect at `CancellationPoint`: in `recv`, `write`,
`usleep` and `pthread_cond_wait`, the last of which takes the mutex before the
thread dies. The mutexes of a dead worker stay locked. `printf`, where a
cancellation may take effect too, is left out: it adds no place where a mutex is
held that the others do not have. `pthread_cond_destroy` waits until no thread
waits for the condition, as that of glibc does. `lockFreed` stands for the
memory of the pool and of its mutex; the signal a worker sends after it has
released the mutex (`threadpool.c:86`) is left out. A step that uses freed
memory, or NULL for a task, ends the run (`fate = "corrupt"`), as anything may
follow; a client that dies of a name or a server it does not reach (`failed`),
or in a command (`Execute`; the ways are in `RedisCommands`), ends in
`"crashed"`.

### ConHash

`vnode` is the tree: the owner of each point of a ring of `H` points. A node
gets any set of points when it joins, which stands for the hash of its replicas;
its own replicas that collide with each other make the set smaller. A replica
whose memory is refused has no virtual node. Node names that join again get a
new placement, as another server would. `Lookup` goes over the points from the
key's on; a point that has no virtual node is skipped, as the successor
functions of the tree do.

### RBTree

The record `tree` has the root, the three pointers and the color of each node
and of the sentinel. The two sides the code spells out are one definition with a
side as parameter. The iterations of the two fix-up loops are actions, what runs
before them is one action. Memory that is freed reads as anything: where
`rbtree_insert_fixup` reads the color of a freed node, the loop ends
(`InsertDone`) or goes on and the model stops (`InsertLost`).

## Runs

| run | instance | states | shows |
|---|---|---|---|
| `thread_pool` | 2 workers, 2 calls, N = 2, R = 1, W = 2, backlog limit 2, 2 attempts at a mutex | 1.5 minutes | all safety properties of the pool, and that it implements `QuorumCall` |
| `thread_pool_live` | the same with 1 call on up to 3 replicas, with fairness | 234 thousand | calls return even if no command does; tasks are taken if a worker returns |
| `connection_pool` | 3 workers, 3 connections, at most 3 messages on all of them, symmetry | 864 thousand | the list stays a list; idle first, exclusive use and own reply, each under its provision |
| `connection_pool_full` | 3 workers, 3 connections, 1 message | | a connection is shared |
| `replication` | N = 3, R = W = 2, 3 saves and loads, errors | 1.4 million | what R + W > N guarantees of a settled save |
| `replication_api` | N = 2, R = 2, W = 1, 3 calls of all operations, errors | 1.8 million | what a settled deletion deleted stays deleted, the calls are quorum calls |
| `replication_read` | N = 3, R = W = 2, no errors | | a sentence of the thesis that does not hold |
| `redis_commands` | buffers of 7 bytes, headers of 2, blobs of 0, 1, 3, 4, 5 and 6 bytes, 3 commands | 1.1 million | what a success says of the server, what is stored, what stops the program |
| `blob_round_trip` | the same | | a load does not return what was saved |
| `lifecycle` | 2 servers, 2 workers, N = 2, 1 call, with fairness | 123 thousand | connections for every task, sound memory before the end, and the end is reached |
| `con_hash` | 3 nodes of up to 2 points on a ring of 4, N = 2, symmetry | 31 thousand | ring and lookup |
| `rb_tree` | 8 keys, with fairness | 22 thousand | search tree, balance, searches; the loops end |

**Bounds.** Two workers are enough for two threads to meet in every stretch of
code while the caller is in a third; two calls, for the answers of one to arrive
during the next, and for the backlog to be over the limit when the second call
adds its tasks. Two attempts at a mutex let each loop fail, succeed at first and
succeed at last. The live run has three tasks for its two workers, so that a
worker that returns has to take what the one that is held up does not. Three
calls of `Replication` are a mutation, another one racing with it, and a query;
N = 3 leaves a server out of each quorum, and N = 2 with W = 1 does for writes,
while R + W > N. Three workers on three connections reach the full pool, and two
of them the state with one to spare, with connections put back in another order
than they were taken; three messages are a request left behind, the one after it
and one of another worker. Three commands on a connection are a save, one that
leaves something behind on the connection, and one that meets it; with headers
of 2 bytes in buffers of 7, the lengths are those that are served (1 and 3),
that fit with one header but not with two (4 and 5), that fit with none (6), and
0. In `lifecycle`, two workers are one that dies with a mutex and one that waits
for it, while the main thread is in `threadPoolDestroy`; the call has a task for
each, or one is left for the draining. On a ring of four points three nodes of
two points must collide. Eight keys make trees with three black levels, whose
deletions go through every case of the fix-up on both sides and climb more than
once.

**Symmetry** is used among workers and among nodes, in runs of safety properties
only. **Views.** That of `rb_tree` leaves out two pointers that are never
followed: the parent of the sentinel between operations, and which freed node
the root's stale parent points to (only whether it is the sentinel counts). That
of `replication` and `replication_api` leaves out the tasks of queries that have
returned, which change nothing any more, and whether a query was settled. In
both, states with the same view have the same successors up to the view, so
temporal properties are unharmed.

**Deadlock** is checked for the thread pool, where a worker that waits can
always wake up, for the connection pool and for the ring. The calls of
`Replication` are bounded and end, and so are the commands of `RedisCommands`,
whose program may be stopped as well; a client of `Lifecycle` exits, or its run
ends in freed memory (that it does not stop elsewhere is `ShutdownEnds`); the
tree is idle when it is full and stops in `InsertLost`.

**Fairness.** `FairSpec` of `ThreadPool` asks that the caller and each worker
take a step if they can for ever: they are threads of one process, every lock is
released by code that does not block on Redis. It does not ask that a Redis
command ends: replies are polled a bounded number of times (`redis.c:67-85`),
but `write` blocks without a bound on a server that reads no more
(`redis.c:242`; the sockets of `connectionpool.c:55-62` have no timeout). So
`EveryCallReturns` holds with all workers held up for ever, while
`EveryTaskTaken` has the provision `SomeWorkerReturns`: with as many workers
held up as there are, queued tasks stay where they are. It asks for no spurious
wakeups and no new calls. `FairSpec` of `RBTree` says that the loops run on.
`FairSpec` of `Lifecycle` asks that the main thread and each worker take a step
if they can for ever, and that a worker that was cancelled and comes to wait for
a task again and again is not woken every time before the cancellation is acted
upon; it asks nothing of the configuration server, nor that calls are made or
that the client ends.

## What the runs found

Each of these is a violation run with its counterexample, listed under
`findings` in `PROJECT.json`:

* A load returns the length header that was stored with the blob, then the blob
  without its last four bytes (`router.c:289`).
* With as many connections as workers, the last idle connection is linked after
  itself, and busy connections are returned (`connectionpool.c:229-236`).
* A save that was sent to all servers returns after W answers; its last task,
  executed late, undoes a newer save there, and a load gets no answer that is
  the latest version, although all three calls succeed (`router.c:321`). The
  same follows from a save that timed out.

Seen while modelling, and visible in the models without a run of their own: a
failed call never frees its command (`threadpool.c:224`, against the comment at
line 190; see `CallerHolds`); a late task of a save undoes a deletion as it does
a newer save (`settled` in `DeletedStaysDeleted`); a save may never be sent to
the last server (`FanOut`); a replica whose point is taken has no virtual node
(`NewPoints`); `idleThreadsNum` drifts below the number of idle workers, so that
the fan-out shrinks to the threshold over time (`threadpool.c:81`; `RunOnce`);
one answer decides a test of existence, also that of a server which missed the
save (`router.c:204`, against `router.h:19`; `Threshold`); after a root with one
child was deleted, which the service never does, an insertion may read freed
memory above the new root (`util_rbtree.c:187`; `InsertLost`); a blob within
eight bytes of the buffers' size overruns one of them (`redis.c:119` and
`threadpool.c:172`; `Offset`, `NewCommand`), and an empty one is read through a
null pointer (`redis.c:535`; `WriteMeta`); a Redis server that is not reached
crashes the client (`connectionpool.c:98`; `Refused`); a connection that was
closed is never made again (`ServerCloses`); a request that was cut off is left
on a connection that counts as idle (`redis.c:556`; `WriteFails`); workers use
memory that `threadPoolDestroy` has freed (`UseFreed`), and both follow a NULL
or free a task twice when they empty the queue at once (`threadpool.c:269-271`;
`DrainPop`, `DrainFree`, `Dangling`).

## What is proved

Each theorem holds for every value of the constants that satisfies the module's
`ConstantsAssumption`, which says no more than what the constants are: finitely
many workers, at least one; thresholds between 1 and N; a positive number of
connections; a header shorter than the buffer; no line of `RedisServers.cfg`
twice. Where a theorem needs more, it says so (`FreshCorrect`). A proof of an
invariant has an initial step, and a lemma `Step...` with one step per action
and under it one per part that the action disturbs. The invariants that the runs
check are not inductive alone; the stronger ones, and why they are needed, are
the following.

**ThreadPool.**

* `TypeCorrect`, `PoolMutexCorrect` from `Typed`: the types, the mutual
  exclusion, and that `waitingTasksNum` is the length of the queue. That the
  counter never becomes negative needs that a worker at `take` finds the queue
  as it read it, which needs that only the holder of the mutex is in the code
  that changes it.
* `BacklogCorrect`: the queue grows by one fan-out at a time, below the limit.
* `WakeupCorrect`: while a worker sleeps, the queue is no longer than the number
  of workers on their way to it plus the signals still to be sent. A signal
  turns a sleeper into one of those workers, a worker that goes to sleep has
  found the queue empty, and one that leaves takes a task along.
* `IdleCorrect`: a worker counts itself in once per wait and out once per task,
  and it is waiting in between.
* `OwnershipCorrect` from `Owned`: the tasks of the current command do not exist
  before `execute()` queues them, so what it appends is nobody's.
* `RefCountCorrect` and `FreeCorrect` from `CallDecided` and `Heap`. The calls
  are decided in order (`CallDecided`), so that the caller counts as a holder of
  each command but those it has released. The count of a command is then the
  cardinality of its tasks, plus one for the caller; whoever brings it to zero
  has freed the last task, and no thread has a pointer left. It needs that the
  tasks of the current command all stay allocated until they are queued
  (`TasksBuilt`).
* `SlotsCorrect` from `CmdMutex` and `Slots`: a task that is pending has no slot
  (`Unanswered`), and since a task is owned once and belongs to one replica,
  there are no more slots than replicas (a pigeonhole argument).
* `QuorumCallImplemented`: every action maps to one of `QuorumCall` or to none.
  Success is decided on the number of slots; that they are distinct replicas is
  `SlotsCorrect`.

**Replication.**

* `TypeCorrect` from `Typed`, which adds that calls are numbered and only the
  last may be pending, what a settled call means for older tasks for ever, and
  that an answer was counted for a task that is gone.
* `SavedCorrect`, `FreshCorrect`, `DeletionCorrect`, each of a settled call,
  from `Copies`: a server whose answer to the latest settled mutation was
  counted shows its effect (`Applied`), and keeps it, as what is still to be
  executed there was issued later; what it has answered to the query under way
  it would answer again (`Answered`); a blob that nobody deleted is only
  replaced by later ones (`Kept`). `FreshCorrect` has R + W > N as its
  hypothesis, and uses it once: the servers counted by the save and by the load
  have one in common. The other two hold whatever the thresholds are, as the
  deletions ask for all servers.
* `QuorumCallImplemented`.

**ConnectionPool.**

* `TypeCorrect`: no NULL link is followed.
* `LinksCorrect` from the types, `ListCorrect` from that. `LinksAgree` is local:
  where next leads, previous leads back. Each way of moving a connection keeps
  it, also when the one that is moved is the head, the tail, or next to one of
  them, and also once the pool was exhausted. That the list ends follows: among
  the paths from the header there is a longest one, as there are finitely many
  connections; if next continued it, it would lead back to one of its
  connections, but previous leads elsewhere from there.
* `ExclusiveCorrect`, `IdleFirstCorrect` from `Exclusive`: as long as an idle
  connection is left whenever one is taken, the idle connections are a list from
  the header to `tail` (`IdleListed`), and what is in use hangs after `tail` and
  leads nowhere (`BusyLast`); so that there is one idle connection that nobody
  has to move, `tail`, and a connection is put back by its only user.
* `OwnReplyCorrect` from `OwnWire`: on the wire of a connection that was clean
  when it was opened is nothing, or one request or reply of the worker that has
  it. Nothing is said of the other connections, and nothing needs to be: with an
  idle one to spare nobody else gets at this one.

**RedisCommands.**

* `TypeCorrect` from `Typed`: what a worker goes by is long enough for a header.
* `StoredCorrect` from `Saved`: only commands that fit, and are not empty, send
  a value (`Room`, `Saving`, `Asked`), so what the server holds is one of them.
* `FlowInv`, from which `AnswerCorrect` follows: under the provision `Clean`
  there is at most one whole request on the wire, the current command's
  (`Pending`); before it is executed only the end of an earlier bulk can be on
  the way back (`Stale`); what comes after is true of the value held
  (`Fitting`), in order (`Ordered`), and the pieces of a body, those taken and
  those to come, are one after another in it (`Continued`); so what the worker
  has taken is true (`Got`).
* `StopsCorrect`: what `_recvBulk` has received is a part of the value held,
  which is the value of a save (`HoldsValue`); so it overruns the buffer only if
  a blob was saved that does not fit with its header twice.

**Lifecycle.**

* `ConnectionsCorrect` from `ListRead`: the queues are the first lines of the
  list while it is read, and all of them from then on. The servers of the ring
  are some of that list, whatever part of it the other copy has.
* `SoundCorrect` from `Intact`: until the end begins, a task that was freed was
  unlinked before, by the worker that freed it; the head that a worker has found
  or read stays the head while it holds the mutex (`HeadKept`), so it is no
  NULL; and a worker that is beyond `openConnection` has found a queue. What the
  theorem leaves open is the pool that `connectionPoolInit` freed, and what a
  command does.

**ConHash.**

* `TypeCorrect` and `RingCorrect` from `Ring`: a node that joins is counted for
  the points nobody has, one that leaves for those of its points that are its
  own.
* `LookupCorrect` from `Ring` and from what the walk has found after i points
  (`Nearest`): the nearest servers at work, up to N of them. As no operator can
  be put into the library's induction theorems, the walk is followed to the
  first point where `Nearest` might fail, and there is none (`FirstNumber`);
  that the recursive function exists is shown once for all step functions in the
  same way (`StepsExist`).
* `DisruptionMinimal`, an action property: a server that works before and after
  a step keeps its points (`PointsKept`), hence its distance from every key, and
  the list of a key is ordered by distance (`NearerBefore`).

**RBTree.**

* `TypeCorrect`, `KeysInOrder`, `RedBlack` and `SearchesFind` from one
  invariant, `Formed`. The properties are about recursive functions of the tree,
  which no prover unfolds along a tree that changes. `Formed` says instead, node
  by node, that two functions exist: `sub`, the keys below each node, and `bh`,
  the black nodes from each node down. `Shape` ties `sub` to the pointers
  (parent and child agree, a node separates what is below its children, the
  pointers of the other nodes are cleared); `Settled`, `Inserting` and
  `Deleting` tie `bh` to the colors, and say what the loop that runs still owes:
  nothing, a red node below a red one, one black node on the way to the current
  node. Neither is in the code, and each action changes them at two or three
  nodes only.
* A step needs the new functions. A rotation changes what is below two nodes
  (`RotatedShape`) and their heights (`TurnedEven`); a recoloring, one or two
  heights. A deletion from the middle is hardest, as `util_rbtree_delete` moves
  the follower of a node into its place while the follower's own child is moved:
  it comes to the same as cutting the follower out (`CutShape`, `CutColors`) and
  giving the node its name (`PlaceIsName`, `RenamedShape`). That `temp` is the
  right node to move is `PlaceFits`. In the fix-up of a deletion the sibling is
  never the sentinel, as it has one black node more below it (`OwingFacts`).
* What the functions compute follows from `sub` and `bh`: the sequence of
  `InOrder` (`InOrderIs`), `BlackHeight` (`BlackHeightIs`), and the ways down
  (`PathIs`, `LeastIs`, `LastLeftIs`). Instead of an induction over the tree,
  the deepest node where a claim fails is considered (`Deepest`), which exists
  as fewer keys are below a child than below its parent (`FewerBelow`); that a
  recursive function of the tree exists is shown once for all of them
  (`RecursionExists`, `TreeRecursion`).

Only model-checked: liveness (the runs `thread_pool_live`, `lifecycle` and
`rb_tree`), which the provers cannot treat. All invariants and action properties
of the runs that hold are proved. The temporal step of each theorem is by PTL.

## What is not modelled

* The text of the protocol and of the names (`_commandStream`'s formatting, the
  scanning of a reply for `:`, `$` and CRLF): a token is what the scan finds.
  `_recvStatus`, which nobody calls.
* That a late reply is not taken for another's: it is modelled, but `OwnReply`
  and `AnswerIsHeld` exclude a connection on which a request was left to be
  answered (the code has no means to tell the reply to it).
* Several client processes. Each has its own pools; for the servers they are
  like calls that overlap, which `Replication`'s late tasks are already.
* The RPC between the router and the configuration server: a call that fails or
  names fewer than N servers adds no task. The configuration server's restart.
* What the test client counts and measures.
* `util_rbtree_check`, `conhash_fini`, `conhash_get_vnodes`: nothing calls them
  to serve a request. MD5 and the generated RPC code.

## Plan

1. `ConHash` on top of `RBTree`'s searches, as a module that composes them: its
   walk goes from point to point as `gt_key` does, by `SearchesFind`.
2. Several clients, with connections of their own, on the same servers.
