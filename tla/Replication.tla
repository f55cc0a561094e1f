----------------------------- MODULE Replication -----------------------------
(***************************************************************************)
(* What the router (router.c) makes of N Redis servers: one bucket and one *)
(* blob of it, replicated by quorum calls.                                 *)
(*                                                                         *)
(* The thread pool is reduced to what QuorumCall says of it: each call     *)
(* fans out into one task per replica, a task may be executed by its       *)
(* server at any later time, long after its call has returned, and its     *)
(* answer may be counted or lost.  A blob is named by the call that saved  *)
(* it, 0 being no blob.                                                    *)
(***************************************************************************)
EXTENDS Integers, FiniteSets

CONSTANTS
  N, R, W,      \* replicas and thresholds (def.h)
  MaxCalls,     \* bound: number of calls
  Operations,   \* the operations of the API that are called
  Errors        \* whether a command may fail

Mutations == {"createBucket", "deleteBlob", "deleteBucket", "saveBlob"}
Tests     == {"existBlob", "existBucket"}

ASSUME ConstantsAssumption ==
  /\ N \in Nat /\ R \in 1..N /\ W \in 1..N /\ MaxCalls \in Nat
  /\ Operations \subseteq Mutations \cup Tests \cup {"loadBlob"}
  /\ Errors \in BOOLEAN

Servers == 1..N
Calls   == 1..MaxCalls

VARIABLES
  store,     \* of a server: the blob, and the mark createBucket leaves
  call,      \* the current call, or the last one
  op,        \* of a call: its operation
  status,    \* of a call: "unborn", "pending", "ok", "no" or "failed"
  tasks,     \* of a call: the servers that still have its command to execute
  acked,     \* of a call: the servers whose answer it has counted
  reply,     \* of a server: its answer to the current call
  result,    \* of the last call, if it is a load that succeeded: the answers
  settled    \* history, of a call: no older mutation had tasks when it began
vars == <<store, call, op, status, tasks, acked, reply, result, settled>>

-----------------------------------------------------------------------------
(* Mutants: a deletion asks for a write quorum only; a load, a save for one
   answer too few. *)
WeakThreshold(o) == IF o \in Tests THEN 1 ELSE IF o = "loadBlob" THEN R ELSE W
LowRead(o) ==
  IF o = "loadBlob" THEN R - 1 ELSE IF o \in Tests THEN 1 ELSE IF o = "saveBlob" THEN W ELSE N
LowWrite(o) ==
  IF o = "loadBlob" THEN R ELSE IF o \in Tests THEN 1 ELSE IF o = "saveBlob" THEN W - 1 ELSE N

(* The threshold each route...() function gives to readResult(). *)
Threshold(o) ==
  CASE o \in {"createBucket", "saveBlob"}   -> W
    [] o = "loadBlob"                       -> R
    [] o \in {"deleteBlob", "deleteBucket"} -> N
    [] o \in Tests                          -> 1

(* __getExpectedAnswersNum: N or the threshold, by chance. *)
FanOut(o) == IF o \in {"loadBlob", "saveBlob"} THEN {Threshold(o), N} ELSE {N}

(* What the Redis command of call c leaves of a store: HSET, HDEL, DEL, or a
   query. *)
Effect(c, s) ==
  CASE op[c] = "saveBlob"     -> [s EXCEPT !.blob = c]
    [] op[c] = "createBucket" -> [s EXCEPT !.mark = TRUE]
    [] op[c] = "deleteBlob"   -> [s EXCEPT !.blob = 0]
    [] op[c] = "deleteBucket" -> [blob |-> 0, mark |-> FALSE]
    [] OTHER                  -> s

(* Mutant: the length -1 of a missing field is passed on. *)
RawReply(c, s) == IF op[c] = "loadBlob" /\ s.blob = 0 THEN -1 ELSE 0

(* Its reply: HGET's blob; 1 or 0 of HEXISTS and EXISTS. *)
Reply(c, s) ==
  CASE op[c] = "loadBlob"    -> s.blob
    [] op[c] = "existBlob"   -> IF s.blob # 0 THEN 1 ELSE 0
    [] op[c] = "existBucket" -> IF s.blob # 0 \/ s.mark THEN 1 ELSE 0
    [] OTHER                 -> 0

(* A call starts when the one before it has returned.  Its tasks go to the
   first n of the servers of the bucket. *)
Issue(o, n) ==
  LET c == call + 1 IN
  /\ c <= MaxCalls /\ (call > 0 => status[call] # "pending")
  /\ n \in FanOut(o)
  /\ call' = c
  /\ op' = [op EXCEPT ![c] = o]
  /\ status' = [status EXCEPT ![c] = "pending"]
  /\ tasks' = [tasks EXCEPT ![c] = 1..n]
  /\ reply' = [s \in Servers |-> 0]
  /\ settled' = [settled EXCEPT ![c] =
       \A d \in 1..call : op[d] \in Mutations => tasks[d] = {}]
  /\ result' = {}
  /\ UNCHANGED <<store, acked>>

(* A server executes the command of a task, and writeResult() counts the reply
   if the call still waits for it.  A call sees no more of an answer than
   whether it has it: one still on its way is as good as not yet executed, or
   as lost. *)
Apply(c, s) ==
  /\ s \in tasks[c]
  /\ tasks' = [tasks EXCEPT ![c] = @ \ {s}]
  /\ store' = [store EXCEPT ![s] = Effect(c, @)]
  /\ IF c = call /\ status[c] = "pending"
     THEN /\ acked' = [acked EXCEPT ![c] = @ \cup {s}]
          /\ reply' = [reply EXCEPT ![s] = Reply(c, store[s])]
     ELSE UNCHANGED <<acked, reply>>
  /\ UNCHANGED <<call, op, status, result, settled>>

(* The command fails, before or after the server has executed it, or its
   answer is dropped because the mutex of the command was busy. *)
Lose(c, s) ==
  /\ Errors /\ s \in tasks[c]
  /\ tasks' = [tasks EXCEPT ![c] = @ \ {s}]
  /\ store' \in {store, [store EXCEPT ![s] = Effect(c, @)]}
  /\ UNCHANGED <<call, op, status, acked, reply, result, settled>>

(* Mutant: one answer too few is enough. *)
AlmostEnough(c) == Cardinality(acked[c]) + 1 >= Threshold(op[c])

Enough(c) == Cardinality(acked[c]) >= Threshold(op[c])

Answers == {reply[s] : s \in acked[call]}

(* readResult() succeeds: a load returns one of the answers at random, a test
   of existence their disjunction ("no" is ROUTER_FAILED to the caller). *)
Return ==
  /\ call > 0 /\ status[call] = "pending" /\ Enough(call)
  /\ status' = [status EXCEPT ![call] =
       IF op[call] \in Tests /\ Answers = {0} THEN "no" ELSE "ok"]
  /\ result' = IF op[call] = "loadBlob" THEN Answers ELSE {}
  /\ reply' = [s \in Servers |-> 0]
  /\ UNCHANGED <<store, call, op, tasks, acked, settled>>

(* readResult() gives up: not enough answers in time, or the mutex was busy. *)
ReturnFailed ==
  /\ call > 0 /\ status[call] = "pending"
  /\ status' = [status EXCEPT ![call] = "failed"]
  /\ reply' = [s \in Servers |-> 0]
  /\ UNCHANGED <<store, call, op, tasks, acked, result, settled>>

Init ==
  /\ store = [s \in Servers |-> [blob |-> 0, mark |-> FALSE]]
  /\ call = 0
  /\ op = [c \in Calls |-> "none"]
  /\ status = [c \in Calls |-> "unborn"]
  /\ tasks = [c \in Calls |-> {}]
  /\ acked = [c \in Calls |-> {}]
  /\ reply = [s \in Servers |-> 0]
  /\ result = {}
  /\ settled = [c \in Calls |-> FALSE]

Next ==
  \/ \E o \in Operations, n \in Servers : Issue(o, n)
  \/ \E c \in Calls, s \in Servers : Apply(c, s) \/ Lose(c, s)
  \/ Return \/ ReturnFailed

Spec == Init /\ [][Next]_vars

-----------------------------------------------------------------------------
(* Properties *)

(* The type of the servers' contents and of the calls. *)
TypeOK ==
  /\ store \in [Servers -> [blob : 0..MaxCalls, mark : BOOLEAN]]
  /\ call \in 0..MaxCalls
  /\ op \in [Calls -> Operations \cup {"none"}]
  /\ status \in [Calls -> {"unborn", "pending", "ok", "no", "failed"}]
  /\ tasks \in [Calls -> SUBSET Servers]
  /\ acked \in [Calls -> SUBSET Servers]
  /\ reply \in [Servers -> 0..MaxCalls]
  /\ result \subseteq 0..MaxCalls
  /\ settled \in [Calls -> BOOLEAN]

(* c is the last mutation before the current call, it succeeded, and it is an
   o. *)
LastMutation(c, o) ==
  /\ c < call /\ op[c] = o /\ status[c] = "ok"
  /\ \A d \in (c + 1)..(call - 1) : op[d] \notin Mutations

(* The current call is an o that succeeded. *)
Succeeded(o) == op[call] = o /\ status[call] = "ok"

(* R + W > N: a load that succeeds right after a save that succeeded has the
   saved blob among its answers, provided no older mutation was still on its
   way to a server when the save was issued. *)
FreshAnswer ==
  \A c \in Calls :
    LastMutation(c, "saveBlob") /\ settled[c] /\ Succeeded("loadBlob") => c \in result

(* Deletions need all the servers: after one that succeeded, no load and no
   test of existence finds the blob, and after a bucket's, no test finds the
   bucket, provided no older mutation was still on its way when the deletion was
   issued. *)
DeletedStaysDeleted ==
  \A c \in Calls :
    LET bucketGone == LastMutation(c, "deleteBucket") /\ settled[c]
        blobGone   == bucketGone \/ (LastMutation(c, "deleteBlob") /\ settled[c]) IN
    /\ blobGone /\ Succeeded("loadBlob") => result = {0}
    /\ blobGone => ~Succeeded("existBlob")
    /\ bucketGone => ~Succeeded("existBucket")

(* What is saved by a successful call and not deleted since is not lost: as many
   servers hold it, or a later blob, as the write threshold asks for, provided no
   older mutation was still on its way to a server when the save was issued.  (A
   late task of an older save would put the older blob in its place.)  Losses and
   failures of the calls after it, and their late tasks, do no harm. *)
SavedIsHeld ==
  \A c \in 1..call :
    /\ op[c] = "saveBlob" /\ status[c] = "ok" /\ settled[c]
    /\ \A d \in (c + 1)..call : op[d] \notin {"deleteBlob", "deleteBucket"}
    => Cardinality({s \in Servers : store[s].blob >= c}) >= W

QC == INSTANCE QuorumCall WITH
  MaxCommands <- MaxCalls,
  status <- [c \in Calls |-> IF status[c] = "no" THEN "ok" ELSE status[c]],
  need   <- [c \in Calls |-> IF op[c] = "none" THEN 0 ELSE Threshold(op[c])],
  acked  <- acked

(* The router's calls are quorum calls. *)
ImplementsQuorumCall == QC!Spec

(* chap04.tex:394-395: R + W > N makes one of the R answers of a load the
   latest version.  FreshAnswer without its provision, even if all calls succeed. *)
OneAnswerIsLatest ==
  \A c \in Calls :
    /\ LastMutation(c, "saveBlob") /\ Succeeded("loadBlob")
    /\ \A d \in 1..call : status[d] = "ok"
    => c \in result
=============================================================================
