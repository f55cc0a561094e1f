--------------------------- MODULE RedisCommands ---------------------------
(***************************************************************************)
(* The Redis commands (redis.c) on one connection, byte by byte where the  *)
(* bytes matter: how a blob is laid out in memory, announced, written,     *)
(* stored, received and handed to the caller of the API.                   *)
(*                                                                         *)
(* The commands of a connection follow one another (ConnectionPool shows   *)
(* when that is so).  A command is named by its number.  What is on the    *)
(* wire is a sequence of requests one way, and one of tokens the other     *)
(* way: the first line of a reply, the body of a bulk, the CRLF after it.  *)
(* A first line arrives whole, a body in any pieces.                       *)
(***************************************************************************)
EXTENDS Integers, Sequences, SequencesExt

CONSTANTS
  HEADER,            \* sizeof(int)
  MAX_BLOB_LENGTH,   \* bytes of every buffer that holds a blob (def.h)
  Lengths,           \* of the blobs that are saved
  MaxCommands,       \* bound: number of commands
  NULL

ASSUME ConstantsAssumption ==
  /\ HEADER \in Nat \ {0} /\ MAX_BLOB_LENGTH \in Nat /\ HEADER < MAX_BLOB_LENGTH
  /\ Lengths \subseteq Nat /\ MaxCommands \in Nat \ {0}

Functions == {"del", "exists", "hDel", "hExists", "hGet", "hSet"}
Commands  == 1..MaxCommands

VARIABLES
  cmd, op,     \* the current command, or the last one, and its function
  length,      \* of a command: the length of the blob it saves, or 0
  pc,
  received,    \* of the current hGet: the length it goes by, and the bytes so far
  answer,      \* what writeResult() counted of it, or NULL
  requests,    \* on the way to the server
  arriving,    \* on the way back
  buffer,      \* tokens in the socket's receive buffer
  up,          \* the server has not closed the connection
  store,       \* the bytes the server holds of the blob, or NULL
  late,        \* history: a command was given up before its reply arrived
  swallowed    \* history: bytes of one command were taken for another's

client  == <<cmd, op, length, pc, received, answer>>
wire    == <<requests, arriving, buffer, up>>
history == <<late, swallowed>>
vars    == <<client, wire, store, history>>

-----------------------------------------------------------------------------
(* Blobs *)

Header(n) == [i \in 1..HEADER |-> <<"length", n, i>>]
Data(c)   == [i \in 1..length[c] |-> <<"data", c, i>>]

(* newRedisCommand: the length of header and blob, before the blob. *)
Value(c) == Header(length[c] + HEADER) \o Data(c)

(* Mutant: the length of the blob alone. *)
BareLength(c) == length[c]

(* hSet() announces the length it reads from the value's header. *)
ValueLength(c) == Head(Value(c))[2]

(* writeResult() copies as many bytes as the header says of the header and what
   was received; routeLoadBlob() drops the header, and as many bytes. *)
Loaded == SubSeq(Header(received.n) \o received.bytes, HEADER + 1, received.n)

(* The value of a save whose bytes are partly those of other commands. *)
Mixed(c) == [i \in 1..ValueLength(c) |-> <<"alien", c, i>>]

-----------------------------------------------------------------------------
(* The worker *)

Goto(l) == pc' = l

NoBytes == [from |-> NULL, n |-> 0, bytes |-> <<>>]

(* newRedisCommand: a value that does not fit into its buffer overruns it. *)
NewCommand(f, n) ==
  /\ pc = "idle" /\ cmd < MaxCommands
  /\ cmd' = cmd + 1 /\ op' = f
  /\ length' = [length EXCEPT ![cmd + 1] = n]
  /\ answer' = NULL /\ received' = NoBytes
  /\ Goto(IF n # 0 /\ n + HEADER > MAX_BLOB_LENGTH THEN "stopped" ELSE "open")
  /\ UNCHANGED <<wire, store, history>>

(* Mutant: what has arrived stays. *)
Keep == UNCHANGED buffer

(* recv() until nothing is left. *)
Clear == buffer' = <<>>

(* openConnection *)
Open ==
  /\ pc = "open" /\ Clear /\ Goto("write")
  /\ UNCHANGED <<cmd, op, length, received, answer, requests, arriving, up, store, history>>

(* The request is on its way, whole or cut off; what is written to a connection
   the server has closed is lost. *)
Send(whole) ==
  requests' = IF up THEN Append(requests, [cmd |-> cmd, op |-> op, whole |-> whole])
                    ELSE requests

(* The commands that are written at once. *)
WriteCommand ==
  /\ pc = "write" /\ op # "hSet"
  /\ Send(TRUE) /\ Goto("recv")
  /\ UNCHANGED <<cmd, op, length, received, answer, arriving, buffer, up, store, history>>

(* A value of length 0 was never built: its length is read through NULL. *)
WriteMeta ==
  /\ pc = "write" /\ op = "hSet"
  /\ Goto(IF length[cmd] = 0 THEN "stopped" ELSE "value")
  /\ UNCHANGED <<cmd, op, length, received, answer, wire, store, history>>

WriteValue ==
  /\ pc = "value" /\ Goto("end")
  /\ UNCHANGED <<cmd, op, length, received, answer, wire, store, history>>

WriteEnd ==
  /\ pc = "end" /\ Send(TRUE) /\ Goto("recv")
  /\ UNCHANGED <<cmd, op, length, received, answer, arriving, buffer, up, store, history>>

Writing == pc \in {"write", "value", "end"} /\ ~(op = "hSet" /\ length[cmd] = 0)

(* A write sends nothing, or a part; nothing is sent to make up for it. *)
WriteFails ==
  /\ Writing
  /\ Send(FALSE) \/ (pc = "write" /\ UNCHANGED requests)
  /\ Goto("close")
  /\ UNCHANGED <<cmd, op, length, received, answer, arriving, buffer, up, store, history>>

(* Nobody ignores SIGPIPE. *)
BrokenPipe ==
  /\ Writing /\ ~up
  /\ Goto("stopped")
  /\ UNCHANGED <<cmd, op, length, received, answer, wire, store, history>>

(* _recvInt: takes all there is and looks at its first token. *)
RecvInt ==
  /\ pc = "recv" /\ op # "hGet" /\ buffer # <<>>
  /\ LET t == Head(buffer) IN
     IF t.kind = "int"
     THEN received' = [from |-> t.of, n |-> t.n, bytes |-> <<>>] /\ Goto("result")
     ELSE UNCHANGED received /\ Goto("close")
  /\ Clear
  /\ UNCHANGED <<cmd, op, length, answer, requests, arriving, up, store, history>>

(* Mutant: a missing blob is not told from an empty reply. *)
RawLength(n) == IF n > MAX_BLOB_LENGTH THEN MAX_BLOB_LENGTH ELSE n

(* The length is cut to the buffer's; that of a missing blob is the header's. *)
BulkLength(n) ==
  IF n > MAX_BLOB_LENGTH THEN MAX_BLOB_LENGTH ELSE IF n < 0 THEN HEADER ELSE n

(* _recvBulk, the first line: peeks, and takes it if it announces a bulk. *)
RecvLength ==
  /\ pc = "recv" /\ op = "hGet" /\ buffer # <<>>
  /\ LET t == Head(buffer)
         n == BulkLength(t.n)
     IN IF t.kind = "bulk"
        THEN /\ buffer' = Tail(buffer)
             /\ received' = [from |-> t.of, n |-> n, bytes |-> <<>>]
             /\ Goto(IF n = HEADER THEN "result" ELSE "body")
        ELSE UNCHANGED <<buffer, received>> /\ Goto("close")
  /\ UNCHANGED <<cmd, op, length, answer, requests, arriving, up, store, history>>

(* The CRLF is taken if it has arrived; nothing waits for it. *)
TrailingTaken(b) == IF b # <<>> /\ Head(b).kind = "crlf" THEN Tail(b) ELSE b

(* Mutant: room is left for the length that is stored with the blob. *)
OffsetTwice == 2 * HEADER

(* Where the body goes in the array of hGet(). *)
Offset == HEADER

(* _recvBulk, the body: what has arrived of it goes after the header. *)
RecvBody ==
  /\ pc = "body" /\ buffer # <<>> /\ Head(buffer).kind = "body"
  /\ LET bytes == received.bytes \o Head(buffer).bytes IN
     /\ received' = [received EXCEPT !.bytes = bytes]
     /\ IF Offset + Len(bytes) > MAX_BLOB_LENGTH
        THEN Goto("stopped") /\ buffer' = Tail(buffer)
        ELSE IF Len(bytes) = received.n
        THEN Goto("result") /\ buffer' = TrailingTaken(Tail(buffer))
        ELSE UNCHANGED pc /\ buffer' = Tail(buffer)
  /\ UNCHANGED <<cmd, op, length, answer, requests, arriving, up, store, history>>

(* The retries are used up. *)
RecvFails ==
  /\ pc \in {"recv", "body"} /\ Goto("close")
  /\ UNCHANGED <<cmd, op, length, received, answer, wire, store, history>>

(* writeResult() counts the answer, or fails on the mutex of the command. *)
WriteResult ==
  /\ pc = "result" /\ Goto("close")
  /\ \/ answer' = IF op = "hGet" THEN [n |-> received.n - HEADER, bytes |-> Loaded]
                                 ELSE [n |-> received.n, bytes |-> <<>>]
     \/ UNCHANGED answer
  /\ UNCHANGED <<cmd, op, length, received, wire, store, history>>

(* The reply to the current command is still to come. *)
Unanswered ==
  \/ \E r \in ToSet(requests) : r.cmd = cmd /\ r.whole
  \/ \E t \in ToSet(arriving) : t.of = cmd /\ t.kind # "crlf"

(* closeConnection *)
Close ==
  /\ pc = "close" /\ Clear /\ Goto("idle")
  /\ late' = (late \/ Unanswered)
  /\ UNCHANGED <<cmd, op, length, received, answer, requests, arriving, up, store, swallowed>>

(* The functions the workers call. *)
IntCommand(f) ==
  op = f /\ (Open \/ WriteCommand \/ WriteFails \/ BrokenPipe \/ RecvInt
               \/ RecvFails \/ WriteResult \/ Close)

del     == IntCommand("del")
exists  == IntCommand("exists")
hDel    == IntCommand("hDel")
hExists == IntCommand("hExists")
hGet ==
  op = "hGet" /\ (Open \/ WriteCommand \/ WriteFails \/ BrokenPipe \/ RecvLength
                    \/ RecvBody \/ RecvFails \/ WriteResult \/ Close)
hSet ==
  op = "hSet" /\ (Open \/ WriteMeta \/ WriteValue \/ WriteEnd \/ WriteFails \/ BrokenPipe
                    \/ RecvInt \/ RecvFails \/ WriteResult \/ Close)

-----------------------------------------------------------------------------
(* The server and the network *)

Token(kind, c, n, bytes) == [kind |-> kind, of |-> c, n |-> n, bytes |-> bytes]

Error(c) == <<Token("error", c, 0, <<>>)>>

Effect(r) ==
  CASE r.op = "hSet"            -> SubSeq(Value(r.cmd), 1, ValueLength(r.cmd))
    [] r.op \in {"del", "hDel"} -> NULL
    [] OTHER                    -> store

Reply(r) ==
  IF r.op # "hGet"
  THEN <<Token("int", r.cmd, IF store = NULL THEN 0 ELSE 1, <<>>)>>
  ELSE IF store = NULL
  THEN <<Token("bulk", r.cmd, -1, <<>>)>>
  ELSE <<Token("bulk", r.cmd, Len(store), <<>>),
         Token("body", r.cmd, 0, store), Token("crlf", r.cmd, 0, <<>>)>>

(* A whole request is executed, or refused with an error. *)
Execute ==
  /\ requests # <<>> /\ Head(requests).whole
  /\ LET r == Head(requests) IN
     \/ store' = Effect(r) /\ arriving' = arriving \o Reply(r)
     \/ store' = store /\ arriving' = arriving \o Error(r.cmd)
  /\ requests' = Tail(requests)
  /\ UNCHANGED <<client, buffer, up, history>>

(* The bytes of the next request are taken for the rest of one that was cut
   off: it is still not complete, or it is executed with bytes that are not its
   own, and what is left over of the other one is no command. *)
Swallow ==
  /\ Len(requests) > 1 /\ ~Head(requests).whole
  /\ swallowed' = TRUE
  /\ LET r == Head(requests)
         s == requests[2]
         rest == SubSeq(requests, 3, Len(requests))
     IN \/ requests' = <<r>> \o rest /\ UNCHANGED <<store, arriving>>
        \/ /\ requests' = rest
           /\ store' = IF r.op = "hSet" THEN Mixed(r.cmd) ELSE store
           /\ \E t \in {Token("int", r.cmd, 0, <<>>), Token("bulk", r.cmd, -1, <<>>)} :
                arriving' \in {arriving \o <<t>>, arriving \o <<t>> \o Error(s.cmd)}
  /\ UNCHANGED <<client, buffer, up, late>>

(* A piece of a body joins the piece before it. *)
Arrived(t) ==
  IF t.kind = "body" /\ buffer # <<>> /\ Last(buffer).kind = "body"
  THEN Append(Front(buffer), [t EXCEPT !.bytes = Last(buffer).bytes \o @])
  ELSE Append(buffer, t)

Arrive ==
  /\ arriving # <<>>
  /\ LET t == Head(arriving) IN
     \/ buffer' = Arrived(t) /\ arriving' = Tail(arriving)
     \/ \E k \in 1..(Len(t.bytes) - 1) :
          /\ buffer' = Arrived([t EXCEPT !.bytes = SubSeq(@, 1, k)])
          /\ arriving' = <<[t EXCEPT !.bytes = SubSeq(@, k + 1, Len(@))]>> \o Tail(arriving)
  /\ UNCHANGED <<client, requests, up, store, history>>

(* The server closes the connection, by a restart say; what was on its way back
   may be lost.  Nothing ever connects again. *)
ServerCloses ==
  /\ up /\ up' = FALSE
  /\ requests' = <<>> /\ arriving' \in {arriving, <<>>}
  /\ UNCHANGED <<client, buffer, store, history>>

-----------------------------------------------------------------------------
Init ==
  /\ cmd = 0 /\ op = "exists" /\ length = [c \in Commands |-> 0]
  /\ pc = "idle" /\ received = NoBytes /\ answer = NULL
  /\ requests = <<>> /\ arriving = <<>> /\ buffer = <<>> /\ up = TRUE
  /\ store = NULL
  /\ late = FALSE /\ swallowed = FALSE

Next ==
  \/ \E f \in Functions : \E n \in IF f = "hSet" THEN Lengths ELSE {0} : NewCommand(f, n)
  \/ del \/ exists \/ hDel \/ hExists \/ hGet \/ hSet
  \/ Execute \/ Swallow \/ Arrive \/ ServerCloses

Spec == Init /\ [][Next]_vars

-----------------------------------------------------------------------------
(* Properties *)

Bytes  == {"length", "data", "alien"} \X Nat \X Nat
Tokens == [kind : {"int", "bulk", "body", "crlf", "error"}, of : Commands,
           n : Int, bytes : Seq(Bytes)]

(* The type of the command, of the wire and of what the server holds. *)
TypeOK ==
  /\ cmd \in 0..MaxCommands /\ op \in Functions /\ length \in [Commands -> Lengths \cup {0}]
  /\ pc \in {"idle", "open", "write", "value", "end", "recv", "body", "result", "close",
             "stopped"}
  /\ received \in [from : Commands \cup {NULL}, n : Nat, bytes : Seq(Bytes)]
  /\ answer \in [n : Nat, bytes : Seq(Bytes)] \cup {NULL}
  /\ requests \in Seq([cmd : Commands, op : Functions, whole : BOOLEAN])
  /\ arriving \in Seq(Tokens) /\ buffer \in Seq(Tokens) /\ up \in BOOLEAN
  /\ store \in Seq(Bytes) \cup {NULL}
  /\ late \in BOOLEAN /\ swallowed \in BOOLEAN

(* As long as every command waits for its reply and no request was cut off and
   then followed by another, a command that succeeds (redis.c) has been executed
   by the server, and its answer is the server's state: a blob that was saved is
   held, one that was deleted is not, and a load takes its length and every byte
   from the one value held, 0 standing for no blob, although the CRLF after a
   bulk may arrive in the middle of a later command. *)
AnswerIsHeld ==
  answer # NULL /\ ~late /\ ~swallowed =>
    CASE op = "hSet"               -> store = Value(cmd)
      [] op \in {"del", "hDel"}     -> store = NULL
      [] op \in {"exists", "hExists"} -> answer.n = IF store = NULL THEN 0 ELSE 1
      [] op = "hGet" ->
           LET n == IF store = NULL THEN 0 ELSE Len(store) - HEADER
           IN answer.n = n /\ answer.bytes = IF n = 0 THEN <<>> ELSE SubSeq(store, 1, n)

(* A save that is cut off is not stored by itself: the server holds one whole
   value of one save, unless it has taken bytes of another command for it. *)
StoredWhole ==
  store # NULL /\ ~swallowed =>
    \E c \in 1..cmd : length[c] # 0 /\ store = Header(length[c] + HEADER) \o Data(c)

(* The program is stopped, by an overrun buffer, a null pointer or a signal,
   only if a blob was saved that is empty or whose header does not fit in twice,
   or if the server closed the connection. *)
Served == 1..(MAX_BLOB_LENGTH - 2 * HEADER)

StopsOnly ==
  pc = "stopped" /\ ~late /\ ~swallowed =>
    \/ ~up
    \/ \E c \in 1..cmd : length[c] \notin Served \cup {0}
    \/ op = "hSet" /\ length[cmd] = 0

(* api.h, "Loads a blob.": under the same provision as AnswerIsHeld, a load
   returns the bytes that were saved. *)
LoadReturnsSaved ==
  answer # NULL /\ op = "hGet" /\ ~late /\ ~swallowed /\ store # NULL =>
    answer.bytes = SubSeq(store, HEADER + 1, Len(store))
=============================================================================
