--------------------------- MODULE ConnectionPool ---------------------------
(***************************************************************************)
(* The connections to one Redis server (connectionpool.c) and the way a    *)
(* worker uses one for a command (redis.c): it takes the connection at the *)
(* head of a doubly linked list, writes its command, waits a bounded time  *)
(* for the reply, and puts the connection back.                            *)
(*                                                                         *)
(* The list is modelled pointer by pointer.  openConnection() and          *)
(* closeConnection() each hold the mutex of the list from end to end, so   *)
(* each is one action.  A request or a reply is the worker it belongs to,  *)
(* or Late once that worker has put the connection back; Cut is the part   *)
(* of a request that a write which failed has sent.                        *)
(***************************************************************************)
EXTENDS Integers, Sequences, FiniteSets, SequencesExt

CONSTANTS
  Workers,
  CONNECTION_NUM,   \* connections of the list
  NULL, header,     \* the null pointer, and the list's header element
  Late,             \* a request or a reply whose worker has gone
  Cut,              \* the beginning of a request that is never completed
  MaxBacklog        \* bound: requests and replies on all connections

ASSUME ConstantsAssumption ==
  /\ IsFiniteSet(Workers) /\ Workers # {}
  /\ CONNECTION_NUM \in Nat \ {0} /\ MaxBacklog \in Nat \ {0}
  /\ Late \notin Workers /\ Cut \notin Workers /\ Cut # Late
  /\ NULL \notin 1..CONNECTION_NUM \cup {header} /\ header \notin 1..CONNECTION_NUM

Connections == 1..CONNECTION_NUM
Nodes       == Connections \cup {header}

(* The constructor's last connection; no code assigns it again. *)
tail == CONNECTION_NUM

VARIABLES
  next, previous,   \* the links
  state,            \* of a connection: "IDLE" or "TRANSFERING"
  requests,         \* of a connection: what the server has not answered yet
  buffer,           \* of a connection: replies in the socket's buffer
  connection,       \* of a worker: what openConnection() gave it
  pc,
  reply,            \* of a worker: the reply it read, or NULL
  exhausted,        \* history: at some time no connection was idle
  clean             \* history: the workers with a connection that had no request
                    \* to be answered, whole or cut off, when they opened it

listVars    == <<next, previous, state>>
historyVars == <<exhausted, clean>>
vars == <<listVars, requests, buffer, connection, pc, reply, historyVars>>

-----------------------------------------------------------------------------
Goto(w, l) == pc' = [pc EXCEPT ![w] = l]

(* if (n) n->link = v; *)
Assign(link, n, v) == IF n = NULL THEN link ELSE [link EXCEPT ![n] = v]

(* Mutant: what is in the buffer stays there. *)
KeepBuffer(c) == UNCHANGED buffer

(* Clears buffer: recv() until nothing is left. *)
ClearBuffer(c) == buffer' = [buffer EXCEPT ![c] = <<>>]

(* Mutant: the list goes on with what followed the connection at the tail. *)
Forward(q) ==
  /\ next' = [next EXCEPT ![header] = next[q], ![tail] = q]
  /\ previous' = [Assign(previous, next[q], header) EXCEPT ![q] = tail]

(* Mutant: the connection that is taken stays at the head. *)
LeaveAtHead(q) == UNCHANGED <<next, previous>>

(* Unlinks the head q, and links it after the connection tail points to. *)
MoveToTail(q) ==
  /\ next' = [next EXCEPT ![header] = next[q], ![tail] = q, ![q] = NULL]
  /\ previous' = [Assign(previous, next[q], header) EXCEPT ![q] = tail]

(* Mutant: the command is executed even on no connection. *)
UseAnyway(q) == "write"

(* if (!connection) return REDIS_FAILED; *)
AfterOpen(q) == IF q = NULL THEN "failed" ELSE "write"

Idle == {c \in Connections : state[c] = "IDLE"}

(* openConnection: the head is taken if it is idle, and returned anyway. *)
Open(w) ==
  LET q == next[header] IN
  /\ pc[w] = "start"
  /\ connection' = [connection EXCEPT ![w] = q]
  /\ IF q # NULL /\ state[q] = "IDLE"
     THEN /\ state' = [state EXCEPT ![q] = "TRANSFERING"]
          /\ ClearBuffer(q) /\ MoveToTail(q)
          /\ exhausted' = (exhausted \/ Idle = {q})
          /\ clean' = IF requests[q] = <<>> THEN clean \cup {w} ELSE clean
     ELSE UNCHANGED <<listVars, buffer, historyVars>>
  /\ Goto(w, AfterOpen(q))
  /\ UNCHANGED <<requests, reply>>

(* There is room for one more request. *)
Room == MapThenSumSet(LAMBDA c : Len(requests[c]) + Len(buffer[c]), Connections) < MaxBacklog

Send(c, r) == requests' = [requests EXCEPT ![c] = Append(@, r)]

(* The command is written to the socket. *)
Write(w) ==
  LET c == connection[w] IN
  /\ pc[w] = "write" /\ Room
  /\ Send(c, w)
  /\ Goto(w, "recv")
  /\ UNCHANGED <<listVars, buffer, connection, reply, historyVars>>

(* A write fails: nothing of the command was sent, or a part. *)
WriteFails(w) ==
  LET c == connection[w] IN
  /\ pc[w] = "write" /\ Goto(w, "close")
  /\ UNCHANGED requests \/ (Room /\ Send(c, Cut))
  /\ UNCHANGED <<listVars, buffer, connection, reply, historyVars>>

(* The server answers the requests of a connection in order; one whose reply has
   arrived in part only is still to be answered. *)
Answer(c) ==
  /\ requests[c] # <<>> /\ Head(requests[c]) # Cut
  /\ requests' = [requests EXCEPT ![c] = Tail(@)]
  /\ buffer' = [buffer EXCEPT ![c] = Append(@, Head(requests[c]))]
  /\ UNCHANGED <<listVars, connection, pc, reply, historyVars>>

(* The bytes of the next request are taken for the rest of one that was cut off.
   That is still not complete, or it is answered; what is then left over of the
   other one is no command, the beginning of one, or answered with an error. *)
Swallow(c) ==
  LET rest == SubSeq(requests[c], 3, Len(requests[c])) IN
  /\ Len(requests[c]) > 1 /\ Head(requests[c]) = Cut
  /\ \/ /\ requests' = [requests EXCEPT ![c] = <<Cut>> \o rest]
        /\ \E replies \in {<<>>, <<Late>>} : buffer' = [buffer EXCEPT ![c] = @ \o replies]
     \/ /\ requests' = [requests EXCEPT ![c] = rest]
        /\ \E replies \in {<<Late>>, <<Late, Late>>} : buffer' = [buffer EXCEPT ![c] = @ \o replies]
  /\ UNCHANGED <<listVars, connection, pc, reply, historyVars>>

(* The first reply in the buffer is taken for the answer; a short reply is
   read together with whatever follows it, and a long one is not. *)
Receive(w) ==
  LET c == connection[w] IN
  /\ pc[w] = "recv" /\ buffer[c] # <<>>
  /\ reply' = [reply EXCEPT ![w] = Head(buffer[c])]
  /\ \E rest \in {Tail(buffer[c]), <<>>} : buffer' = [buffer EXCEPT ![c] = rest]
  /\ Goto(w, "close")
  /\ UNCHANGED <<listVars, requests, connection, historyVars>>

(* The reply is an error, or incomplete, or did not come in time. *)
ReceiveFails(w) ==
  /\ pc[w] = "recv" /\ Goto(w, "close")
  /\ UNCHANGED <<listVars, requests, buffer, connection, reply, historyVars>>

(* Unlinks c from wherever it is, and links it at the head. *)
MoveToHead(c) ==
  LET unlinked == [next EXCEPT ![previous[c]] = next[c]]
      h        == unlinked[header] IN
  /\ next' = [unlinked EXCEPT ![c] = h, ![header] = c]
  /\ previous' = [Assign(Assign(previous, next[c], previous[c]), h, c)
                    EXCEPT ![c] = header]

(* closeConnection; what w was owed on this connection is now late. *)
Close(w) ==
  LET c == connection[w] IN
  /\ pc[w] = "close"
  /\ ClearBuffer(c)
  /\ state' = [state EXCEPT ![c] = "IDLE"]
  /\ MoveToHead(c)
  /\ requests' = [requests EXCEPT ![c] = ReplaceAll(@, w, Late)]
  /\ connection' = [connection EXCEPT ![w] = NULL]
  /\ reply' = [reply EXCEPT ![w] = NULL]
  /\ Goto(w, "start")
  /\ clean' = clean \ {w} /\ UNCHANGED exhausted

(* openConnection() returned NULL, and the command fails. *)
Fail(w) ==
  /\ pc[w] = "failed" /\ Goto(w, "start")
  /\ UNCHANGED <<listVars, requests, buffer, connection, reply, historyVars>>

(* __newConnectionQueue: the connections are linked in order. *)
Init ==
  /\ next = [n \in Nodes |->
       IF n = header THEN 1 ELSE IF n = CONNECTION_NUM THEN NULL ELSE n + 1]
  /\ previous = [c \in Connections |-> IF c = 1 THEN header ELSE c - 1]
  /\ state = [c \in Connections |-> "IDLE"]
  /\ requests = [c \in Connections |-> <<>>]
  /\ buffer = [c \in Connections |-> <<>>]
  /\ connection = [w \in Workers |-> NULL]
  /\ pc = [w \in Workers |-> "start"]
  /\ reply = [w \in Workers |-> NULL]
  /\ exhausted = FALSE /\ clean = {}

Next ==
  \/ \E w \in Workers :
       \/ Open(w) \/ Write(w) \/ WriteFails(w) \/ Receive(w) \/ ReceiveFails(w)
       \/ Close(w) \/ Fail(w)
  \/ \E c \in Connections : Answer(c) \/ Swallow(c)

Spec == Init /\ [][Next]_vars

-----------------------------------------------------------------------------
(* Properties *)

(* The type of the links, of the connections and of the workers; the links that
   are followed blindly are never NULL, and no command runs on no connection. *)
TypeOK ==
  /\ next \in [Nodes -> Connections \cup {NULL}]
  /\ previous \in [Connections -> Nodes]
  /\ state \in [Connections -> {"IDLE", "TRANSFERING"}]
  /\ requests \in [Connections -> Seq(Workers \cup {Late, Cut})]
  /\ buffer \in [Connections -> Seq(Workers \cup {Late})]
  /\ connection \in [Workers -> Connections \cup {NULL}]
  /\ pc \in [Workers -> {"start", "failed", "write", "recv", "close"}]
  /\ reply \in [Workers -> Workers \cup {Late, NULL}]
  /\ exhausted \in BOOLEAN /\ clean \subseteq Workers
  /\ \A w \in Workers : pc[w] \in {"write", "recv", "close"} => connection[w] # NULL

(* L is the list: next leads from the header through the n connections of L, and
   ends; previous leads back. *)
IsList(n, L) ==
  /\ next[header] = IF n = 0 THEN NULL ELSE L[1]
  /\ \A i \in 1..n : /\ next[L[i]] = IF i = n THEN NULL ELSE L[i + 1]
                     /\ previous[L[i]] = IF i = 1 THEN header ELSE L[i - 1]

(* Following next from the header ends, and previous leads back. *)
WellLinked ==
  \E n \in 0..CONNECTION_NUM : \E L \in [1..n -> Connections] : IsList(n, L)

(* As long as an idle connection was left whenever one was taken, no idle one
   is lost: all are in the list, before the busy ones, so openConnection() finds
   one at the head. *)
IdleFirst == ~exhausted =>
  \E n \in 0..CONNECTION_NUM : \E L \in [1..n -> Connections] :
    /\ IsList(n, L)
    /\ \A c \in Idle : \E i \in 1..n : L[i] = c
    /\ \A i, j \in 1..n : i < j /\ state[L[j]] = "IDLE" => state[L[i]] = "IDLE"

(* connectionpool.c:203: what openConnection() returns was idle.  Hence no two
   workers share a connection. *)
RetrievesIdle ==
  /\ \A v, w \in Workers : v # w /\ connection[v] # NULL => connection[v] # connection[w]
  /\ \A w \in Workers : connection[w] # NULL => state[connection[w]] = "TRANSFERING"

(* Under the same provision no two workers share a connection, and only the
   worker that took it puts it back. *)
ExclusiveUse == ~exhausted => RetrievesIdle

(* Under the same provision, a worker reads no reply but that to its own command if
   nothing was left to be answered on its connection when openConnection() cleared
   the buffer: a reply that came too late for its worker, but before that clearing,
   is never taken for another's, although commands that failed leave such replies
   behind.  If a request was left there, given up too soon or cut off by a write that
   failed, the code promises nothing: the worker may read the reply to that one. *)
OwnReply == ~exhausted => \A w \in clean : reply[w] \in {w, NULL}
=============================================================================
