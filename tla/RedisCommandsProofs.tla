------------------------ MODULE RedisCommandsProofs ------------------------
(***************************************************************************)
(* Proofs about RedisCommands, for buffers and headers of any size, any    *)
(* lengths of blobs and any number of commands.                            *)
(***************************************************************************)
EXTENDS RedisCommands, SequenceTheorems, TLAPS

Requests == [cmd : Commands, op : Functions, whole : BOOLEAN]

(* The tokens the server sends: the answer to a command that is not a load is a
   number, a bulk holds at least the header of a blob, or there is none, and only
   a body comes in pieces. *)
Sent == {t \in Tokens : /\ t.kind = "int" => t.n \in Nat
                        /\ t.kind = "bulk" => t.n = -1 \/ t.n >= HEADER
                        /\ t.kind # "body" => t.bytes = <<>>}

(* A command is under way, or none. *)
Busy == pc # "idle" => cmd \in Commands

(* What a load goes by is long enough for a header, and what it hands over has
   been received. *)
Sized ==
  /\ op = "hGet" /\ pc \in {"body", "result"} => received.n >= HEADER
  /\ op = "hGet" /\ pc = "result" =>
       received.n = HEADER \/ Len(received.bytes) = received.n
  /\ store # NULL => store \in Seq(Bytes) /\ Len(store) >= HEADER

Typed ==
  /\ TypeOK /\ Busy /\ Sized
  /\ arriving \in Seq(Sent) /\ buffer \in Seq(Sent)

-----------------------------------------------------------------------------
(* A header is HEADER bytes. *)
LEMMA HeaderBytes ==
  ASSUME NEW n \in Nat
  PROVE  Header(n) \in Seq(Bytes) /\ Len(Header(n)) = HEADER
         /\ Header(n)[1] = <<"length", n, 1>>
<1>1. HEADER \in Nat /\ 1 \in 1..HEADER
  BY ConstantsAssumption
<1>2. \A i \in 1..HEADER : <<"length", n, i>> \in Bytes
  BY <1>1 DEF Bytes
<1>3. Header(n) \in [1..HEADER -> Bytes]
  BY <1>2 DEF Header
<1> QED
  BY <1>1, <1>3 DEF Header

(* The value of a save is its header and its data, as long as the header says. *)
LEMMA ValueBytes ==
  ASSUME TypeOK, NEW c \in Commands
  PROVE  /\ length[c] \in Nat
         /\ Data(c) \in Seq(Bytes) /\ Len(Data(c)) = length[c]
         /\ Value(c) \in Seq(Bytes) /\ Len(Value(c)) = length[c] + HEADER
         /\ ValueLength(c) = length[c] + HEADER
<1>1. HEADER \in Nat \ {0} /\ length[c] \in Nat /\ c \in Nat
  <2>1. length \in [Commands -> Lengths \cup {0}] /\ Lengths \subseteq Nat
    BY ConstantsAssumption DEF TypeOK
  <2>2. length[c] \in Lengths \cup {0}
    BY <2>1
  <2>3. length[c] \in Nat
    <3>1. 0 \in Nat
      OBVIOUS
    <3> QED
      BY <2>1, <2>2, <3>1, Zenon
  <2> QED
    BY <2>3, ConstantsAssumption DEF Commands
<1>2. \A i \in 1..length[c] : <<"data", c, i>> \in Bytes
  BY <1>1 DEF Bytes
<1>3. Data(c) \in [1..length[c] -> Bytes]
  BY <1>2 DEF Data
<1>4. Data(c) \in Seq(Bytes) /\ Len(Data(c)) = length[c]
  BY <1>1, <1>3
<1>5. PICK n : n = length[c] + HEADER
  OBVIOUS
<1>6. Header(n) \in Seq(Bytes) /\ Len(Header(n)) = HEADER /\ Header(n)[1] = <<"length", n, 1>>
  BY <1>1, <1>5, HeaderBytes
<1>7. /\ Value(c) \in Seq(Bytes) /\ Len(Value(c)) = length[c] + HEADER
      /\ Value(c)[1] = <<"length", n, 1>>
  <2>1. PICK h, d : h = Header(n) /\ d = Data(c)
    OBVIOUS
  <2>2. h \in Seq(Bytes) /\ d \in Seq(Bytes) /\ Len(h) = HEADER /\ Len(d) = length[c]
        /\ h[1] = <<"length", n, 1>> /\ Value(c) = h \o d
    BY <1>4, <1>5, <1>6, <2>1 DEF Value
  <2>3. /\ h \o d \in Seq(Bytes) /\ Len(h \o d) = Len(h) + Len(d)
        /\ \A i \in 1..Len(h) + Len(d) : (h \o d)[i] = IF i <= Len(h) THEN h[i] ELSE d[i - Len(h)]
    BY <2>2, ConcatProperties
  <2>4. 1 \in 1..Len(h) + Len(d) /\ 1 <= Len(h)
    BY <1>1, <2>2
  <2>5. (h \o d)[1] = h[1]
    BY <2>3, <2>4
  <2> QED
    BY <1>1, <2>2, <2>3, <2>5
<1>8. Head(Value(c)) = <<"length", n, 1>>
  BY <1>1, <1>7
<1> QED
  BY <1>1, <1>4, <1>5, <1>7, <1>8 DEF ValueLength

(* A value whose bytes are partly those of other commands is as long. *)
LEMMA MixedBytes ==
  ASSUME TypeOK, NEW c \in Commands
  PROVE  Mixed(c) \in Seq(Bytes) /\ Len(Mixed(c)) = length[c] + HEADER
<1>1. PICK n : n = ValueLength(c)
  OBVIOUS
<1>2. n \in Nat /\ n = length[c] + HEADER /\ c \in Nat
  BY <1>1, ValueBytes, ConstantsAssumption DEF Commands
<1>3. \A i \in 1..n : <<"alien", c, i>> \in Bytes
  BY <1>2 DEF Bytes
<1>4. Mixed(c) \in [1..n -> Bytes]
  BY <1>1, <1>3 DEF Mixed
<1> QED
  BY <1>2, <1>4

(* What the server sends for a request, whatever it holds. *)
LEMMA TokenSent ==
  ASSUME NEW c \in Commands, NEW kind \in {"int", "bulk", "body", "crlf", "error"},
         NEW n \in Int, NEW bytes \in Seq(Bytes),
         kind = "int" => n \in Nat, kind = "bulk" => n = -1 \/ n >= HEADER,
         kind # "body" => bytes = <<>>
  PROVE  Token(kind, c, n, bytes) \in Sent
BY DEF Token, Sent, Tokens

(* A piece of a body is something the server sends. *)
LEMMA PieceSent ==
  ASSUME NEW t \in Sent, t.kind = "body", NEW bytes \in Seq(Bytes)
  PROVE  [t EXCEPT !.bytes = bytes] \in Sent
BY DEF Sent, Tokens

(* The receive buffer holds what the server sends. *)
LEMMA ArrivedSent ==
  ASSUME buffer \in Seq(Sent), NEW t \in Sent
  PROVE  Arrived(t) \in Seq(Sent)
<1>1. CASE t.kind = "body" /\ buffer # <<>> /\ Last(buffer).kind = "body"
  <2>1. Len(buffer) \in Nat \ {0} /\ \A i \in 1..Len(buffer) : buffer[i] \in Sent
    BY <1>1, EmptySeq, ElementOfSeq
  <2>2. PICK l \in Sent : l = Last(buffer)
    BY <2>1 DEF Last
  <2>3. PICK front : front = Front(buffer)
    OBVIOUS
  <2>4. front \in Seq(Sent)
    BY <2>1, <2>3, SubSeqProperties DEF Front
  <2>5. l.bytes \in Seq(Bytes) /\ t.bytes \in Seq(Bytes)
    BY <2>2 DEF Sent, Tokens
  <2>6. l.bytes \o t.bytes \in Seq(Bytes)
    BY <2>5, ConcatProperties
  <2>7. PICK u \in Sent : u = [t EXCEPT !.bytes = l.bytes \o @]
    BY <1>1, <2>6, PieceSent
  <2>8. Arrived(t) = Append(front, u)
    BY <1>1, <2>2, <2>3, <2>7 DEF Arrived
  <2> QED
    BY <2>4, <2>8, AppendProperties
<1>2. CASE ~(t.kind = "body" /\ buffer # <<>> /\ Last(buffer).kind = "body")
  <2>1. Arrived(t) = Append(buffer, t)
    BY <1>2 DEF Arrived
  <2> QED
    BY <2>1, AppendProperties
<1> QED
  BY <1>1, <1>2

(* The first piece of a sequence of bytes and what is left of it. *)
LEMMA Pieces ==
  ASSUME NEW bytes \in Seq(Bytes), NEW k \in 1..(Len(bytes) - 1)
  PROVE  /\ SubSeq(bytes, 1, k) \in Seq(Bytes)
         /\ SubSeq(bytes, k + 1, Len(bytes)) \in Seq(Bytes)
<1>1. Len(bytes) \in Nat /\ \A i \in 1..Len(bytes) : bytes[i] \in Bytes
  BY LenProperties, ElementOfSeq
<1>2. \A i \in 1..k : bytes[i] \in Bytes
  BY <1>1
<1>3. \A i \in (k + 1)..Len(bytes) : bytes[i] \in Bytes
  BY <1>1
<1> QED
  BY <1>1, <1>2, <1>3, SubSeqProperties

-----------------------------------------------------------------------------
(* Types hold initially. *)
LEMMA InitTyped == Init => Typed
<1> SUFFICES ASSUME Init PROVE Typed
  OBVIOUS
<1> USE DEF Init
<1>1. 0 \in 0..MaxCommands /\ "exists" \in Functions
  BY ConstantsAssumption DEF Functions
<1>2. length \in [Commands -> Lengths \cup {0}]
  BY DEF Commands
<1>3. received \in [from : Commands \cup {NULL}, n : Nat, bytes : Seq(Bytes)]
  BY DEF NoBytes
<1>4. <<>> \in Seq(Requests) /\ <<>> \in Seq(Tokens) /\ <<>> \in Seq(Sent)
  BY EmptySeq
<1>5. TypeOK
  BY <1>1, <1>2, <1>3, <1>4 DEF TypeOK, Requests
<1> QED
  BY <1>4, <1>5 DEF Typed, Busy, Sized

(* A sequence of tokens that are sent is a sequence of tokens. *)
LEMMA SentTokens == Seq(Sent) \subseteq Seq(Tokens)
<1>1. Sent \subseteq Tokens
  BY DEF Sent
<1> QED
  BY <1>1, SeqMonotonic

(* A request goes after those under way, or nowhere. *)
LEMMA SendTyped ==
  ASSUME TypeOK, NEW whole \in BOOLEAN, Send(whole), cmd \in Commands
  PROVE  requests' \in Seq(Requests)
<1>1. PICK r : r = [cmd |-> cmd, op |-> op, whole |-> whole]
  OBVIOUS
<1>2. r \in Requests /\ requests \in Seq(Requests)
  BY <1>1 DEF TypeOK, Requests
<1>3. requests' = IF up THEN Append(requests, r) ELSE requests
  BY <1>1 DEF Send
<1> QED
  BY <1>2, <1>3, AppendProperties

(* What the worker of a command does keeps the types. *)
LEMMA CommandTyped ==
  ASSUME Typed, del \/ exists \/ hDel \/ hExists \/ hGet \/ hSet
  PROVE  Typed'
<1> USE DEF Typed, Busy, Goto
<1>0. HEADER \in Nat /\ MAX_BLOB_LENGTH \in Nat /\ HEADER < MAX_BLOB_LENGTH
  BY ConstantsAssumption
<1>1. ASSUME Open PROVE Typed'
  <2>1. <<>> \in Seq(Tokens) /\ <<>> \in Seq(Sent)
    BY EmptySeq
  <2> QED
    BY <1>1, <2>1 DEF Open, Clear, TypeOK, Sized, history
<1>2. ASSUME WriteCommand PROVE Typed'
  <2>1. requests' \in Seq(Requests)
    BY <1>2, SendTyped DEF WriteCommand
  <2> QED
    BY <1>2, <2>1 DEF WriteCommand, TypeOK, Sized, Requests, history
<1>3. ASSUME WriteMeta \/ WriteValue PROVE Typed'
  BY <1>3 DEF WriteMeta, WriteValue, TypeOK, Sized, wire, history
<1>4. ASSUME WriteEnd PROVE Typed'
  <2>1. requests' \in Seq(Requests)
    BY <1>4, SendTyped DEF WriteEnd
  <2> QED
    BY <1>4, <2>1 DEF WriteEnd, TypeOK, Sized, Requests, history
<1>5. ASSUME WriteFails PROVE Typed'
  <2>1. requests' \in Seq(Requests)
    BY <1>5, SendTyped DEF WriteFails, Writing, TypeOK, Requests
  <2> QED
    BY <1>5, <2>1 DEF WriteFails, Writing, TypeOK, Sized, Requests, history
<1>6. ASSUME BrokenPipe PROVE Typed'
  BY <1>6 DEF BrokenPipe, Writing, TypeOK, Sized, wire, history
<1>7. ASSUME RecvInt PROVE Typed'
  <2>1. PICK t \in Sent : t = Head(buffer)
    BY <1>7, HeadTailProperties DEF RecvInt
  <2>2. received' \in [from : Commands \cup {NULL}, n : Nat, bytes : Seq(Bytes)]
    <3>1. CASE t.kind = "int"
      <4>1. received' = [from |-> t.of, n |-> t.n, bytes |-> <<>>]
        BY <1>7, <2>1, <3>1 DEF RecvInt
      <4>2. t.of \in Commands /\ t.n \in Nat
        BY <3>1 DEF Sent, Tokens
      <4> QED
        BY <4>1, <4>2
    <3>2. CASE t.kind # "int"
      BY <1>7, <2>1, <3>2 DEF RecvInt, TypeOK
    <3> QED
      BY <3>1, <3>2
  <2>3. <<>> \in Seq(Tokens) /\ <<>> \in Seq(Sent)
    BY EmptySeq
  <2>4. pc' \in {"result", "close"} /\ cmd \in Commands
    BY <1>7 DEF RecvInt
  <2> QED
    BY <1>7, <2>2, <2>3, <2>4 DEF RecvInt, Clear, TypeOK, Sized, history
<1>8. ASSUME RecvLength PROVE Typed'
  <2>1. PICK t \in Sent : t = Head(buffer)
    BY <1>8, HeadTailProperties DEF RecvLength
  <2>2. Tail(buffer) \in Seq(Sent)
    BY <1>8, HeadTailProperties DEF RecvLength
  <2>3. CASE t.kind = "bulk"
    <3>1. PICK n : n = BulkLength(t.n)
      OBVIOUS
    <3>2. t.n \in Int /\ (t.n = -1 \/ t.n >= HEADER) /\ t.of \in Commands
      BY <2>3 DEF Sent, Tokens
    <3>3. n \in Nat /\ n >= HEADER
      BY <1>0, <3>1, <3>2 DEF BulkLength
    <3>4. /\ buffer' = Tail(buffer)
          /\ received' = [from |-> t.of, n |-> n, bytes |-> <<>>]
          /\ pc' = IF n = HEADER THEN "result" ELSE "body"
          /\ UNCHANGED <<cmd, op, length, answer, requests, arriving, up, store, history>>
      BY <1>8, <2>1, <2>3, <3>1 DEF RecvLength
    <3>5. received' \in [from : Commands \cup {NULL}, n : Nat, bytes : Seq(Bytes)]
      BY <3>2, <3>3, <3>4
    <3>6. Busy' /\ Sized'
      BY <1>8, <3>3, <3>4 DEF Sized, RecvLength
    <3>7. TypeOK'
      BY <2>2, <3>4, <3>5, SentTokens DEF TypeOK, history
    <3> QED
      BY <2>2, <3>4, <3>6, <3>7
  <2>4. CASE t.kind # "bulk"
    BY <1>8, <2>1, <2>4 DEF RecvLength, TypeOK, Sized, history
  <2> QED
    BY <2>3, <2>4
<1>9. ASSUME op = "hGet", RecvBody PROVE Typed'
  <2>1. PICK t \in Sent : t = Head(buffer)
    BY <1>9, HeadTailProperties DEF RecvBody
  <2>2. PICK rest : rest = Tail(buffer)
    OBVIOUS
  <2>3. rest \in Seq(Sent)
    BY <1>9, <2>2, HeadTailProperties DEF RecvBody
  <2>4. TrailingTaken(rest) \in Seq(Sent)
    BY <2>3, HeadTailProperties DEF TrailingTaken
  <2>5. PICK bytes : bytes = received.bytes \o t.bytes
    OBVIOUS
  <2>6. bytes \in Seq(Bytes)
    <3>1. received.bytes \in Seq(Bytes) /\ t.bytes \in Seq(Bytes)
      BY DEF TypeOK, Sent, Tokens
    <3> QED
      BY <2>5, <3>1, ConcatProperties
  <2>7. /\ received' = [received EXCEPT !.bytes = bytes]
        /\ \/ pc' = "stopped" /\ buffer' = rest
           \/ Len(bytes) = received.n /\ pc' = "result" /\ buffer' = TrailingTaken(rest)
           \/ pc' = pc /\ buffer' = rest
        /\ UNCHANGED <<cmd, op, length, answer, requests, arriving, up, store, history>>
        /\ pc = "body"
    BY <1>9, <2>1, <2>2, <2>5 DEF RecvBody
  <2>8. /\ received' \in [from : Commands \cup {NULL}, n : Nat, bytes : Seq(Bytes)]
        /\ received'.n = received.n /\ received'.bytes = bytes
    BY <2>6, <2>7 DEF TypeOK
  <2>9. buffer' \in Seq(Sent)
    BY <2>3, <2>4, <2>7
  <2>10. Busy' /\ Sized'
    BY <2>7, <2>8 DEF Sized
  <2>11. TypeOK'
    BY <2>7, <2>8, <2>9, SentTokens DEF TypeOK, history
  <2> QED
    BY <2>7, <2>9, <2>10, <2>11
<1>10. ASSUME RecvFails PROVE Typed'
  BY <1>10 DEF RecvFails, TypeOK, Sized, wire, history
<1>11. ASSUME WriteResult PROVE Typed'
  <2>1. received.n \in Nat /\ received.bytes \in Seq(Bytes)
    BY DEF TypeOK
  <2>2. answer' \in [n : Nat, bytes : Seq(Bytes)] \cup {NULL}
    <3>1. CASE answer' = answer
      BY <3>1 DEF TypeOK
    <3>2. CASE op = "hGet" /\ answer' = [n |-> received.n - HEADER, bytes |-> Loaded]
      <4>1. received.n >= HEADER /\ (received.n = HEADER \/ Len(received.bytes) = received.n)
        BY <1>11, <3>2 DEF WriteResult, Sized
      <4>2. PICK n, h : n = received.n /\ h = Header(n)
        OBVIOUS
      <4>3. h \in Seq(Bytes) /\ Len(h) = HEADER
        BY <2>1, <4>2, HeaderBytes
      <4>4. PICK s : s = h \o received.bytes
        OBVIOUS
      <4>5. s \in Seq(Bytes) /\ Len(s) = HEADER + Len(received.bytes)
        BY <2>1, <4>3, <4>4, ConcatProperties
      <4>6. \A i \in (HEADER + 1)..n : s[i] \in Bytes
        <5>1. Len(received.bytes) \in Nat
          BY <2>1, LenProperties
        <5>2. (HEADER + 1)..n \subseteq 1..Len(s)
          BY <1>0, <2>1, <4>1, <4>2, <4>5, <5>1
        <5> QED
          BY <4>5, <5>2, ElementOfSeq
      <4>7. SubSeq(s, HEADER + 1, n) \in Seq(Bytes)
        <5>1. HEADER + 1 \in Int /\ n \in Int
          BY <1>0, <2>1, <4>2
        <5> QED
          BY <4>6, <5>1, SubSeqProperties
      <4>8. Loaded = SubSeq(s, HEADER + 1, n)
        BY <4>2, <4>4 DEF Loaded
      <4>9. received.n - HEADER \in Nat
        BY <1>0, <2>1, <4>1
      <4> QED
        BY <3>2, <4>7, <4>8, <4>9
    <3>3. CASE answer' = [n |-> received.n, bytes |-> <<>>]
      BY <2>1, <3>3
    <3> QED
      BY <1>11, <3>1, <3>2, <3>3 DEF WriteResult
  <2> QED
    BY <1>11, <2>2 DEF WriteResult, TypeOK, Sized, wire, history
<1>12. ASSUME Close PROVE Typed'
  <2>1. <<>> \in Seq(Tokens) /\ <<>> \in Seq(Sent)
    BY EmptySeq
  <2>2. late' \in BOOLEAN
    BY <1>12 DEF Close, TypeOK
  <2> QED
    BY <1>12, <2>1, <2>2 DEF Close, Clear, TypeOK, Sized
<1> QED
  BY <1>1, <1>2, <1>3, <1>4, <1>5, <1>6, <1>7, <1>8, <1>9, <1>10, <1>11, <1>12
  DEF del, exists, hDel, hExists, hGet, hSet, IntCommand

(* A save that is executed stores its value, whole. *)
LEMMA SaveStores ==
  ASSUME TypeOK, NEW r \in Requests, r.op = "hSet"
  PROVE  Effect(r) = Value(r.cmd)
<1>1. r.cmd \in Commands
  BY DEF Requests
<1>2. PICK v : v = Value(r.cmd)
  OBVIOUS
<1>3. v \in Seq(Bytes) /\ ValueLength(r.cmd) = Len(v)
  BY <1>1, <1>2, ValueBytes
<1>4. SubSeq(v, 1, Len(v)) = v
  BY <1>3, SubSeqFull
<1> QED
  BY <1>2, <1>3, <1>4 DEF Effect

(* What the server holds after a request is executed. *)
LEMMA EffectTyped ==
  ASSUME Typed, NEW r \in Requests
  PROVE  Effect(r) = NULL \/ (Effect(r) \in Seq(Bytes) /\ Len(Effect(r)) >= HEADER)
<1>1. r.cmd \in Commands
  BY DEF Requests
<1>2. CASE r.op = "hSet"
  <2>1. Value(r.cmd) \in Seq(Bytes) /\ Len(Value(r.cmd)) = length[r.cmd] + HEADER
        /\ length[r.cmd] \in Nat
    BY <1>1, ValueBytes DEF Typed
  <2>2. Effect(r) = Value(r.cmd)
    BY <1>2, SaveStores DEF Typed
  <2> QED
    BY <2>1, <2>2, ConstantsAssumption
<1>3. CASE r.op \in {"del", "hDel"}
  BY <1>3 DEF Effect
<1>4. CASE r.op \notin {"hSet", "del", "hDel"}
  BY <1>4 DEF Effect, Typed, Sized
<1> QED
  BY <1>2, <1>3, <1>4

(* What the server sends back is a sequence of tokens. *)
LEMMA ReplySent ==
  ASSUME Typed, NEW r \in Requests
  PROVE  Reply(r) \in Seq(Sent) /\ Error(r.cmd) \in Seq(Sent)
<1>1. r.cmd \in Commands /\ <<>> \in Seq(Bytes) /\ 0 \in Int /\ 0 \in Nat /\ 1 \in Nat
      /\ -1 \in Int /\ HEADER \in Nat
  BY ConstantsAssumption DEF Requests
<1>2. Error(r.cmd) \in Seq(Sent)
  <2>1. PICK t : t = Token("error", r.cmd, 0, <<>>)
    OBVIOUS
  <2>2. t \in Sent
    BY <1>1, <2>1, TokenSent
  <2>3. Error(r.cmd) = <<t>>
    BY <2>1 DEF Error
  <2> QED
    BY <2>2, <2>3
<1>3. CASE r.op # "hGet"
  <2>1. PICK n \in {0, 1} : n = IF store = NULL THEN 0 ELSE 1
    OBVIOUS
  <2>2. PICK t : t = Token("int", r.cmd, n, <<>>)
    OBVIOUS
  <2>3. t \in Sent
    <3>1. n \in Int /\ n \in Nat
      OBVIOUS
    <3> QED
      BY <1>1, <2>2, <3>1, TokenSent
  <2>4. Reply(r) = <<t>>
    BY <1>3, <2>1, <2>2 DEF Reply
  <2> QED
    BY <1>2, <2>3, <2>4
<1>4. CASE r.op = "hGet" /\ store = NULL
  <2>1. PICK t : t = Token("bulk", r.cmd, -1, <<>>)
    OBVIOUS
  <2>2. t \in Sent
    BY <1>1, <2>1, TokenSent
  <2>3. Reply(r) = <<t>>
    BY <1>4, <2>1 DEF Reply
  <2> QED
    BY <1>2, <2>2, <2>3
<1>5. CASE r.op = "hGet" /\ store # NULL
  <2>1. store \in Seq(Bytes) /\ Len(store) \in Nat /\ Len(store) >= HEADER
    BY <1>5, LenProperties DEF Typed, Sized
  <2>0. PICK n \in Int : n = Len(store) /\ n >= HEADER
    BY <2>1
  <2>2. PICK bulk, body, crlf : /\ bulk = Token("bulk", r.cmd, n, <<>>)
                                /\ body = Token("body", r.cmd, 0, store)
                                /\ crlf = Token("crlf", r.cmd, 0, <<>>)
    OBVIOUS
  <2>3. bulk \in Sent
    BY <1>1, <2>0, <2>2, TokenSent
  <2>4. body \in Sent /\ crlf \in Sent
    BY <1>1, <2>1, <2>2, TokenSent
  <2>5. Reply(r) = <<bulk, body, crlf>>
    BY <1>5, <2>0, <2>2 DEF Reply
  <2>6. <<bulk, body, crlf>> \in Seq(Sent)
    BY <2>3, <2>4
  <2> QED
    BY <1>2, <2>5, <2>6
<1> QED
  BY <1>3, <1>4, <1>5

(* What the server and the network do keeps the types. *)
LEMMA ServerTyped ==
  ASSUME Typed, Execute \/ Swallow \/ Arrive \/ ServerCloses
  PROVE  Typed'
<1> USE DEF Typed, Busy
<1>0. requests \in Seq(Requests)
  BY DEF TypeOK, Requests
<1>1. ASSUME Execute PROVE Typed'
  <2>1. PICK r \in Requests : r = Head(requests)
    BY <1>0, <1>1, HeadTailProperties DEF Execute
  <2>2. Tail(requests) \in Seq(Requests)
    BY <1>0, <1>1, HeadTailProperties DEF Execute
  <2>3. \/ store' = Effect(r) /\ arriving' = arriving \o Reply(r)
        \/ store' = store /\ arriving' = arriving \o Error(r.cmd)
    BY <1>1, <2>1 DEF Execute
  <2>4. store' \in Seq(Bytes) \cup {NULL} /\ (store' # NULL => Len(store') >= HEADER)
    BY <2>3, EffectTyped DEF TypeOK, Sized
  <2>5. arriving' \in Seq(Sent)
    <3>1. Reply(r) \in Seq(Sent) /\ Error(r.cmd) \in Seq(Sent)
      BY ReplySent
    <3>2. arriving \o Reply(r) \in Seq(Sent) /\ arriving \o Error(r.cmd) \in Seq(Sent)
      BY <3>1, ConcatProperties
    <3> QED
      BY <2>3, <3>2
  <2>6. /\ requests' \in Seq(Requests)
        /\ UNCHANGED <<cmd, op, length, pc, received, answer, buffer, up, late, swallowed>>
    BY <1>1, <2>2 DEF Execute, client, history
  <2>7. TypeOK'
    BY <2>4, <2>5, <2>6, SentTokens DEF TypeOK, Requests
  <2>8. Sized'
    BY <2>4, <2>6 DEF Sized
  <2> QED
    BY <2>5, <2>6, <2>7, <2>8
<1>2. ASSUME Swallow PROVE Typed'
  <2>1. Len(requests) \in Nat /\ Len(requests) > 1 /\ requests # <<>>
    BY <1>0, <1>2, EmptySeq, LenProperties, SMTT(30) DEF Swallow
  <2>2. PICK r \in Requests : r = Head(requests)
    BY <1>0, <2>1, HeadTailProperties
  <2>3. PICK s \in Requests : s = requests[2]
    BY <1>0, <2>1, ElementOfSeq
  <2>4. PICK rest : rest = SubSeq(requests, 3, Len(requests))
    OBVIOUS
  <2>5. rest \in Seq(Requests)
    <3>1. \A i \in 3..Len(requests) : requests[i] \in Requests
      BY <1>0, <2>1, ElementOfSeq
    <3> QED
      BY <2>1, <2>4, <3>1, SubSeqProperties
  <2>6. /\ swallowed' = TRUE
        /\ \/ requests' = <<r>> \o rest /\ UNCHANGED <<store, arriving>>
           \/ /\ requests' = rest
              /\ store' = IF r.op = "hSet" THEN Mixed(r.cmd) ELSE store
              /\ \E t \in {Token("int", r.cmd, 0, <<>>), Token("bulk", r.cmd, -1, <<>>)} :
                   arriving' \in {arriving \o <<t>>, arriving \o <<t>> \o Error(s.cmd)}
        /\ UNCHANGED <<cmd, op, length, pc, received, answer, buffer, up, late>>
    BY <1>2, <2>2, <2>3, <2>4 DEF Swallow, client
  <2>7. requests' \in Seq(Requests)
    <3>1. <<r>> \in Seq(Requests)
      OBVIOUS
    <3>2. <<r>> \o rest \in Seq(Requests)
      BY <2>5, <3>1, ConcatProperties
    <3> QED
      BY <2>5, <2>6, <3>2
  <2>8. store' \in Seq(Bytes) \cup {NULL} /\ (store' # NULL => Len(store') >= HEADER)
    <3>1. r.cmd \in Commands
      BY DEF Requests
    <3>2. Mixed(r.cmd) \in Seq(Bytes) /\ Len(Mixed(r.cmd)) = length[r.cmd] + HEADER
          /\ length[r.cmd] \in Nat
      BY <3>1, MixedBytes, ValueBytes
    <3>3. Len(Mixed(r.cmd)) >= HEADER
      BY <3>2, ConstantsAssumption
    <3> QED
      BY <2>6, <3>2, <3>3 DEF TypeOK, Sized
  <2>9. arriving' \in Seq(Sent)
    <3>1. CASE arriving' = arriving
      BY <3>1
    <3>2. CASE arriving' # arriving
      <4>1. PICK t \in {Token("int", r.cmd, 0, <<>>), Token("bulk", r.cmd, -1, <<>>)} :
              arriving' \in {arriving \o <<t>>, arriving \o <<t>> \o Error(s.cmd)}
        BY <2>6, <3>2
      <4>2. r.cmd \in Commands /\ <<>> \in Seq(Bytes) /\ 0 \in Int /\ 0 \in Nat /\ -1 \in Int
        BY DEF Requests
      <4>3. Token("int", r.cmd, 0, <<>>) \in Sent /\ Token("bulk", r.cmd, -1, <<>>) \in Sent
        BY <4>2, TokenSent
      <4>4. <<t>> \in Seq(Sent)
        BY <4>1, <4>3
      <4>5. arriving \o <<t>> \in Seq(Sent)
        BY <4>4, ConcatProperties
      <4>6. Error(s.cmd) \in Seq(Sent)
        BY ReplySent
      <4>7. arriving \o <<t>> \o Error(s.cmd) \in Seq(Sent)
        BY <4>5, <4>6, ConcatProperties
      <4> QED
        BY <4>1, <4>5, <4>7
    <3> QED
      BY <3>1, <3>2
  <2>10. TypeOK'
    BY <2>6, <2>7, <2>8, <2>9, SentTokens DEF TypeOK, Requests
  <2>11. Sized'
    BY <2>6, <2>8 DEF Sized
  <2> QED
    BY <2>6, <2>9, <2>10, <2>11
<1>3. ASSUME Arrive PROVE Typed'
  <2>1. PICK t \in Sent : t = Head(arriving)
    BY <1>3, HeadTailProperties DEF Arrive
  <2>2. PICK rest : rest = Tail(arriving)
    OBVIOUS
  <2>3. rest \in Seq(Sent)
    BY <1>3, <2>2, HeadTailProperties DEF Arrive
  <2>4. /\ \/ buffer' = Arrived(t) /\ arriving' = rest
           \/ \E k \in 1..(Len(t.bytes) - 1) :
                /\ buffer' = Arrived([t EXCEPT !.bytes = SubSeq(@, 1, k)])
                /\ arriving' = <<[t EXCEPT !.bytes = SubSeq(@, k + 1, Len(@))]>> \o rest
        /\ UNCHANGED <<cmd, op, length, pc, received, answer, requests, up, store, late, swallowed>>
    BY <1>3, <2>1, <2>2 DEF Arrive, client, history
  <2>5. buffer' \in Seq(Sent) /\ arriving' \in Seq(Sent)
    <3>1. CASE buffer' = Arrived(t) /\ arriving' = rest
      BY <2>3, <3>1, ArrivedSent
    <3>2. ASSUME NEW k \in 1..(Len(t.bytes) - 1),
                 buffer' = Arrived([t EXCEPT !.bytes = SubSeq(@, 1, k)]),
                 arriving' = <<[t EXCEPT !.bytes = SubSeq(@, k + 1, Len(@))]>> \o rest
          PROVE  buffer' \in Seq(Sent) /\ arriving' \in Seq(Sent)
      <4>0. t.kind = "body"
        <5>1. Len(<<>>) = 0
          OBVIOUS
        <5> QED
          BY <5>1 DEF Sent
      <4>1. t.bytes \in Seq(Bytes)
        BY DEF Sent, Tokens
      <4>2. /\ SubSeq(t.bytes, 1, k) \in Seq(Bytes)
            /\ SubSeq(t.bytes, k + 1, Len(t.bytes)) \in Seq(Bytes)
        BY <3>2, <4>1, Pieces
      <4>3. PICK u \in Sent : u = [t EXCEPT !.bytes = SubSeq(@, 1, k)]
        BY <4>0, <4>2, PieceSent
      <4>4. PICK v \in Sent : v = [t EXCEPT !.bytes = SubSeq(@, k + 1, Len(@))]
        BY <4>0, <4>2, PieceSent
      <4>5. buffer' \in Seq(Sent)
        BY <3>2, <4>3, ArrivedSent
      <4>6. <<v>> \in Seq(Sent)
        OBVIOUS
      <4>7. <<v>> \o rest \in Seq(Sent)
        BY <2>3, <4>6, ConcatProperties
      <4> QED
        BY <3>2, <4>4, <4>5, <4>7
    <3> QED
      BY <2>4, <3>1, <3>2
  <2>6. TypeOK'
    BY <2>4, <2>5, SentTokens DEF TypeOK
  <2> QED
    BY <2>4, <2>5, <2>6 DEF Sized
<1>4. ASSUME ServerCloses PROVE Typed'
  <2>1. /\ requests' = <<>> /\ arriving' \in {arriving, <<>>} /\ up' = FALSE
        /\ UNCHANGED <<cmd, op, length, pc, received, answer, buffer, store, late, swallowed>>
    BY <1>4 DEF ServerCloses, client, history
  <2>2. <<>> \in Seq(Requests) /\ <<>> \in Seq(Sent)
    BY EmptySeq
  <2>3. arriving' \in Seq(Sent)
    BY <2>1, <2>2
  <2>4. TypeOK'
    BY <2>1, <2>2, <2>3, SentTokens DEF TypeOK, Requests
  <2> QED
    BY <2>1, <2>3, <2>4 DEF Sized
<1> QED
  BY <1>1, <1>2, <1>3, <1>4

(* A new command keeps the types. *)
LEMMA NewTyped ==
  ASSUME Typed, NEW f \in Functions, NEW n \in IF f = "hSet" THEN Lengths ELSE {0},
         NewCommand(f, n)
  PROVE  Typed'
<1>1. /\ cmd' = cmd + 1 /\ op' = f /\ length' = [length EXCEPT ![cmd + 1] = n]
      /\ answer' = NULL /\ received' = NoBytes /\ pc' \in {"stopped", "open"}
      /\ UNCHANGED <<requests, arriving, buffer, up, store, late, swallowed>>
  BY DEF NewCommand, Goto, wire, history
<1>2. cmd + 1 \in Commands /\ cmd + 1 \in 0..MaxCommands
  BY ConstantsAssumption DEF NewCommand, Typed, TypeOK, Commands
<1>3. n \in Lengths \cup {0}
  OBVIOUS
<1>4. length' \in [Commands -> Lengths \cup {0}]
  BY <1>1, <1>2, <1>3 DEF Typed, TypeOK
<1>5. received' \in [from : Commands \cup {NULL}, n : Nat, bytes : Seq(Bytes)]
  BY <1>1 DEF NoBytes
<1>6. TypeOK'
  BY <1>1, <1>2, <1>4, <1>5 DEF Typed, TypeOK
<1> QED
  BY <1>1, <1>2, <1>6 DEF Typed, Busy, Sized

(* Types are kept. *)
LEMMA StepTyped == Typed /\ [Next]_vars => Typed'
<1> SUFFICES ASSUME Typed, [Next]_vars PROVE Typed'
  OBVIOUS
<1>1. CASE UNCHANGED vars
  BY <1>1 DEF vars, client, wire, history, Typed, TypeOK, Busy, Sized
<1> QED
  BY <1>1, NewTyped, CommandTyped, ServerTyped DEF Next

(* Every value has its type; no load hands over bytes it did not receive, and the
   server never holds less than the header of a blob. *)
THEOREM TypedInv == Spec => []Typed
BY InitTyped, StepTyped, PTL DEF Spec

(* What the run checks as TypeOK, for buffers, headers and blobs of any size. *)
THEOREM TypeCorrect == Spec => []TypeOK
<1>1. Typed => TypeOK
  BY DEF Typed
<1> QED
  BY <1>1, TypedInv, PTL

-----------------------------------------------------------------------------
(* A blob that was saved is not empty and fits into a buffer with its header. *)
Fit(c) == length[c] # 0 /\ length[c] + HEADER <= MAX_BLOB_LENGTH

(* The worker goes on only with a value that fits, and sends one only if there is
   one. *)
Room   == pc \notin {"idle", "stopped"} => length[cmd] + HEADER <= MAX_BLOB_LENGTH
Saving == pc \in {"value", "end"} => length[cmd] # 0

(* What is on its way to the server was asked by a command so far, and a save
   that is sent whole has a value. *)
Asked ==
  \A i \in 1..Len(requests) :
    /\ requests[i].cmd \in 1..cmd
    /\ requests[i].whole /\ requests[i].op = "hSet" => Fit(requests[i].cmd)

(* The server holds the value of a save, whole. *)
HoldsValue == store # NULL /\ ~swallowed => \E c \in 1..cmd : Fit(c) /\ store = Value(c)

Saved == Room /\ Saving /\ Asked /\ HoldsValue

(* The commands so far are commands, the current one is the last of them. *)
LEMMA CommandsSoFar ==
  ASSUME TypeOK
  PROVE  cmd \in Nat /\ 1..cmd \subseteq Commands /\ (cmd \in Commands => cmd \in 1..cmd)
BY ConstantsAssumption DEF TypeOK, Commands

(* What was asked and saved stays so while the lengths of the commands so far
   stay, and nothing new is asked or stored. *)
LEMMA SavedKept ==
  ASSUME Asked, HoldsValue, TypeOK, cmd' \in {cmd, cmd + 1},
         \A c \in 1..cmd : length'[c] = length[c]
  PROVE  /\ (\A i \in 1..Len(requests') : \E j \in 1..Len(requests) : requests'[i] = requests[j])
               => Asked'
         /\ (store' \in {store, NULL} /\ (swallowed' = swallowed \/ swallowed')) => HoldsValue'
<1>1. 1..cmd \subseteq 1..cmd'
  BY CommandsSoFar
<1>2. \A c \in 1..cmd : (Fit(c) => Fit(c)') /\ Value(c)' = Value(c)
  BY DEF Fit, Value, Data, Header
<1>3. ASSUME \A i \in 1..Len(requests') : \E j \in 1..Len(requests) : requests'[i] = requests[j]
      PROVE  Asked'
  BY <1>1, <1>2, <1>3 DEF Asked, Fit
<1>4. ASSUME store' \in {store, NULL}, swallowed' = swallowed \/ swallowed'
      PROVE  HoldsValue'
  <2>1. SUFFICES ASSUME store' # NULL, ~swallowed'
               PROVE  (\E c \in 1..cmd : Fit(c) /\ store = Value(c))'
    BY DEF HoldsValue
  <2>2. PICK c \in 1..cmd : Fit(c) /\ store = Value(c)
    BY <1>4, <2>1 DEF HoldsValue
  <2>3. c \in 1..cmd' /\ Fit(c)' /\ store' = Value(c)'
    BY <1>1, <1>2, <1>4, <2>1, <2>2
  <2> QED
    BY <2>3
<1> QED
  BY <1>3, <1>4

(* A request that is sent joins those that were asked. *)
LEMMA SendAsked ==
  ASSUME Typed, Asked, cmd \in Commands, NEW whole \in BOOLEAN, Send(whole),
         whole /\ op = "hSet" => Fit(cmd), UNCHANGED <<cmd, length>>
  PROVE  Asked'
<1>1. PICK r : r = [cmd |-> cmd, op |-> op, whole |-> whole]
  OBVIOUS
<1>2. requests \in Seq(Requests) /\ r \in Requests
  BY <1>1 DEF Typed, TypeOK, Requests
<1>3. CASE requests' = Append(requests, r)
  <2>1. /\ Len(requests') = Len(requests) + 1 /\ Len(requests) \in Nat
        /\ \A i \in 1..Len(requests) : requests'[i] = requests[i]
        /\ requests'[Len(requests) + 1] = r
    BY <1>2, <1>3, AppendProperties, LenProperties
  <2> SUFFICES ASSUME NEW i \in 1..Len(requests')
               PROVE  /\ requests'[i].cmd \in 1..cmd
                      /\ requests'[i].whole /\ requests'[i].op = "hSet" => Fit(requests'[i].cmd)
    BY DEF Asked, Fit
  <2>2. CASE i \in 1..Len(requests)
    BY <2>1, <2>2 DEF Asked
  <2>3. CASE i = Len(requests) + 1
    <3>1. cmd \in 1..cmd
      BY CommandsSoFar DEF Typed
    <3> QED
      BY <1>1, <2>1, <2>3, <3>1
  <2> QED
    BY <2>1, <2>2, <2>3
<1>4. CASE requests' = requests
  BY <1>4 DEF Asked, Fit
<1> QED
  BY <1>1, <1>3, <1>4 DEF Send

(* Whatever the worker, the server and the network do, only whole values of blobs
   that fit are stored. *)
LEMMA StepSaved == Typed /\ Saved /\ [Next]_vars => Saved'
<1> SUFFICES ASSUME Typed, Saved, [Next]_vars PROVE Saved'
  OBVIOUS
<1> USE DEF Saved, Typed, Busy, Goto
<1>0. /\ HEADER \in Nat /\ MAX_BLOB_LENGTH \in Nat /\ HEADER < MAX_BLOB_LENGTH
      /\ requests \in Seq(Requests) /\ Len(requests) \in Nat /\ TypeOK
  BY ConstantsAssumption, LenProperties DEF TypeOK, Requests
<1>1. ASSUME NEW f \in Functions, NEW n \in IF f = "hSet" THEN Lengths ELSE {0},
             NewCommand(f, n)
      PROVE  Saved'
  <2>1. /\ cmd' = cmd + 1 /\ length' = [length EXCEPT ![cmd + 1] = n]
        /\ pc' = IF n # 0 /\ n + HEADER > MAX_BLOB_LENGTH THEN "stopped" ELSE "open"
        /\ UNCHANGED <<requests, store, swallowed>> /\ cmd < MaxCommands
    BY <1>1 DEF NewCommand, wire, history
  <2>2. cmd + 1 \in Commands /\ cmd \in Nat
    BY <2>1, ConstantsAssumption DEF TypeOK, Commands
  <2>3. length \in [Commands -> Lengths \cup {0}]
    BY DEF TypeOK
  <2>4. length'[cmd'] = n /\ \A c \in 1..cmd : length'[c] = length[c]
    BY <2>1, <2>2, <2>3
  <2>5. Asked' /\ HoldsValue'
    <3>1. \A i \in 1..Len(requests') : \E j \in 1..Len(requests) : requests'[i] = requests[j]
      BY <2>1
    <3> QED
      BY <1>0, <2>1, <2>4, <3>1, SavedKept
  <2>6. n \in Nat
    <3>1. n \in Lengths \cup {0} /\ 0 \in Nat /\ Lengths \subseteq Nat
      BY ConstantsAssumption
    <3> QED
      BY <3>1, Zenon
  <2>7. Room' /\ Saving'
    BY <1>0, <2>1, <2>4, <2>6 DEF Room, Saving
  <2> QED
    BY <2>5, <2>7
<1>2. ASSUME UNCHANGED <<cmd, length, requests, store, swallowed>>
      PROVE  Asked' /\ HoldsValue'
  <2>1. \A i \in 1..Len(requests') : \E j \in 1..Len(requests) : requests'[i] = requests[j]
    BY <1>2
  <2> QED
    BY <1>0, <1>2, <2>1, SavedKept
<1>3. ASSUME UNCHANGED <<cmd, length, store, swallowed>> PROVE HoldsValue'
  BY <1>0, <1>3, SavedKept
<1>4. ASSUME Open \/ WriteValue \/ BrokenPipe \/ RecvFails \/ WriteResult \/ Close
      PROVE  Saved'
  <2>1. /\ UNCHANGED <<cmd, length, requests, store, swallowed>>
        /\ pc \notin {"idle", "stopped"}
        /\ pc' \in {"write", "end", "stopped", "close", "idle"} /\ (pc' = "end" => pc = "value")
    BY <1>4 DEF Open, WriteValue, BrokenPipe, Writing, RecvFails, WriteResult, Close, wire, history
  <2>2. Room' /\ Saving'
    BY <2>1 DEF Room, Saving
  <2> QED
    BY <1>2, <2>1, <2>2
<1>5. ASSUME RecvInt \/ RecvLength \/ RecvBody PROVE Saved'
  <2>1. /\ UNCHANGED <<cmd, length, requests, store, swallowed>>
        /\ pc \notin {"idle", "stopped"} /\ pc' \in {"result", "close", "body", "stopped"}
    BY <1>5 DEF RecvInt, RecvLength, RecvBody, history
  <2>2. Room' /\ Saving'
    BY <2>1 DEF Room, Saving
  <2> QED
    BY <1>2, <2>1, <2>2
<1>6. ASSUME WriteMeta PROVE Saved'
  <2>1. /\ UNCHANGED <<cmd, length, requests, store, swallowed>> /\ pc = "write"
        /\ pc' = IF length[cmd] = 0 THEN "stopped" ELSE "value"
    BY <1>6 DEF WriteMeta, wire, history
  <2>2. Room' /\ Saving'
    BY <2>1 DEF Room, Saving
  <2> QED
    BY <1>2, <2>1, <2>2
<1>7. ASSUME WriteCommand \/ (WriteEnd /\ op = "hSet") PROVE Saved'
  <2>1. /\ Send(TRUE) /\ UNCHANGED <<cmd, op, length, store, swallowed>>
        /\ pc \in {"write", "end"} /\ pc' = "recv" /\ (op = "hSet" => pc = "end")
    BY <1>7 DEF WriteCommand, WriteEnd, history
  <2>2. op = "hSet" => Fit(cmd)
    BY <2>1 DEF Room, Saving, Fit
  <2>3. Asked'
    BY <2>1, <2>2, SendAsked
  <2>4. Room' /\ Saving'
    BY <2>1 DEF Room, Saving
  <2> QED
    BY <1>3, <2>1, <2>3, <2>4
<1>8. ASSUME WriteFails PROVE Saved'
  <2>1. /\ Send(FALSE) \/ UNCHANGED requests
        /\ UNCHANGED <<cmd, op, length, store, swallowed>>
        /\ pc \in {"write", "value", "end"} /\ pc' = "close"
    BY <1>8 DEF WriteFails, Writing, history
  <2>2. Asked'
    <3>1. CASE Send(FALSE)
      BY <2>1, <3>1, SendAsked
    <3>2. CASE UNCHANGED requests
      BY <1>2, <2>1, <3>2
    <3> QED
      BY <2>1, <3>1, <3>2
  <2>3. Room' /\ Saving'
    BY <2>1 DEF Room, Saving
  <2> QED
    BY <1>3, <2>1, <2>2, <2>3
<1>9. ASSUME Execute PROVE Saved'
  <2>1. requests # <<>> /\ UNCHANGED <<cmd, length, pc, swallowed>> /\ requests' = Tail(requests)
    BY <1>9 DEF Execute, client, history
  <2>2. PICK r \in Requests : r = requests[1] /\ r = Head(requests)
    BY <1>0, <2>1, EmptySeq, HeadTailProperties
  <2>3. /\ Len(requests') = Len(requests) - 1 /\ 1 \in 1..Len(requests)
        /\ \A i \in 1..Len(requests') : requests'[i] = requests[i + 1]
    BY <1>0, <2>1, EmptySeq, HeadTailProperties
  <2>4. Asked'
    <3>1. \A i \in 1..Len(requests') : \E j \in 1..Len(requests) : requests'[i] = requests[j]
      <4> SUFFICES ASSUME NEW i \in 1..Len(requests')
                   PROVE  \E j \in 1..Len(requests) : requests'[i] = requests[j]
        OBVIOUS
      <4>1. i + 1 \in 1..Len(requests) /\ requests'[i] = requests[i + 1]
        BY <1>0, <2>3
      <4> QED
        BY <4>1
    <3> QED
      BY <1>0, <2>1, <3>1, SavedKept
  <2>5. store' \in {store, Effect(r)} /\ r.whole /\ r.cmd \in 1..cmd
        /\ (r.op = "hSet" => Fit(r.cmd))
    BY <1>9, <2>2, <2>3 DEF Execute, Asked
  <2>6. CASE store' = Effect(r) /\ r.op = "hSet"
    <3>1. store' = Value(r.cmd) /\ Fit(r.cmd)
      BY <2>5, <2>6, SaveStores
    <3>2. Value(r.cmd)' = Value(r.cmd) /\ Fit(r.cmd)' /\ r.cmd \in 1..cmd'
      BY <2>1, <2>5, <3>1 DEF Value, Data, Fit
    <3>3. HoldsValue'
      BY <3>1, <3>2 DEF HoldsValue
    <3> QED
      BY <2>1, <2>4, <3>3 DEF Room, Saving
  <2>7. CASE store' \in {store, NULL}
    <3>1. HoldsValue'
      BY <1>0, <2>1, <2>7, SavedKept
    <3> QED
      BY <2>1, <2>4, <3>1 DEF Room, Saving
  <2>8. store' \in {store, NULL} \/ (store' = Effect(r) /\ r.op = "hSet")
    BY <2>5 DEF Effect
  <2> QED
    BY <2>6, <2>7, <2>8
<1>10. ASSUME Swallow PROVE Saved'
  <2>1. /\ Len(requests) > 1 /\ swallowed' = TRUE /\ UNCHANGED <<cmd, length, pc>>
    BY <1>10 DEF Swallow, client
  <2>2. PICK r, rest : r = Head(requests) /\ rest = SubSeq(requests, 3, Len(requests))
    OBVIOUS
  <2>3. requests' = <<r>> \o rest \/ requests' = rest
    BY <1>10, <2>2 DEF Swallow
  <2>4. /\ rest \in Seq(Requests) /\ Len(rest) = Len(requests) - 2
        /\ \A i \in 1..Len(rest) : rest[i] = requests[i + 2]
    <3>1. \A i \in 3..Len(requests) : requests[i] \in Requests
      BY <1>0, ElementOfSeq
    <3>2. 3 \in Int /\ Len(requests) \in Int
      BY <1>0
    <3>3. /\ rest \in Seq(Requests)
          /\ Len(rest) = IF 3 <= Len(requests) THEN Len(requests) - 3 + 1 ELSE 0
          /\ \A i \in 1..Len(requests) - 3 + 1 : rest[i] = requests[3 + i - 1]
      BY <2>2, <3>1, <3>2, SubSeqProperties
    <3>4. Len(rest) = Len(requests) - 2
      <4>1. PICK l \in Nat : l = Len(requests) /\ l > 1
        BY <1>0, <2>1
      <4>2. Len(rest) = IF 3 <= l THEN l - 3 + 1 ELSE 0
        BY <3>3, <4>1
      <4> QED
        BY <4>1, <4>2
    <3>5. ASSUME NEW i \in 1..Len(rest) PROVE rest[i] = requests[i + 2]
      <4>1. i \in 1..Len(requests) - 3 + 1 /\ 3 + i - 1 = i + 2
        BY <1>0, <3>4
      <4>2. rest[i] = requests[3 + i - 1]
        BY <3>3, <4>1
      <4> QED
        BY <4>1, <4>2
    <3> QED
      BY <3>3, <3>4, <3>5
  <2>5. r \in Requests /\ r = requests[1]
    <3>1. requests # <<>>
      BY <2>1, EmptySeq
    <3> QED
      BY <1>0, <2>2, <3>1, HeadTailProperties
  <2>6. \A i \in 1..Len(requests') : \E j \in 1..Len(requests) : requests'[i] = requests[j]
    <3>1. CASE requests' = rest
      <4> SUFFICES ASSUME NEW i \in 1..Len(rest)
                   PROVE  \E j \in 1..Len(requests) : rest[i] = requests[j]
        BY <3>1
      <4>1. i + 2 \in 1..Len(requests) /\ rest[i] = requests[i + 2]
        BY <1>0, <2>4
      <4> QED
        BY <4>1
    <3>2. CASE requests' = <<r>> \o rest
      <4>1. /\ Len(<<r>> \o rest) = 1 + Len(rest)
            /\ \A i \in 1..1 + Len(rest) : (<<r>> \o rest)[i] = IF i <= 1 THEN r ELSE rest[i - 1]
        <5>1. <<r>> \in Seq(Requests) /\ Len(<<r>>) = 1 /\ <<r>>[1] = r
          BY <2>5
        <5> QED
          BY <2>4, <5>1, ConcatProperties
      <4> SUFFICES ASSUME NEW i \in 1..Len(requests')
                   PROVE  \E j \in 1..Len(requests) : requests'[i] = requests[j]
        OBVIOUS
      <4>2. CASE i = 1
        BY <2>1, <2>4, <2>5, <3>2, <4>1, <4>2
      <4>3. CASE i > 1
        <5>1. i - 1 \in 1..Len(rest) /\ i + 1 \in 1..Len(requests)
          BY <1>0, <2>4, <3>2, <4>1, <4>3
        <5>2. requests'[i] = requests[i + 1]
          BY <2>4, <3>2, <4>1, <4>3, <5>1
        <5> QED
          BY <5>1, <5>2
      <4> QED
        BY <1>0, <2>4, <3>2, <4>1, <4>2, <4>3
    <3> QED
      BY <2>3, <3>1, <3>2
  <2>7. Asked'
    BY <1>0, <2>1, <2>6, SavedKept
  <2> QED
    BY <2>1, <2>7 DEF Room, Saving, HoldsValue
<1>11. ASSUME Arrive PROVE Saved'
  <2>1. UNCHANGED <<cmd, length, requests, store, swallowed, pc>>
    BY <1>11 DEF Arrive, client, history
  <2> QED
    BY <1>2, <2>1 DEF Room, Saving
<1>12. ASSUME ServerCloses PROVE Saved'
  <2>1. UNCHANGED <<cmd, length, store, swallowed, pc>> /\ requests' = <<>>
    BY <1>12 DEF ServerCloses, client, history
  <2>2. \A i \in 1..Len(requests') : \E j \in 1..Len(requests) : requests'[i] = requests[j]
    BY <2>1
  <2>3. Asked'
    BY <1>0, <2>1, <2>2, SavedKept
  <2> QED
    BY <1>3, <2>1, <2>3 DEF Room, Saving
<1>13. CASE UNCHANGED vars
  <2>1. UNCHANGED <<cmd, length, requests, store, swallowed, pc>>
    BY <1>13 DEF vars, client, wire, history
  <2> QED
    BY <1>2, <2>1 DEF Room, Saving
<1>14. CASE del \/ exists \/ hDel \/ hExists \/ hGet \/ hSet
  <2>1. \/ Open \/ WriteValue \/ BrokenPipe \/ RecvFails \/ WriteResult \/ Close
        \/ RecvInt \/ RecvLength \/ RecvBody \/ WriteMeta \/ WriteFails
        \/ WriteCommand \/ (WriteEnd /\ op = "hSet")
    BY <1>14 DEF del, exists, hDel, hExists, hGet, hSet, IntCommand
  <2> QED
    BY <1>4, <1>5, <1>6, <1>7, <1>8, <2>1
<1> QED
  BY <1>1, <1>9, <1>10, <1>11, <1>12, <1>13, <1>14 DEF Next

(* The server holds nothing at first. *)
LEMMA InitSaved == Init => Saved
<1>1. Len(<<>>) = 0
  OBVIOUS
<1> QED
  BY <1>1 DEF Init, Saved, Room, Saving, Asked, HoldsValue

(* What was asked has a value that fits, and the server holds such a value. *)
THEOREM SavedInv == Spec => [](Typed /\ Saved)
BY InitTyped, StepTyped, InitSaved, StepSaved, PTL DEF Spec

(* What the run checks as StoredWhole: unless the server takes bytes of another
   command for a value that was cut off, it holds one whole value of one save. *)
THEOREM StoredCorrect == Spec => []StoredWhole
<1>1. Saved => StoredWhole
  BY DEF Saved, HoldsValue, StoredWhole, Fit, Value
<1> QED
  BY <1>1, SavedInv, PTL

-----------------------------------------------------------------------------
(* A request that is whole is the current command's, which waits for it, or has
   given it up and is about to put the connection back. *)
Pending ==
  \A i \in 1..Len(requests) : requests[i].whole =>
    /\ i = Len(requests) /\ requests[i].cmd = cmd /\ requests[i].op = op
    /\ pc \in {"recv", "close"} /\ answer = NULL /\ received = NoBytes

Unexecuted ==
  \/ pc \in {"idle", "open", "write", "value", "end"}
  \/ \E i \in 1..Len(requests) : requests[i].whole

OnlyCrlf(s) == \A i \in 1..Len(s) : s[i].kind = "crlf"

(* Before the current command is executed, nothing is on its way back but the end
   of an earlier bulk. *)
Stale == Unexecuted => OnlyCrlf(buffer) /\ OnlyCrlf(arriving)

(* The server has done what the current command, no load, asked for. *)
Executed(n) ==
  CASE op = "hSet" -> store = Value(cmd)
    [] op \in {"del", "hDel"} -> store = NULL
    [] op \in {"exists", "hExists"} -> n = IF store = NULL THEN 0 ELSE 1
    [] op = "hGet" -> FALSE

(* The bytes are those of the value held, after the first k. *)
Continues(bytes, k) ==
  /\ store # NULL /\ k + Len(bytes) <= Len(store)
  /\ \A i \in 1..Len(bytes) : bytes[i] = store[k + i]

(* What comes back but for the end of a bulk is the current command's, and true. *)
Fits(t) ==
  /\ t.kind # "crlf" => t.of = cmd
  /\ t.kind = "int" => Executed(t.n)
  /\ t.kind = "bulk" => op = "hGet" /\ t.n = IF store = NULL THEN -1 ELSE Len(store)
  /\ t.kind = "body" => op = "hGet" /\ store # NULL

Fitting ==
  /\ \A i \in 1..Len(buffer) : Fits(buffer[i])
  /\ \A i \in 1..Len(arriving) : Fits(arriving[i])

(* After a body, or a piece of it, comes the rest of it, then its end. *)
BodyLast(s) == \A i, j \in 1..Len(s) : s[i].kind = "body" /\ i < j => s[j].kind = "crlf"

Ordered ==
  /\ BodyLast(buffer) /\ BodyLast(arriving)
  /\ \A i \in 1..Len(buffer), j \in 1..Len(arriving) :
       buffer[i].kind = "body" =>
         \/ arriving[j].kind = "crlf"
         \/ arriving[j].kind = "body" /\ j = 1 /\ i = Len(buffer)

(* The bytes of a body that wait in the receive buffer for the rest of it. *)
Waiting == IF buffer # <<>> /\ Last(buffer).kind = "body" THEN Len(Last(buffer).bytes) ELSE 0

(* The pieces of a body are one after another in the value held. *)
Continued ==
  /\ received.bytes = <<>> \/ Continues(received.bytes, 0)
  /\ \A i \in 1..Len(buffer) : buffer[i].kind = "body" =>
       Continues(buffer[i].bytes, Len(received.bytes))
  /\ \A j \in 1..Len(arriving) : arriving[j].kind = "body" =>
       Continues(arriving[j].bytes, Len(received.bytes) + Waiting)

(* What the worker has taken is true. *)
Got ==
  /\ pc \in {"open", "write", "value", "end", "recv"} => received = NoBytes
  /\ op # "hGet" /\ pc = "result" => Executed(received.n)
  /\ op = "hGet" /\ pc \in {"body", "result"} =>
       received.n = IF store = NULL THEN HEADER ELSE Len(store)
  /\ answer # NULL => pc \in {"close", "idle"}

Clean == ~late /\ ~swallowed

Faithful == Pending /\ Stale /\ Fitting /\ Ordered /\ Continued /\ Got /\ AnswerIsHeld

Flow == Clean => Faithful

-----------------------------------------------------------------------------
(* Bytes that continue the value one after another continue it together. *)
LEMMA JoinContinues ==
  ASSUME Typed, NEW k \in Nat, NEW a \in Seq(Bytes), NEW b \in Seq(Bytes),
         Continues(a, k), Continues(b, k + Len(a))
  PROVE  Continues(a \o b, k) /\ Len(a \o b) = Len(a) + Len(b)
<1>1. /\ Len(a) \in Nat /\ Len(b) \in Nat /\ Len(a \o b) = Len(a) + Len(b)
      /\ \A i \in 1..Len(a) + Len(b) : (a \o b)[i] = IF i <= Len(a) THEN a[i] ELSE b[i - Len(a)]
  BY ConcatProperties, LenProperties
<1>2. store # NULL /\ k + Len(a) + Len(b) <= Len(store) /\ Len(store) \in Nat
  BY LenProperties DEF Continues, Typed, Sized
<1>3. ASSUME NEW i \in 1..Len(a) + Len(b) PROVE (a \o b)[i] = store[k + i]
  <2>1. CASE i <= Len(a)
    BY <1>1, <2>1 DEF Continues
  <2>2. CASE i > Len(a)
    <3>1. i - Len(a) \in 1..Len(b) /\ k + Len(a) + (i - Len(a)) = k + i
      BY <1>1, <2>2
    <3>2. b[i - Len(a)] = store[k + Len(a) + (i - Len(a))]
      BY <3>1 DEF Continues
    <3> QED
      BY <1>1, <2>2, <3>1, <3>2
  <2> QED
    BY <1>1, <2>1, <2>2
<1> QED
  BY <1>1, <1>2, <1>3 DEF Continues

(* Bytes that continue the value do so when they are cut in two. *)
LEMMA CutContinues ==
  ASSUME NEW k \in Nat, NEW a \in Seq(Bytes), NEW m \in 1..(Len(a) - 1), Continues(a, k),
         Len(store) \in Nat
  PROVE  /\ Continues(SubSeq(a, 1, m), k) /\ Len(SubSeq(a, 1, m)) = m
         /\ Continues(SubSeq(a, m + 1, Len(a)), k + m)
<1>1. Len(a) \in Nat /\ \A i \in 1..Len(a) : a[i] \in Bytes
  BY LenProperties, ElementOfSeq
<1>2. PICK l \in Nat : l = Len(a)
  BY <1>1
<1>3. m \in 1..l /\ m < l
  BY <1>2
<1>4. /\ Len(SubSeq(a, 1, m)) = m
      /\ \A i \in 1..m : SubSeq(a, 1, m)[i] = a[i]
  <2>1. \A i \in 1..m : a[i] \in Bytes
    BY <1>1, <1>2, <1>3
  <2>2. /\ Len(SubSeq(a, 1, m)) = IF 1 <= m THEN m - 1 + 1 ELSE 0
        /\ \A i \in 1..m - 1 + 1 : SubSeq(a, 1, m)[i] = a[1 + i - 1]
    BY <1>3, <2>1, SubSeqProperties
  <2>3. m - 1 + 1 = m /\ \A i \in 1..m : 1 + i - 1 = i
    BY <1>3
  <2> QED
    BY <1>3, <2>2, <2>3
<1>5. /\ Len(SubSeq(a, m + 1, l)) = l - m
      /\ \A i \in 1..l - m : SubSeq(a, m + 1, l)[i] = a[m + i]
  <2>1. \A i \in (m + 1)..l : a[i] \in Bytes
    BY <1>1, <1>2, <1>3
  <2>2. m + 1 \in Int /\ l \in Int
    BY <1>2, <1>3
  <2>3. /\ Len(SubSeq(a, m + 1, l)) = IF m + 1 <= l THEN l - (m + 1) + 1 ELSE 0
        /\ \A i \in 1..l - (m + 1) + 1 : SubSeq(a, m + 1, l)[i] = a[(m + 1) + i - 1]
    BY <2>1, <2>2, SubSeqProperties
  <2>4. l - (m + 1) + 1 = l - m /\ m + 1 <= l /\ \A i \in 1..l - m : (m + 1) + i - 1 = m + i
    BY <1>2, <1>3
  <2> QED
    BY <2>3, <2>4
<1>6. store # NULL /\ k + l <= Len(store) /\ \A i \in 1..l : a[i] = store[k + i]
  BY <1>2 DEF Continues
<1>7. Continues(SubSeq(a, 1, m), k)
  BY <1>3, <1>4, <1>6 DEF Continues
<1>8. Continues(SubSeq(a, m + 1, l), k + m)
  <2>1. k + m + (l - m) <= Len(store)
    BY <1>3, <1>6
  <2>2. ASSUME NEW i \in 1..l - m PROVE SubSeq(a, m + 1, l)[i] = store[k + m + i]
    <3>1. m + i \in 1..l /\ k + (m + i) = k + m + i
      BY <1>3
    <3>2. a[m + i] = store[k + (m + i)]
      BY <1>6, <3>1
    <3> QED
      BY <1>5, <3>1, <3>2
  <2> QED
    BY <1>5, <1>6, <2>1, <2>2 DEF Continues
<1> QED
  BY <1>2, <1>4, <1>7, <1>8

-----------------------------------------------------------------------------
(* Where only the ends of bulks are, there is no body. *)
LEMMA QuietWire ==
  ASSUME OnlyCrlf(buffer)', OnlyCrlf(arriving)',
         (received.bytes = <<>> \/ Continues(received.bytes, 0))'
  PROVE  Stale' /\ Fitting' /\ Ordered' /\ Continued'
<1>1. Stale'
  BY DEF Stale
<1>2. Fitting'
  BY DEF Fitting, Fits, OnlyCrlf
<1>3. Ordered'
  BY DEF Ordered, BodyLast, OnlyCrlf
<1>4. Continued'
  BY DEF Continued, OnlyCrlf
<1> QED
  BY <1>1, <1>2, <1>3, <1>4

(* A token or a piece of it. *)
Alike(t, u) == t.kind = u.kind /\ t.of = u.of /\ t.n = u.n

(* Tokens that move on stay true while the server does nothing. *)
LEMMA TokensKept ==
  ASSUME Stale, Fitting, UNCHANGED <<cmd, op, length, store>>, Unexecuted' => Unexecuted,
         \A i \in 1..Len(buffer') :
           \/ \E j \in 1..Len(buffer) : Alike(buffer'[i], buffer[j])
           \/ \E j \in 1..Len(arriving) : Alike(buffer'[i], arriving[j]),
         \A i \in 1..Len(arriving') :
           \E j \in 1..Len(arriving) : Alike(arriving'[i], arriving[j])
  PROVE  Stale' /\ Fitting'
<1>1. Value(cmd)' = Value(cmd)
  BY DEF Value, Data
<1>2. Stale'
  BY DEF Stale, OnlyCrlf, Alike
<1>3. ASSUME NEW i \in 1..Len(buffer') PROVE Fits(buffer[i])'
  <2>1. PICK t : t = buffer'[i]
    OBVIOUS
  <2>2. PICK u : Fits(u) /\ Alike(t, u)
    BY <2>1 DEF Fitting
  <2> QED
    BY <1>1, <2>1, <2>2 DEF Fits, Executed, Alike
<1>4. ASSUME NEW i \in 1..Len(arriving') PROVE Fits(arriving[i])'
  <2>1. PICK t : t = arriving'[i]
    OBVIOUS
  <2>2. PICK u : Fits(u) /\ Alike(t, u)
    BY <2>1 DEF Fitting
  <2> QED
    BY <1>1, <2>1, <2>2 DEF Fits, Executed, Alike
<1> QED
  BY <1>2, <1>3, <1>4 DEF Fitting

(* A command is executed only once it is sent. *)
LEMMA NoneWhole ==
  ASSUME Pending, pc \notin {"recv", "close"}
  PROVE  \A i \in 1..Len(requests) : ~requests[i].whole
BY DEF Pending

(* A new command starts with nothing on the wire but the end of an earlier bulk. *)
LEMMA NewFlow ==
  ASSUME Typed, Faithful, NEW f \in Functions, NEW n, NewCommand(f, n)
  PROVE  Faithful'
<1>1. /\ pc = "idle" /\ answer' = NULL /\ received' = NoBytes /\ pc' \in {"stopped", "open"}
      /\ UNCHANGED <<requests, arriving, buffer>>
  BY DEF NewCommand, Goto, wire
<1>2. OnlyCrlf(buffer)' /\ OnlyCrlf(arriving)'
  BY <1>1 DEF Faithful, Stale, Unexecuted, OnlyCrlf
<1>3. Pending'
  BY <1>1, NoneWhole DEF Faithful, Pending
<1>4. Stale' /\ Fitting' /\ Ordered' /\ Continued'
  <2>1. (received.bytes = <<>>)'
    BY <1>1 DEF NoBytes
  <2> QED
    BY <1>2, <2>1, QuietWire
<1>5. Got' /\ AnswerIsHeld'
  BY <1>1 DEF Got, AnswerIsHeld
<1> QED
  BY <1>3, <1>4, <1>5 DEF Faithful

(* The worker writes its command with nothing on the wire either. *)
LEMMA WritingFlow ==
  ASSUME Typed, Faithful, pc \in {"open", "write", "value", "end"},
         UNCHANGED <<cmd, op, length, received, answer, arriving, store>>,
         buffer' \in {buffer, <<>>}, pc' \notin {"idle", "body", "result"},
         UNCHANGED requests \/ Send(FALSE) \/ (Send(TRUE) /\ pc' = "recv")
  PROVE  Faithful'
<1>1. received = NoBytes /\ answer = NULL
  BY DEF Faithful, Got
<1>2. OnlyCrlf(buffer)' /\ OnlyCrlf(arriving)'
  <2>1. Len(<<>>) = 0
    OBVIOUS
  <2> QED
    BY <2>1 DEF Faithful, Stale, Unexecuted, OnlyCrlf
<1>3. Stale' /\ Fitting' /\ Ordered' /\ Continued'
  <2>1. (received.bytes = <<>>)'
    BY <1>1 DEF NoBytes
  <2> QED
    BY <1>2, <2>1, QuietWire
<1>4. Pending'
  <2>1. \A i \in 1..Len(requests) : ~requests[i].whole
    BY NoneWhole DEF Faithful
  <2>2. CASE UNCHANGED requests
    BY <2>1, <2>2 DEF Pending
  <2>3. ASSUME NEW whole \in BOOLEAN, requests' # requests, Send(whole), whole => pc' = "recv"
        PROVE  Pending'
    <3>1. PICK r : r = [cmd |-> cmd, op |-> op, whole |-> whole]
      OBVIOUS
    <3>2. requests \in Seq(Requests) /\ r \in Requests /\ requests' = Append(requests, r)
      <4>1. cmd \in Commands
        BY DEF Typed, Busy
      <4> QED
        BY <2>3, <3>1, <4>1 DEF Send, Typed, TypeOK, Requests
    <3>3. /\ Len(requests') = Len(requests) + 1 /\ Len(requests) \in Nat
          /\ \A i \in 1..Len(requests) : requests'[i] = requests[i]
          /\ requests'[Len(requests) + 1] = r
      BY <3>2, AppendProperties, LenProperties
    <3>4. \A i \in 1..Len(requests') : requests'[i].whole => i = Len(requests') /\ requests'[i] = r
      BY <2>1, <3>3
    <3>5. r.whole => pc' = "recv"
      BY <2>3, <3>1
    <3> QED
      BY <1>1, <3>1, <3>4, <3>5 DEF Pending
  <2> QED
    BY <2>2, <2>3
<1>5. Got' /\ AnswerIsHeld'
  BY <1>1 DEF Got, AnswerIsHeld
<1> QED
  BY <1>3, <1>4, <1>5 DEF Faithful

(* The worker puts the connection back: what is still to come is the end of a
   bulk, or the command was given up. *)
LEMMA CloseFlow ==
  ASSUME Typed, Faithful, Clean', Close
  PROVE  Faithful'
<1>1. /\ pc = "close" /\ pc' = "idle" /\ buffer' = <<>> /\ ~Unanswered
      /\ UNCHANGED <<cmd, op, length, received, answer, requests, arriving, store>>
  BY DEF Close, Clear, Goto, Clean
<1>2. ASSUME NEW i \in 1..Len(requests) PROVE ~requests[i].whole
  <2>1. requests[i] \in ToSet(requests)
    <3>1. requests \in Seq(Requests)
      BY DEF Typed, TypeOK, Requests
    <3> QED
      BY <3>1, LenProperties DEF ToSet
  <2> QED
    BY <1>1, <2>1 DEF Unanswered, Faithful, Pending
<1>3. OnlyCrlf(arriving)
  <2> SUFFICES ASSUME NEW i \in 1..Len(arriving) PROVE arriving[i].kind = "crlf"
    BY DEF OnlyCrlf
  <2>1. arriving[i] \in ToSet(arriving)
    BY LenProperties DEF ToSet, Typed
  <2> QED
    BY <1>1, <2>1 DEF Unanswered, Faithful, Fitting, Fits
<1>4. OnlyCrlf(buffer)' /\ OnlyCrlf(arriving)'
  <2>1. Len(<<>>) = 0
    OBVIOUS
  <2> QED
    BY <1>1, <1>3, <2>1 DEF OnlyCrlf
<1>5. Pending'
  BY <1>1, <1>2 DEF Pending
<1>6. Stale' /\ Fitting' /\ Ordered' /\ Continued'
  <2>1. (received.bytes = <<>> \/ Continues(received.bytes, 0))'
    BY <1>1 DEF Faithful, Continued, Continues
  <2> QED
    BY <1>4, <2>1, QuietWire
<1>7. Got'
  BY <1>1 DEF Faithful, Got, Executed
<1>8. AnswerIsHeld'
  <2>1. Value(cmd)' = Value(cmd)
    BY <1>1 DEF Value, Data
  <2>2. ~late /\ ~swallowed
    BY DEF Close, Clean
  <2> QED
    BY <1>1, <2>1, <2>2 DEF Faithful, AnswerIsHeld
<1> QED
  BY <1>5, <1>6, <1>7, <1>8 DEF Faithful

(* The value held fits into a buffer, with its header. *)
LEMMA HeldSize ==
  ASSUME Typed, Saved, Clean, store # NULL
  PROVE  /\ store \in Seq(Bytes) /\ Len(store) \in Nat
         /\ Len(store) <= MAX_BLOB_LENGTH /\ Len(store) > HEADER
<1>1. PICK c \in 1..cmd : Fit(c) /\ store = Value(c)
  BY DEF Saved, HoldsValue, Clean
<1>2. c \in Commands /\ TypeOK
  BY CommandsSoFar DEF Typed
<1>3. /\ Value(c) \in Seq(Bytes) /\ Len(Value(c)) = length[c] + HEADER /\ length[c] \in Nat
  BY <1>2, ValueBytes
<1>4. HEADER \in Nat /\ MAX_BLOB_LENGTH \in Nat
  BY ConstantsAssumption
<1> QED
  BY <1>1, <1>3, <1>4 DEF Fit

(* A worker that gives up while it receives leaves everything where it is. *)
LEMMA GiveUpFlow ==
  ASSUME Faithful, pc \in {"recv", "body"}, pc' = "close",
         UNCHANGED <<cmd, op, length, received, answer, requests, arriving, buffer, store>>
  PROVE  Faithful'
<1>1. Pending' /\ answer = NULL
  BY DEF Faithful, Pending, Got
<1>2. Stale' /\ Fitting'
  <2>1. Unexecuted' => Unexecuted
    BY DEF Unexecuted
  <2>2. \A i \in 1..Len(buffer') : \E j \in 1..Len(buffer) : Alike(buffer'[i], buffer[j])
    BY DEF Alike
  <2>3. \A i \in 1..Len(arriving') : \E j \in 1..Len(arriving) : Alike(arriving'[i], arriving[j])
    BY DEF Alike
  <2> QED
    BY <2>1, <2>2, <2>3, TokensKept DEF Faithful
<1>3. Ordered' /\ Continued'
  <2>1. Ordered'
    BY DEF Faithful, Ordered, BodyLast
  <2>2. Waiting' = Waiting
    BY DEF Waiting, Last
  <2>3. Continued'
    BY <2>2 DEF Faithful, Continued, Continues
  <2> QED
    BY <2>1, <2>3
<1>4. Got' /\ AnswerIsHeld'
  BY <1>1 DEF Got, AnswerIsHeld
<1> QED
  BY <1>1, <1>2, <1>3, <1>4 DEF Faithful

(* A number is taken for the answer of the command that waits for it. *)
LEMMA RecvIntFlow ==
  ASSUME Typed, Faithful, RecvInt
  PROVE  Faithful'
<1>1. /\ pc = "recv" /\ op # "hGet" /\ buffer # <<>> /\ buffer' = <<>>
      /\ UNCHANGED <<cmd, op, length, answer, requests, arriving, store, late, swallowed>>
      /\ \/ /\ Head(buffer).kind = "int" /\ pc' = "result"
            /\ received' = [from |-> Head(buffer).of, n |-> Head(buffer).n, bytes |-> <<>>]
         \/ pc' = "close" /\ received' = received
  BY DEF RecvInt, Clear, Goto, history
<1>2. PICK t : t = buffer[1] /\ t = Head(buffer) /\ 1 \in 1..Len(buffer)
  BY <1>1, EmptySeq DEF Typed
<1>3. Fits(t) /\ answer = NULL /\ received = NoBytes
  BY <1>1, <1>2 DEF Faithful, Fitting, Got
<1>4. t.kind = "int" => Executed(t.n) /\ \A i \in 1..Len(requests) : ~requests[i].whole
  BY <1>2, <1>3 DEF Fits, Faithful, Stale, OnlyCrlf, Unexecuted
<1>5. Pending'
  BY <1>1, <1>2, <1>4 DEF Faithful, Pending
<1>6. Len(<<>>) = 0
  OBVIOUS
<1>7. Stale' /\ Fitting'
  <2>1. Unexecuted' => Unexecuted
    BY <1>1 DEF Unexecuted
  <2>2. \A i \in 1..Len(arriving') : \E j \in 1..Len(arriving) : Alike(arriving'[i], arriving[j])
    BY <1>1 DEF Alike
  <2> QED
    BY <1>1, <1>6, <2>1, <2>2, TokensKept DEF Faithful
<1>8. \A i \in 1..Len(arriving) : arriving[i].kind # "body"
  BY <1>1 DEF Faithful, Fitting, Fits
<1>9. Ordered' /\ Continued'
  <2>1. received'.bytes = <<>>
    BY <1>1, <1>3 DEF NoBytes
  <2> QED
    BY <1>1, <1>6, <1>8, <2>1 DEF Ordered, BodyLast, Continued
<1>10. Got'
  <2>1. Value(cmd)' = Value(cmd)
    BY <1>1 DEF Value, Data
  <2>2. pc' = "result" => Executed(received.n)'
    <3>1. PICK n : n = t.n
      OBVIOUS
    <3>2. pc' = "result" => received'.n = n /\ Executed(n)
      BY <1>1, <1>2, <1>4, <3>1
    <3> QED
      BY <1>1, <2>1, <3>2 DEF Executed
  <2> QED
    BY <1>1, <1>3, <2>2 DEF Got
<1>11. AnswerIsHeld'
  BY <1>1, <1>3 DEF AnswerIsHeld
<1> QED
  BY <1>5, <1>7, <1>9, <1>10, <1>11 DEF Faithful

(* The length of a bulk is taken for that of the value held, which fits. *)
LEMMA RecvLengthFlow ==
  ASSUME Typed, Saved, Faithful, Clean, RecvLength
  PROVE  Faithful'
<1>1. /\ pc = "recv" /\ op = "hGet" /\ buffer # <<>>
      /\ UNCHANGED <<cmd, op, length, answer, requests, arriving, store, late, swallowed>>
  BY DEF RecvLength, history
<1>2. PICK t : t = buffer[1] /\ t = Head(buffer) /\ 1 \in 1..Len(buffer)
  BY <1>1, EmptySeq DEF Typed
<1>3. Fits(t) /\ answer = NULL /\ received = NoBytes
  BY <1>1, <1>2 DEF Faithful, Fitting, Got
<1>4. CASE t.kind = "bulk"
  <2>1. PICK n : n = BulkLength(t.n)
    OBVIOUS
  <2>2. /\ buffer' = Tail(buffer) /\ pc' \in {"result", "body"}
        /\ received' = [from |-> t.of, n |-> n, bytes |-> <<>>]
    BY <1>2, <1>4, <2>1 DEF RecvLength, Goto
  <2>3. n = IF store = NULL THEN HEADER ELSE Len(store)
    <3>1. HEADER \in Nat /\ MAX_BLOB_LENGTH \in Nat
      BY ConstantsAssumption
    <3>2. t.n = IF store = NULL THEN -1 ELSE Len(store)
      BY <1>3, <1>4 DEF Fits
    <3>3. CASE store = NULL
      BY <2>1, <3>1, <3>2, <3>3 DEF BulkLength
    <3>4. CASE store # NULL
      BY <2>1, <3>1, <3>2, <3>4, HeldSize DEF BulkLength
    <3> QED
      BY <3>3, <3>4
  <2>4. /\ Len(buffer') = Len(buffer) - 1 /\ Len(buffer) \in Nat \ {0}
        /\ \A i \in 1..Len(buffer') : i + 1 \in 1..Len(buffer) /\ buffer'[i] = buffer[i + 1]
    BY <1>1, <2>2, HeadTailProperties, EmptySeq DEF Typed
  <2>5. \A i \in 1..Len(requests) : ~requests[i].whole
    BY <1>2, <1>4 DEF Faithful, Stale, OnlyCrlf, Unexecuted
  <2>6. Pending'
    BY <1>1, <2>5 DEF Pending
  <2>7. Stale' /\ Fitting'
    <3>1. ~Unexecuted'
      BY <1>1, <2>2, <2>5 DEF Unexecuted
    <3>2. \A i \in 1..Len(buffer') : \E j \in 1..Len(buffer) : Alike(buffer'[i], buffer[j])
      BY <2>4 DEF Alike
    <3>3. \A i \in 1..Len(arriving') : \E j \in 1..Len(arriving) : Alike(arriving'[i], arriving[j])
      BY <1>1 DEF Alike
    <3> QED
      BY <1>1, <3>1, <3>2, <3>3, TokensKept DEF Faithful
  <2>8. Ordered'
    <3>1. BodyLast(buffer) /\ BodyLast(arriving)
      BY DEF Faithful, Ordered
    <3>2. BodyLast(buffer)'
      BY <2>4, <3>1 DEF BodyLast
    <3>3. ASSUME NEW i \in 1..Len(buffer'), NEW j \in 1..Len(arriving), buffer'[i].kind = "body"
          PROVE  \/ arriving[j].kind = "crlf"
                 \/ arriving[j].kind = "body" /\ j = 1 /\ i = Len(buffer')
      <4>1. i + 1 \in 1..Len(buffer) /\ buffer[i + 1].kind = "body"
        BY <2>4, <3>3
      <4>2. \/ arriving[j].kind = "crlf"
            \/ arriving[j].kind = "body" /\ j = 1 /\ i + 1 = Len(buffer)
        BY <4>1 DEF Faithful, Ordered
      <4> QED
        BY <2>4, <4>2
    <3> QED
      BY <1>1, <3>1, <3>2, <3>3 DEF Ordered, BodyLast
  <2>9. Continued'
    <3>1. received.bytes = <<>> /\ received'.bytes = <<>>
      BY <1>3, <2>2 DEF NoBytes
    <3>2. Waiting' = Waiting
      <4>1. CASE Len(buffer) = 1
        <5>1. Len(buffer') = 0 /\ buffer' = <<>> /\ Last(buffer) = t
          BY <1>2, <2>2, <2>4, <4>1, HeadTailProperties, EmptySeq DEF Last, Typed
        <5> QED
          BY <1>4, <5>1 DEF Waiting
      <4>2. CASE Len(buffer) > 1
        <5>1. buffer' # <<>>
          <6>1. Len(<<>>) = 0
            OBVIOUS
          <6> QED
            BY <2>4, <4>2, <6>1
        <5>2. Last(buffer)' = Last(buffer)
          <6>1. Len(buffer') \in 1..Len(buffer') /\ Len(buffer') + 1 = Len(buffer)
            BY <2>4, <4>2
          <6> QED
            BY <2>4, <6>1 DEF Last
        <5> QED
          BY <1>1, <5>1, <5>2 DEF Waiting
      <4> QED
        BY <2>4, <4>1, <4>2
    <3>3. \A i \in 1..Len(buffer) : buffer[i].kind = "body" => Continues(buffer[i].bytes, Len(<<>>))
      BY <3>1 DEF Faithful, Continued
    <3>4. \A i \in 1..Len(buffer') :
             buffer'[i].kind = "body" => Continues(buffer[i].bytes, Len(<<>>))'
      BY <1>1, <2>4, <3>3, SMTT(30) DEF Continues
    <3>5. \A j \in 1..Len(arriving) : arriving[j].kind = "body" =>
            Continues(arriving[j].bytes, Len(<<>>) + Waiting)
      BY <3>1 DEF Faithful, Continued
    <3>6. \A j \in 1..Len(arriving') : arriving'[j].kind = "body" =>
            Continues(arriving[j].bytes, Len(<<>>) + Waiting)'
      BY <1>1, <3>2, <3>5 DEF Continues
    <3> QED
      BY <3>1, <3>4, <3>6 DEF Continued
  <2>10. Got'
    BY <1>1, <1>3, <2>2, <2>3 DEF Got
  <2>11. AnswerIsHeld'
    BY <1>1, <1>3 DEF AnswerIsHeld
  <2> QED
    BY <2>6, <2>7, <2>8, <2>9, <2>10, <2>11 DEF Faithful
<1>5. CASE t.kind # "bulk"
  <2>1. UNCHANGED <<buffer, received>> /\ pc' = "close"
    BY <1>2, <1>5 DEF RecvLength, Goto
  <2> QED
    BY <1>1, <2>1, GiveUpFlow
<1> QED
  BY <1>4, <1>5

(* A body is read where the last piece of it ended. *)
LEMMA RecvBodyFlow ==
  ASSUME Typed, Faithful, op = "hGet", RecvBody
  PROVE  /\ Faithful' /\ Continues(received.bytes, 0)' /\ store # NULL /\ UNCHANGED store
         /\ received'.bytes = received.bytes \o Head(buffer).bytes
<1>1. /\ pc = "body" /\ buffer # <<>> /\ Head(buffer).kind = "body"
      /\ received' = [received EXCEPT !.bytes = received.bytes \o Head(buffer).bytes]
      /\ pc' \in {"stopped", "result", "body"}
      /\ buffer' \in {Tail(buffer), TrailingTaken(Tail(buffer))}
      /\ UNCHANGED <<cmd, op, length, answer, requests, arriving, store, late, swallowed>>
  BY DEF RecvBody, Goto, history
<1>2. PICK t \in Sent : t = buffer[1] /\ t = Head(buffer) /\ 1 \in 1..Len(buffer)
  BY <1>1, EmptySeq, HeadTailProperties DEF Typed
<1>3. PICK rest \in Seq(Sent) : /\ rest = Tail(buffer) /\ Len(rest) = Len(buffer) - 1
                               /\ \A i \in 1..Len(rest) : rest[i] = buffer[i + 1]
  <2>1. PICK r : r = Tail(buffer)
    OBVIOUS
  <2>2. r \in Seq(Sent) /\ Len(r) = Len(buffer) - 1 /\ \A i \in 1..Len(r) : r[i] = buffer[i + 1]
    BY <1>1, <2>1, HeadTailProperties DEF Typed
  <2> QED
    BY <2>1, <2>2
<1>4. OnlyCrlf(rest)
  <2> SUFFICES ASSUME NEW i \in 1..Len(rest) PROVE rest[i].kind = "crlf"
    BY DEF OnlyCrlf
  <2>1. i + 1 \in 1..Len(buffer) /\ 1 < i + 1
    BY <1>2, <1>3
  <2>2. buffer[i + 1].kind = "crlf"
    BY <1>1, <1>2, <2>1 DEF Faithful, Ordered, BodyLast
  <2> QED
    BY <1>3, <2>2
<1>5. OnlyCrlf(buffer')
  <2>1. CASE buffer' = rest
    BY <1>4, <2>1
  <2>2. CASE rest # <<>> /\ buffer' = Tail(rest)
    <3>1. /\ Len(buffer') = Len(rest) - 1 /\ Len(rest) \in Nat
          /\ \A i \in 1..Len(buffer') : buffer'[i] = rest[i + 1]
      BY <2>2, HeadTailProperties, LenProperties
    <3> SUFFICES ASSUME NEW i \in 1..Len(buffer') PROVE buffer'[i].kind = "crlf"
      BY DEF OnlyCrlf
    <3>2. i + 1 \in 1..Len(rest)
      BY <3>1
    <3> QED
      BY <1>4, <3>1, <3>2 DEF OnlyCrlf
  <2> QED
    BY <1>1, <1>3, <2>1, <2>2 DEF TrailingTaken
<1>6. PICK a \in Seq(Bytes), b \in Seq(Bytes) : a = received.bytes /\ b = t.bytes
  BY DEF Typed, TypeOK, Sent, Tokens
<1>7. received'.bytes = a \o b /\ received'.n = received.n
  BY <1>1, <1>2, <1>6 DEF Typed, TypeOK
<1>8. Continues(b, Len(a))
  BY <1>1, <1>2, <1>6 DEF Faithful, Continued
<1>9. Continues(a \o b, 0) /\ Len(a \o b) = Len(a) + Len(b)
  <2>1. Continues(a, 0)
    <3>1. CASE a = <<>>
      <4>1. Len(store) \in Nat /\ store # NULL
        BY <1>8, LenProperties DEF Continues, Typed, Sized
      <4> QED
        BY <3>1, <4>1 DEF Continues
    <3>2. CASE a # <<>>
      BY <1>6, <3>2 DEF Faithful, Continued
    <3> QED
      BY <3>1, <3>2
  <2>2. 0 + Len(a) = Len(a) /\ 0 \in Nat
    BY LenProperties
  <2> QED
    BY <1>8, <2>1, <2>2, JoinContinues
<1>10. Continues(received.bytes, 0)' /\ store # NULL
  BY <1>1, <1>7, <1>9 DEF Continues
<1>11. ~Unexecuted /\ \A i \in 1..Len(requests) : ~requests[i].whole
  BY <1>1, <1>2 DEF Faithful, Stale, OnlyCrlf, Unexecuted
<1>12. Pending'
  BY <1>1, <1>11 DEF Pending
<1>13. Stale' /\ Fitting' /\ Ordered'
  <2>1. ~Unexecuted'
    BY <1>1, <1>11 DEF Unexecuted
  <2>2. \A i \in 1..Len(arriving) : Fits(arriving[i])
    BY DEF Faithful, Fitting
  <2>3. Value(cmd)' = Value(cmd)
    BY <1>1 DEF Value, Data
  <2>4. Fitting'
    BY <1>1, <1>5, <2>2, <2>3 DEF Fitting, Fits, Executed, OnlyCrlf
  <2>5. Ordered'
    BY <1>1, <1>5 DEF Faithful, Ordered, BodyLast, OnlyCrlf
  <2> QED
    BY <2>1, <2>4, <2>5 DEF Stale
<1>14. Continued'
  <2>1. ASSUME NEW j \in 1..Len(arriving), arriving[j].kind = "body"
        PROVE  Continues(arriving[j].bytes, Len(a \o b))
    <3>1. 1 = Len(buffer)
      BY <1>1, <1>2, <2>1 DEF Faithful, Ordered
    <3>2. Waiting = Len(b)
      BY <1>1, <1>2, <1>6, <3>1 DEF Waiting, Last
    <3> QED
      BY <1>6, <1>9, <2>1, <3>2 DEF Faithful, Continued
  <2>2. Waiting' = 0
    <3>1. buffer' # <<>> => Len(buffer') \in 1..Len(buffer')
      <4>1. buffer' \in Seq(Sent)
        BY <1>1, <1>3, HeadTailProperties DEF TrailingTaken
      <4> QED
        BY <4>1, EmptySeq
    <3> QED
      BY <1>5, <3>1 DEF Waiting, Last, OnlyCrlf
  <2>3. Len(a \o b) + 0 = Len(a \o b)
    BY <1>9, LenProperties
  <2>4. ASSUME NEW j \in 1..Len(arriving'), arriving'[j].kind = "body"
        PROVE  Continues(arriving[j].bytes, Len(received.bytes) + Waiting)'
    <3>1. Len(received'.bytes) + Waiting' = Len(a \o b)
      BY <1>7, <2>2, <2>3
    <3>2. Continues(arriving[j].bytes, Len(a \o b))
      BY <1>1, <2>1, <2>4
    <3> QED
      BY <1>1, <3>1, <3>2 DEF Continues
  <2> QED
    BY <1>5, <1>10, <2>4 DEF Continued, OnlyCrlf
<1>15. Got' /\ AnswerIsHeld'
  <2>1. answer = NULL
    BY <1>1 DEF Faithful, Got
  <2>2. received.n = Len(store)
    BY <1>1, <1>10 DEF Faithful, Got
  <2> QED
    BY <1>1, <1>7, <1>10, <2>1, <2>2 DEF Got, AnswerIsHeld
<1> QED
  BY <1>2, <1>6, <1>7, <1>10, <1>12, <1>13, <1>14, <1>15, <1>1 DEF Faithful

(* A load that succeeds hands over what the server holds. *)
LEMMA LoadedIsHeld ==
  ASSUME Typed, Saved, Clean, Faithful, op = "hGet", pc = "result"
  PROVE  LET n == IF store = NULL THEN 0 ELSE Len(store) - HEADER
         IN /\ received.n - HEADER = n
            /\ Loaded = IF n = 0 THEN <<>> ELSE SubSeq(store, 1, n)
<1>0. HEADER \in Nat \ {0}
  BY ConstantsAssumption
<1>1. /\ received.n = IF store = NULL THEN HEADER ELSE Len(store)
      /\ received.n = HEADER \/ Len(received.bytes) = received.n
      /\ received.bytes = <<>> \/ Continues(received.bytes, 0)
  BY DEF Faithful, Got, Continued, Typed, Sized
<1>2. PICK h, b \in Seq(Bytes) : h = Header(received.n) /\ b = received.bytes
                               /\ h \in Seq(Bytes) /\ Len(h) = HEADER
  BY HeaderBytes DEF Typed, TypeOK
<1>3. CASE store = NULL
  <2>1. SubSeq(h \o b, HEADER + 1, HEADER) = <<>>
    BY <1>0, SubSeqEmpty
  <2> QED
    BY <1>0, <1>1, <1>2, <1>3, <2>1 DEF Loaded
<1>4. CASE store # NULL
  <2>1. store \in Seq(Bytes) /\ Len(store) \in Nat /\ Len(store) > HEADER
    BY <1>4, HeldSize
  <2>2. Len(b) = Len(store) /\ Continues(b, 0)
    <3>1. Len(<<>>) = 0
      OBVIOUS
    <3> QED
      BY <1>0, <1>1, <1>2, <1>4, <2>1, <3>1
  <2>3. b = store
    <3>1. \A i \in 1..Len(b) : b[i] = store[i]
      <4>1. \A i \in 1..Len(b) : b[i] = store[0 + i] /\ 0 + i = i
        BY <2>2 DEF Continues
      <4> QED
        BY <4>1
    <3> QED
      BY <2>1, <2>2, <3>1, SeqEqual
  <2>4. PICK l \in Nat : l = Len(store) /\ l > HEADER
    BY <2>1
  <2>5. PICK m \in Int : m = HEADER + 1
    BY <1>0
  <2>6. SubSeq(h \o store, m, l) = SubSeq(store, 1, l - HEADER) /\ l - HEADER # 0
    <3>1. m \in Len(h) + 1..Len(h) + Len(store) /\ l \in Len(h) + 1..Len(h) + Len(store)
      BY <1>0, <1>2, <2>4, <2>5
    <3>2. h \in Seq(Bytes) /\ store \in Seq(Bytes)
      BY <1>2, <2>1
    <3>3. SubSeq(h \o store, m, l) = SubSeq(store, m - Len(h), l - Len(h))
      BY <3>1, <3>2, SubSeqOfConcat2
    <3>4. m - Len(h) = 1 /\ l - Len(h) = l - HEADER /\ l - HEADER # 0
      BY <1>0, <1>2, <2>4, <2>5
    <3> QED
      BY <3>3, <3>4
  <2>7. Loaded = SubSeq(store, 1, l - HEADER)
    <3>1. Loaded = SubSeq(h \o b, m, l)
      BY <1>1, <1>2, <1>4, <2>4, <2>5 DEF Loaded
    <3> QED
      BY <2>3, <2>6, <3>1
  <2> QED
    BY <1>1, <1>4, <2>4, <2>6, <2>7
<1> QED
  BY <1>3, <1>4

(* What the worker hands over is the server's state. *)
LEMMA WriteResultFlow ==
  ASSUME Typed, Saved, Clean, Faithful, WriteResult
  PROVE  Faithful'
<1>1. /\ pc = "result" /\ pc' = "close"
      /\ UNCHANGED <<cmd, op, length, received, requests, arriving, buffer, store, late, swallowed>>
      /\ \/ answer' = IF op = "hGet" THEN [n |-> received.n - HEADER, bytes |-> Loaded]
                                    ELSE [n |-> received.n, bytes |-> <<>>]
         \/ answer' = answer
  BY DEF WriteResult, Goto, wire, history
<1>2. \A i \in 1..Len(requests) : ~requests[i].whole
  BY <1>1, NoneWhole DEF Faithful
<1>3. Pending'
  BY <1>1, <1>2 DEF Pending
<1>4. Stale' /\ Fitting'
  <2>1. ~Unexecuted'
    BY <1>1, <1>2 DEF Unexecuted
  <2>2. \A i \in 1..Len(buffer') : \E j \in 1..Len(buffer) : Alike(buffer'[i], buffer[j])
    BY <1>1 DEF Alike
  <2>3. \A i \in 1..Len(arriving') : \E j \in 1..Len(arriving) : Alike(arriving'[i], arriving[j])
    BY <1>1 DEF Alike
  <2> QED
    BY <1>1, <2>1, <2>2, <2>3, TokensKept DEF Faithful
<1>5. Ordered'
  BY <1>1 DEF Faithful, Ordered, BodyLast
<1>6. Continued'
  <2>1. Waiting' = Waiting
    BY <1>1 DEF Waiting, Last
  <2> QED
    BY <1>1, <2>1 DEF Faithful, Continued, Continues
<1>7. Got'
  BY <1>1 DEF Got
<1>8. AnswerIsHeld'
  <2>1. Value(cmd)' = Value(cmd)
    BY <1>1 DEF Value, Data
  <2>2. CASE answer' = answer
    <3>1. answer = NULL
      BY <1>1 DEF Faithful, Got
    <3> QED
      BY <2>2, <3>1 DEF AnswerIsHeld
  <2>3. CASE op # "hGet" /\ answer' = [n |-> received.n, bytes |-> <<>>]
    <3>1. Executed(received.n)
      BY <1>1, <2>3 DEF Faithful, Got
    <3>2. answer'.n = received.n
      BY <2>3
    <3> QED
      BY <1>1, <2>1, <2>3, <3>1, <3>2 DEF AnswerIsHeld, Executed, Typed, TypeOK, Functions
  <2>4. CASE op = "hGet" /\ answer' = [n |-> received.n - HEADER, bytes |-> Loaded]
    <3>1. PICK n, l : n = received.n - HEADER /\ l = Loaded
      OBVIOUS
    <3>2. /\ n = IF store = NULL THEN 0 ELSE Len(store) - HEADER
          /\ l = IF n = 0 THEN <<>> ELSE SubSeq(store, 1, n)
      BY <1>1, <2>4, <3>1, LoadedIsHeld
    <3>3. answer'.n = n /\ answer'.bytes = l
      BY <2>4, <3>1
    <3> QED
      BY <1>1, <2>4, <3>2, <3>3 DEF AnswerIsHeld
  <2> QED
    BY <1>1, <2>2, <2>3, <2>4
<1> QED
  BY <1>3, <1>4, <1>5, <1>6, <1>7, <1>8 DEF Faithful

(* The server closes the connection: nothing is added. *)
LEMMA ServerClosesFlow ==
  ASSUME Typed, Faithful, ServerCloses
  PROVE  Faithful'
<1>1. /\ requests' = <<>> /\ arriving' \in {arriving, <<>>}
      /\ UNCHANGED <<cmd, op, length, pc, received, answer, buffer, store, late, swallowed>>
  BY DEF ServerCloses, client, history
<1>2. Len(<<>>) = 0
  OBVIOUS
<1>3. Pending'
  BY <1>1, <1>2 DEF Pending
<1>4. Stale' /\ Fitting'
  <2>1. Unexecuted' => Unexecuted
    BY <1>1, <1>2 DEF Unexecuted
  <2>2. \A i \in 1..Len(buffer') : \E j \in 1..Len(buffer) : Alike(buffer'[i], buffer[j])
    BY <1>1 DEF Alike
  <2>3. \A i \in 1..Len(arriving') : \E j \in 1..Len(arriving) : Alike(arriving'[i], arriving[j])
    BY <1>1, <1>2 DEF Alike
  <2> QED
    BY <1>1, <2>1, <2>2, <2>3, TokensKept DEF Faithful
<1>5. Ordered'
  BY <1>1, <1>2 DEF Faithful, Ordered, BodyLast
<1>6. Continued'
  <2>1. Waiting' = Waiting
    BY <1>1 DEF Waiting, Last
  <2>2. \A j \in 1..Len(arriving') : j \in 1..Len(arriving) /\ arriving'[j] = arriving[j]
    BY <1>1, <1>2
  <2>3. (received.bytes = <<>> \/ Continues(received.bytes, 0))'
        /\ \A i \in 1..Len(buffer') : buffer'[i].kind = "body" =>
             Continues(buffer[i].bytes, Len(received.bytes))'
    BY <1>1 DEF Faithful, Continued, Continues
  <2>4. ASSUME NEW j \in 1..Len(arriving'), arriving'[j].kind = "body"
        PROVE  Continues(arriving[j].bytes, Len(received.bytes) + Waiting)'
    <3>1. Continues(arriving[j].bytes, Len(received.bytes) + Waiting)
      BY <2>2, <2>4 DEF Faithful, Continued
    <3> QED
      BY <1>1, <2>1, <2>2, <3>1 DEF Continues
  <2> QED
    BY <2>3, <2>4 DEF Continued
<1>7. Got' /\ AnswerIsHeld'
  <2>1. Value(cmd)' = Value(cmd)
    BY <1>1 DEF Value, Data
  <2>2. Got'
    BY <1>1, <2>1 DEF Faithful, Got, Executed
  <2>3. AnswerIsHeld'
    BY <1>1, <2>1 DEF Faithful, AnswerIsHeld
  <2> QED
    BY <2>2, <2>3
<1> QED
  BY <1>3, <1>4, <1>5, <1>6, <1>7 DEF Faithful

(* A request that is executed is the current command's: the answer on its way is
   the server's state from now on. *)
LEMMA ExecuteFlow ==
  ASSUME Typed, Faithful, Execute
  PROVE  Faithful'
<1>0. requests \in Seq(Requests) /\ requests # <<>> /\ HEADER \in Nat
  BY ConstantsAssumption DEF Execute, Typed, TypeOK, Requests
<1>1. PICK r \in Requests : r = requests[1] /\ r = Head(requests) /\ 1 \in 1..Len(requests)
  BY <1>0, EmptySeq, HeadTailProperties
<1>2. /\ r.whole /\ requests' = Tail(requests)
      /\ \/ store' = Effect(r) /\ arriving' = arriving \o Reply(r)
         \/ store' = store /\ arriving' = arriving \o Error(r.cmd)
      /\ UNCHANGED <<cmd, op, length, pc, received, answer, buffer, late, swallowed>>
  BY <1>1 DEF Execute, client, history
<1>3. /\ 1 = Len(requests) /\ r.cmd = cmd /\ r.op = op /\ pc \in {"recv", "close"}
      /\ answer = NULL /\ received = NoBytes
  BY <1>1, <1>2 DEF Faithful, Pending
<1>4. OnlyCrlf(buffer) /\ OnlyCrlf(arriving)
  BY <1>1, <1>2 DEF Faithful, Stale, Unexecuted
<1>5. Len(requests') = 0
  BY <1>0, <1>2, <1>3, HeadTailProperties
<1>6. Pending' /\ Stale' /\ Got' /\ AnswerIsHeld'
  <2>1. Pending'
    BY <1>5 DEF Pending
  <2>2. Stale'
    <3>1. pc' \notin {"idle", "open", "write", "value", "end"}
      BY <1>2, <1>3
    <3>2. \A i \in 1..Len(requests') : FALSE
      BY <1>5
    <3>3. ~Unexecuted'
      BY <3>1, <3>2 DEF Unexecuted
    <3> QED
      BY <3>3 DEF Stale
  <2>3. Got' /\ AnswerIsHeld'
    BY <1>2, <1>3 DEF Got, AnswerIsHeld
  <2> QED
    BY <2>1, <2>2, <2>3
<1>7. /\ cmd \in Commands /\ op \in Functions /\ TypeOK
      /\ <<>> \in Seq(Bytes) /\ 0 \in Int /\ -1 \in Int
  BY <1>3 DEF Typed, Busy, TypeOK
<1>8. Value(cmd)' = Value(cmd)
  BY <1>2 DEF Value, Data
<1>9. received'.bytes = <<>> /\ Len(<<>>) = 0
  BY <1>2, <1>3 DEF NoBytes
<1>10. Waiting' = 0
  <2>1. buffer # <<>> => Len(buffer) \in 1..Len(buffer)
    BY EmptySeq DEF Typed
  <2> QED
    BY <1>2, <1>4, <2>1 DEF Waiting, Last, OnlyCrlf
<1>11. PICK l \in Nat : l = Len(arriving)
  BY LenProperties DEF Typed
<1>12. ASSUME NEW t \in Sent, Fits(t)', t.kind # "body", arriving' = arriving \o <<t>>
       PROVE  Fitting' /\ Ordered' /\ Continued'
  <2>1. /\ Len(arriving') = l + 1 /\ arriving'[l + 1] = t
        /\ \A i \in 1..l : arriving'[i] = arriving[i]
    <3>1. <<t>> \in Seq(Sent) /\ Len(<<t>>) = 1 /\ <<t>>[1] = t
      OBVIOUS
    <3>2. arriving' = Append(arriving, t)
      BY <1>12, AppendIsConcat DEF Typed
    <3> QED
      BY <1>11, <3>2, AppendProperties DEF Typed
  <2>2. \A i \in 1..Len(arriving') : i \in 1..l \/ i = l + 1
    BY <1>11, <2>1
  <2>3. \A i \in 1..Len(arriving') : arriving'[i].kind = "crlf" \/ arriving'[i] = t
    BY <1>4, <1>11, <2>1, <2>2 DEF OnlyCrlf
  <2>4. Fitting'
    BY <1>2, <1>4, <1>12, <2>3 DEF Fitting, Fits, OnlyCrlf
  <2>5. Ordered' /\ Continued'
    BY <1>2, <1>4, <1>9, <1>12, <2>3 DEF Ordered, BodyLast, Continued, OnlyCrlf
  <2> QED
    BY <2>4, <2>5
<1>13. CASE store' = store /\ arriving' = arriving \o Error(r.cmd)
  <2>1. PICK t : t = Token("error", r.cmd, 0, <<>>)
    OBVIOUS
  <2>2. t \in Sent /\ t.kind = "error" /\ t.of = cmd
    BY <1>3, <1>7, <2>1, TokenSent DEF Token
  <2>3. Fits(t)'
    BY <1>2, <2>2 DEF Fits
  <2> QED
    BY <1>6, <1>12, <1>13, <2>1, <2>2, <2>3 DEF Error, Faithful
<1>14. CASE store' = Effect(r) /\ arriving' = arriving \o Reply(r) /\ op # "hGet"
  <2>1. PICK n \in {0, 1} : n = IF store = NULL THEN 0 ELSE 1
    OBVIOUS
  <2>2. PICK t : t = Token("int", r.cmd, n, <<>>)
    OBVIOUS
  <2>3. t \in Sent /\ t.kind = "int" /\ t.of = cmd /\ t.n = n
    <3>1. n \in Int /\ n \in Nat
      OBVIOUS
    <3> QED
      BY <1>3, <1>7, <2>2, <3>1, TokenSent, EmptySeq DEF Token
  <2>4. Reply(r) = <<t>>
    BY <1>3, <1>14, <2>1, <2>2 DEF Reply
  <2>5. Executed(n)'
    <3>1. CASE op = "hSet"
      BY <1>2, <1>3, <1>7, <1>8, <1>14, <3>1, SaveStores DEF Executed
    <3>2. CASE op \in {"del", "hDel"}
      BY <1>2, <1>3, <1>14, <3>2 DEF Executed, Effect
    <3>3. CASE op \in {"exists", "hExists"}
      BY <1>2, <1>3, <1>14, <2>1, <3>3 DEF Executed, Effect
    <3> QED
      BY <1>7, <1>14, <3>1, <3>2, <3>3 DEF Functions
  <2>6. Fits(t)'
    BY <1>2, <2>3, <2>5 DEF Fits
  <2> QED
    BY <1>6, <1>12, <1>14, <2>3, <2>4, <2>6 DEF Faithful
<1>15. CASE store' = Effect(r) /\ arriving' = arriving \o Reply(r) /\ op = "hGet" /\ store = NULL
  <2>1. PICK t : t = Token("bulk", r.cmd, -1, <<>>)
    OBVIOUS
  <2>2. t \in Sent /\ t.kind = "bulk" /\ t.of = cmd /\ t.n = -1
    BY <1>3, <1>7, <2>1, TokenSent DEF Token
  <2>3. Reply(r) = <<t>> /\ store' = store
    BY <1>3, <1>15, <2>1 DEF Reply, Effect
  <2>4. Fits(t)'
    BY <1>2, <1>15, <2>2, <2>3 DEF Fits
  <2> QED
    BY <1>6, <1>12, <1>15, <2>2, <2>3, <2>4 DEF Faithful
<1>16. CASE store' = Effect(r) /\ arriving' = arriving \o Reply(r) /\ op = "hGet" /\ store # NULL
  <2>1. store \in Seq(Bytes) /\ Len(store) \in Nat /\ Len(store) >= HEADER
    BY <1>16, LenProperties DEF Typed, Sized
  <2>2. PICK bulk, body, crlf : /\ bulk = Token("bulk", r.cmd, Len(store), <<>>)
                                /\ body = Token("body", r.cmd, 0, store)
                                /\ crlf = Token("crlf", r.cmd, 0, <<>>)
    OBVIOUS
  <2>3. Reply(r) = <<bulk, body, crlf>> /\ store' = store
    BY <1>3, <1>16, <2>2 DEF Reply, Effect
  <2>4. /\ bulk.kind = "bulk" /\ bulk.of = cmd /\ bulk.n = Len(store)
        /\ body.kind = "body" /\ body.of = cmd /\ body.bytes = store
        /\ crlf.kind = "crlf"
    BY <1>3, <2>2 DEF Token
  <2>5. /\ Len(arriving') = l + 3
        /\ \A i \in 1..l : arriving'[i] = arriving[i]
        /\ arriving'[l + 1] = bulk /\ arriving'[l + 2] = body /\ arriving'[l + 3] = crlf
    <3>1. PICK w \in Seq(Sent) : w = Reply(r)
      BY ReplySent
    <3>2. Len(w) = 3 /\ w[1] = bulk /\ w[2] = body /\ w[3] = crlf
      BY <2>3, <3>1
    <3>3. /\ Len(arriving \o w) = l + 3
          /\ \A i \in 1..l + 3 : (arriving \o w)[i] = IF i <= l THEN arriving[i] ELSE w[i - l]
      <4>1. /\ Len(arriving \o w) = Len(arriving) + Len(w)
            /\ \A i \in 1..Len(arriving) + Len(w) : (arriving \o w)[i] =
                  IF i <= Len(arriving) THEN arriving[i] ELSE w[i - Len(arriving)]
        BY ConcatProperties DEF Typed
      <4>2. Len(arriving) = l /\ Len(w) = 3
        BY <1>11, <3>2
      <4> QED
        BY <4>1, <4>2
    <3>4. /\ l + 1 \in 1..l + 3 /\ l + 2 \in 1..l + 3 /\ l + 3 \in 1..l + 3
          /\ ~(l + 1 <= l) /\ ~(l + 2 <= l) /\ ~(l + 3 <= l)
          /\ l + 1 - l = 1 /\ l + 2 - l = 2 /\ l + 3 - l = 3
          /\ \A i \in 1..l : i \in 1..l + 3 /\ i <= l
      BY <1>11
    <3>5. arriving' = arriving \o w
      BY <1>16, <3>1
    <3>6. /\ (arriving \o w)[l + 1] = w[1] /\ (arriving \o w)[l + 2] = w[2]
          /\ (arriving \o w)[l + 3] = w[3]
      BY <3>3, <3>4
    <3>7. \A i \in 1..l : (arriving \o w)[i] = arriving[i]
      BY <3>3, <3>4
    <3> QED
      BY <3>2, <3>3, <3>5, <3>6, <3>7
  <2>6. \A i \in 1..Len(arriving') : i \in 1..l \/ i = l + 1 \/ i = l + 2 \/ i = l + 3
    BY <1>11, <2>5
  <2>7. \A i \in 1..Len(arriving') :
           \/ arriving'[i].kind = "crlf"
           \/ i = l + 1 /\ arriving'[i] = bulk
           \/ i = l + 2 /\ arriving'[i] = body
    BY <1>4, <1>11, <2>4, <2>5, <2>6 DEF OnlyCrlf
  <2>8. Fitting'
    BY <1>2, <1>4, <1>16, <2>3, <2>4, <2>7 DEF Fitting, Fits, OnlyCrlf
  <2>9. BodyLast(arriving)'
    <3> SUFFICES ASSUME NEW i \in 1..Len(arriving'), NEW j \in 1..Len(arriving'),
                        arriving'[i].kind = "body", i < j
                 PROVE  arriving'[j].kind = "crlf"
      BY DEF BodyLast
    <3>1. i = l + 2
      BY <2>4, <2>7
    <3>2. j = l + 3
      BY <1>11, <2>6, <3>1
    <3> QED
      BY <2>4, <2>5, <3>2
  <2>10. Ordered'
    BY <1>2, <1>4, <2>9 DEF Ordered, BodyLast, OnlyCrlf
  <2>11. Continued'
    <3>1. ASSUME NEW j \in 1..Len(arriving'), arriving'[j].kind = "body"
          PROVE  Continues(arriving[j].bytes, Len(received.bytes) + Waiting)'
      <4>1. arriving'[j].bytes = store
        BY <2>4, <2>7, <3>1
      <4>2. Len(received'.bytes) + Waiting' = 0
        BY <1>9, <1>10
      <4>3. 0 + Len(store) <= Len(store) /\ \A i \in 1..Len(store) : store[i] = store[0 + i]
        BY <2>1
      <4> QED
        BY <1>16, <2>3, <4>1, <4>2, <4>3 DEF Continues
    <3> QED
      BY <1>2, <1>4, <1>9, <3>1 DEF Continued, OnlyCrlf
  <2> QED
    BY <1>6, <2>8, <2>10, <2>11 DEF Faithful
<1> QED
  BY <1>2, <1>13, <1>14, <1>15, <1>16

(* A piece of a body joins the piece that waits at the end of the receive buffer. *)
LEMMA ArrivedJoins ==
  ASSUME buffer \in Seq(Sent), NEW x \in Sent, x.kind = "body",
         buffer # <<>>, Last(buffer).kind = "body"
  PROVE  /\ Len(buffer) \in Nat \ {0} /\ Len(Arrived(x)) = Len(buffer)
         /\ \A i \in 1..(Len(buffer) - 1) : Arrived(x)[i] = buffer[i]
         /\ Alike(Arrived(x)[Len(buffer)], x)
         /\ Arrived(x)[Len(buffer)].bytes = Last(buffer).bytes \o x.bytes
<1>0. PICK y : y = [x EXCEPT !.bytes = Last(buffer).bytes \o x.bytes]
  OBVIOUS
<1>1. PICK l \in Nat \ {0} : l = Len(buffer)
  BY EmptySeq
<1>2. Last(buffer) \in Sent
  BY <1>1, ElementOfSeq DEF Last
<1>3. y \in Sent
  <2>1. Last(buffer).bytes \in Seq(Bytes) /\ x.bytes \in Seq(Bytes)
    BY <1>2 DEF Sent, Tokens
  <2>2. Last(buffer).bytes \o x.bytes \in Seq(Bytes)
    BY <2>1, ConcatProperties
  <2> QED
    BY <1>0, <2>2, PieceSent
<1>4. PICK front : front = SubSeq(buffer, 1, l - 1)
  OBVIOUS
<1>5. /\ front \in Seq(Sent) /\ Len(front) = l - 1
      /\ \A i \in 1..(l - 1) : front[i] = buffer[i]
  <2>1. \A i \in 1..(l - 1) : buffer[i] \in Sent
    BY <1>1, ElementOfSeq
  <2>2. PICK n \in Int : n = l - 1 /\ n >= 0
    BY <1>1
  <2>3. /\ front \in Seq(Sent)
        /\ Len(front) = IF 1 <= n THEN n - 1 + 1 ELSE 0
        /\ \A i \in 1..n - 1 + 1 : front[i] = buffer[1 + i - 1]
    BY <1>4, <2>1, <2>2, SubSeqProperties
  <2>4. n - 1 + 1 = n /\ \A i \in 1..n : 1 + i - 1 = i
    BY <2>2
  <2> QED
    BY <2>2, <2>3, <2>4
<1>6. Arrived(x) = Append(front, y)
  BY <1>0, <1>1, <1>4 DEF Arrived, Front
<1>7. Len(Arrived(x)) = l /\ Arrived(x)[l] = y /\ \A i \in 1..(l - 1) : Arrived(x)[i] = buffer[i]
  BY <1>1, <1>3, <1>5, <1>6, AppendProperties
<1>8. Alike(y, x) /\ y.bytes = Last(buffer).bytes \o x.bytes
  BY <1>0 DEF Alike, Sent, Tokens
<1> QED
  BY <1>1, <1>7, <1>8

(* Any other token is appended to the receive buffer. *)
LEMMA ArrivedAppends ==
  ASSUME buffer \in Seq(Sent), NEW x \in Sent,
         ~(x.kind = "body" /\ buffer # <<>> /\ Last(buffer).kind = "body")
  PROVE  /\ Len(buffer) \in Nat /\ Len(Arrived(x)) = Len(buffer) + 1
         /\ \A i \in 1..Len(buffer) : Arrived(x)[i] = buffer[i]
         /\ Arrived(x)[Len(buffer) + 1] = x
<1>1. Arrived(x) = Append(buffer, x)
  BY DEF Arrived
<1> QED
  BY <1>1, AppendProperties, LenProperties

(* What a step of the network leaves alone. *)
LEMMA NetworkFrame ==
  ASSUME Faithful, UNCHANGED <<cmd, op, length, pc, received, answer, requests, store,
                               late, swallowed>>
  PROVE  /\ Pending' /\ Got' /\ AnswerIsHeld' /\ (Unexecuted' => Unexecuted)
         /\ (received.bytes = <<>> \/ Continues(received.bytes, 0))'
<1>1. Value(cmd)' = Value(cmd)
  BY DEF Value, Data
<1>2. Pending' /\ (Unexecuted' => Unexecuted)
  BY DEF Faithful, Pending, Unexecuted
<1>3. Got'
  BY <1>1 DEF Faithful, Got, Executed
<1>4. AnswerIsHeld'
  BY <1>1 DEF Faithful, AnswerIsHeld
<1>5. (received.bytes = <<>> \/ Continues(received.bytes, 0))'
  BY DEF Faithful, Continued, Continues
<1> QED
  BY <1>2, <1>3, <1>4, <1>5

(* A token that is no body arrives. *)
LEMMA ArriveToken ==
  ASSUME Typed, Faithful, arriving # <<>>, NEW t \in Sent, t = Head(arriving), t.kind # "body",
         buffer' = Arrived(t), arriving' = Tail(arriving),
         UNCHANGED <<cmd, op, length, pc, received, answer, requests, store, late, swallowed>>
  PROVE  Faithful'
<1>1. PICK l \in Nat : /\ l = Len(buffer) /\ Len(buffer') = l + 1
                       /\ (\A i \in 1..l : buffer'[i] = buffer[i]) /\ buffer'[l + 1] = t
  <2>1. PICK b : b = Arrived(t)
    OBVIOUS
  <2>2. /\ Len(buffer) \in Nat /\ Len(b) = Len(buffer) + 1 /\ b[Len(buffer) + 1] = t
        /\ \A i \in 1..Len(buffer) : b[i] = buffer[i]
    <3>1. buffer \in Seq(Sent)
      BY DEF Typed
    <3> QED
      BY <2>1, <3>1, ArrivedAppends
  <2> QED
    BY <2>1, <2>2
<1>2. /\ t = arriving[1] /\ 1 \in 1..Len(arriving) /\ Len(arriving') = Len(arriving) - 1
      /\ \A j \in 1..Len(arriving') : j + 1 \in 1..Len(arriving) /\ arriving'[j] = arriving[j + 1]
  <2>1. Len(arriving) \in Nat \ {0}
    BY EmptySeq DEF Typed
  <2> QED
    BY <2>1, HeadTailProperties DEF Typed
<1>3. \A i \in 1..Len(buffer') : i \in 1..l \/ i = l + 1
  BY <1>1
<1>4. Stale' /\ Fitting'
  <2>1. \A i \in 1..Len(buffer') :
           \/ \E j \in 1..Len(buffer) : Alike(buffer'[i], buffer[j])
           \/ \E j \in 1..Len(arriving) : Alike(buffer'[i], arriving[j])
    BY <1>1, <1>2, <1>3 DEF Alike
  <2>2. \A i \in 1..Len(arriving') : \E j \in 1..Len(arriving) : Alike(arriving'[i], arriving[j])
    BY <1>2 DEF Alike
  <2> QED
    BY <2>1, <2>2, NetworkFrame, TokensKept DEF Faithful
<1>5. ASSUME NEW i \in 1..Len(buffer), buffer[i].kind = "body"
      PROVE  t.kind = "crlf" /\ \A j \in 1..Len(arriving') : arriving'[j].kind = "crlf"
  <2>1. t.kind = "crlf"
    BY <1>2, <1>5 DEF Faithful, Ordered
  <2>2. ASSUME NEW j \in 1..Len(arriving') PROVE arriving'[j].kind = "crlf"
    <3>1. j + 1 \in 1..Len(arriving) /\ arriving'[j] = arriving[j + 1] /\ j + 1 # 1
      BY <1>2
    <3> QED
      BY <1>5, <3>1 DEF Faithful, Ordered
  <2> QED
    BY <2>1, <2>2
<1>6. Ordered'
  <2>1. BodyLast(buffer) /\ BodyLast(arriving)
    BY DEF Faithful, Ordered
  <2>2. BodyLast(buffer)'
    <3> SUFFICES ASSUME NEW i \in 1..Len(buffer'), NEW j \in 1..Len(buffer'),
                        buffer'[i].kind = "body", i < j
                 PROVE  buffer'[j].kind = "crlf"
      BY DEF BodyLast
    <3>1. i \in 1..l /\ buffer[i].kind = "body"
      BY <1>1, <1>3
    <3>2. CASE j \in 1..l
      BY <1>1, <2>1, <3>1, <3>2 DEF BodyLast
    <3>3. CASE j = l + 1
      BY <1>1, <1>5, <3>1, <3>3
    <3> QED
      BY <1>3, <3>2, <3>3
  <2>3. BodyLast(arriving)'
    BY <1>2, <2>1 DEF BodyLast
  <2>4. ASSUME NEW i \in 1..Len(buffer'), NEW j \in 1..Len(arriving'), buffer'[i].kind = "body"
        PROVE  arriving'[j].kind = "crlf"
    BY <1>1, <1>3, <1>5, <2>4
  <2> QED
    BY <2>2, <2>3, <2>4 DEF Ordered
<1>7. Continued'
  <2>1. Waiting' = 0
    <3>1. Last(buffer)' = t
      BY <1>1 DEF Last
    <3> QED
      BY <3>1 DEF Waiting
  <2>2. ASSUME NEW i \in 1..Len(buffer'), buffer'[i].kind = "body"
        PROVE  Continues(buffer[i].bytes, Len(received.bytes))'
    <3>1. i \in 1..l /\ buffer[i].kind = "body" /\ buffer'[i] = buffer[i]
      BY <1>1, <1>3, <2>2
    <3>2. Continues(buffer[i].bytes, Len(received.bytes))
      BY <1>1, <3>1 DEF Faithful, Continued
    <3> QED
      BY <3>1, <3>2 DEF Continues
  <2>3. ASSUME NEW j \in 1..Len(arriving'), arriving'[j].kind = "body"
        PROVE  Continues(arriving[j].bytes, Len(received.bytes) + Waiting)'
    <3>1. j + 1 \in 1..Len(arriving) /\ arriving'[j] = arriving[j + 1]
      BY <1>2
    <3>2. Waiting = 0
      <4>1. \A i \in 1..Len(buffer) : buffer[i].kind # "body"
        BY <1>5, <2>3
      <4>2. buffer # <<>> => Len(buffer) \in 1..Len(buffer)
        BY EmptySeq DEF Typed
      <4> QED
        BY <4>1, <4>2 DEF Waiting, Last
    <3>3. Continues(arriving[j + 1].bytes, Len(received.bytes) + Waiting)
      BY <2>3, <3>1 DEF Faithful, Continued
    <3> QED
      BY <2>1, <3>1, <3>2, <3>3 DEF Continues
  <2> QED
    BY <2>2, <2>3, NetworkFrame DEF Continued
<1> QED
  BY <1>4, <1>6, <1>7, NetworkFrame DEF Faithful

(* A body arrives, or the first piece of it; what is left of it is still to come. *)
LEMMA ArriveBody ==
  ASSUME Typed, Faithful, arriving # <<>>, NEW t \in Sent, t = Head(arriving),
         NEW x \in Sent, Alike(x, t), x.kind = "body",
         Continues(x.bytes, Len(received.bytes) + Waiting),
         NEW v, buffer' = Arrived(x),
         \/ arriving' = Tail(arriving)
         \/ /\ v \in Sent /\ Alike(v, t) /\ arriving' = <<v>> \o Tail(arriving)
            /\ Continues(v.bytes, Len(received.bytes) + Waiting + Len(x.bytes)),
         UNCHANGED <<cmd, op, length, pc, received, answer, requests, store, late, swallowed>>
  PROVE  Faithful'
<1>1. PICK rest \in Seq(Sent) :
        /\ rest = Tail(arriving) /\ Len(rest) = Len(arriving) - 1 /\ Len(arriving) \in Nat \ {0}
        /\ \A j \in 1..Len(rest) : rest[j] = arriving[j + 1]
  BY HeadTailProperties, EmptySeq DEF Typed
<1>2. t = arriving[1] /\ 1 \in 1..Len(arriving) /\ t.kind = "body"
  BY <1>1 DEF Typed, Alike
<1>3. \A j \in 1..Len(rest) : j + 1 \in 1..Len(arriving) /\ rest[j].kind = "crlf"
  <2> SUFFICES ASSUME NEW j \in 1..Len(rest)
               PROVE  j + 1 \in 1..Len(arriving) /\ rest[j].kind = "crlf"
    OBVIOUS
  <2>1. j + 1 \in 1..Len(arriving) /\ 1 < j + 1
    BY <1>1
  <2> QED
    BY <1>1, <1>2, <2>1 DEF Faithful, Ordered, BodyLast
<1>4. \A i \in 1..Len(buffer) : buffer[i].kind = "body" => i = Len(buffer)
  BY <1>2 DEF Faithful, Ordered
<1>5. \A j \in 1..Len(arriving') :
        \/ arriving'[j].kind = "crlf" /\ \E k \in 1..Len(arriving) : arriving'[j] = arriving[k]
        \/ /\ j = 1 /\ arriving'[j] = v /\ Alike(v, t)
           /\ Continues(v.bytes, Len(received.bytes) + Waiting + Len(x.bytes))
  <2>1. CASE arriving' = rest
    BY <1>1, <1>3, <2>1
  <2>2. CASE /\ v \in Sent /\ Alike(v, t) /\ arriving' = <<v>> \o rest
             /\ Continues(v.bytes, Len(received.bytes) + Waiting + Len(x.bytes))
    <3>1. /\ Len(arriving') = 1 + Len(rest)
          /\ \A j \in 1..1 + Len(rest) : arriving'[j] = IF j <= 1 THEN v ELSE rest[j - 1]
      <4>1. <<v>> \in Seq(Sent) /\ Len(<<v>>) = 1 /\ <<v>>[1] = v
        BY <2>2
      <4> QED
        BY <2>2, <4>1, ConcatProperties
    <3> SUFFICES ASSUME NEW j \in 1..Len(arriving'), j # 1
                 PROVE  /\ arriving'[j].kind = "crlf"
                        /\ \E k \in 1..Len(arriving) : arriving'[j] = arriving[k]
      BY <2>2, <3>1
    <3>2. Len(rest) \in Nat /\ j \in 1..1 + Len(rest) /\ ~(j <= 1)
      <4>1. PICK n \in Nat : n = Len(rest)
        BY LenProperties
      <4>2. j \in 1..1 + n
        BY <3>1, <4>1
      <4> QED
        BY <4>1, <4>2
    <3>3. j - 1 \in 1..Len(rest) /\ arriving'[j] = rest[j - 1]
      BY <3>1, <3>2
    <3> QED
      BY <1>1, <1>3, <3>3
  <2> QED
    BY <1>1, <2>1, <2>2
<1>6. PICK m, y :
        /\ m \in Nat /\ Len(buffer') = m /\ m \in 1..m /\ buffer'[m] = y /\ Alike(y, t)
        /\ \A i \in 1..(m - 1) : /\ i \in 1..Len(buffer) /\ buffer'[i] = buffer[i]
                                 /\ buffer[i].kind # "body"
        /\ Continues(y.bytes, Len(received.bytes)) /\ Len(y.bytes) = Waiting + Len(x.bytes)
  <2>0. received.bytes \in Seq(Bytes) /\ Len(received.bytes) \in Nat /\ x.bytes \in Seq(Bytes)
        /\ Len(x.bytes) \in Nat
    <3>1. received.bytes \in Seq(Bytes) /\ x.bytes \in Seq(Bytes)
      BY DEF Typed, TypeOK, Sent, Tokens
    <3> QED
      BY <3>1, LenProperties
  <2>1. PICK l, b : l \in Nat /\ l = Len(buffer) /\ b = Arrived(x) /\ b = buffer'
    BY LenProperties DEF Typed
  <2>2. CASE buffer # <<>> /\ Last(buffer).kind = "body"
    <3>1. PICK y : y = Arrived(x)[l]
      OBVIOUS
    <3>2. /\ l # 0 /\ Len(buffer') = l /\ buffer'[l] = y
          /\ \A i \in 1..(l - 1) : buffer'[i] = buffer[i]
          /\ Alike(y, x) /\ y.bytes = Last(buffer).bytes \o x.bytes
      <4>1. buffer \in Seq(Sent)
        BY DEF Typed
      <4>2. /\ Len(buffer) \in Nat \ {0} /\ Len(b) = Len(buffer)
            /\ \A i \in 1..(Len(buffer) - 1) : b[i] = buffer[i]
            /\ Alike(b[Len(buffer)], x)
            /\ b[Len(buffer)].bytes = Last(buffer).bytes \o x.bytes
        BY <2>1, <2>2, <4>1, ArrivedJoins
      <4> QED
        BY <2>1, <3>1, <4>2
    <3>3. PICK a \in Seq(Bytes) : a = Last(buffer).bytes
      <4>1. Last(buffer) \in Sent
        BY <2>1, <3>2, ElementOfSeq DEF Typed, Last
      <4> QED
        BY <4>1 DEF Sent, Tokens
    <3>4. Continues(a, Len(received.bytes)) /\ Waiting = Len(a)
      <4>1. l \in 1..Len(buffer) /\ Last(buffer) = buffer[l]
        BY <2>1, <3>2 DEF Last
      <4> QED
        BY <2>2, <3>3, <4>1 DEF Faithful, Continued, Waiting
    <3>5. y.bytes = a \o x.bytes /\ Alike(y, t)
      BY <3>2, <3>3 DEF Alike
    <3>6. Continues(y.bytes, Len(received.bytes)) /\ Len(y.bytes) = Waiting + Len(x.bytes)
      BY <2>0, <3>4, <3>5, JoinContinues
    <3>7. \A i \in 1..(l - 1) : i \in 1..Len(buffer) /\ buffer[i].kind # "body"
      BY <1>4, <2>1
    <3>8. l \in 1..l
      BY <3>2
    <3> QED
      BY <2>1, <3>2, <3>5, <3>6, <3>7, <3>8
  <2>3. CASE ~(buffer # <<>> /\ Last(buffer).kind = "body")
    <3>1. /\ Len(buffer') = l + 1 /\ buffer'[l + 1] = x
          /\ \A i \in 1..l : buffer'[i] = buffer[i]
      <4>1. buffer \in Seq(Sent)
        BY DEF Typed
      <4>2. /\ Len(b) = Len(buffer) + 1 /\ b[Len(buffer) + 1] = x
            /\ \A i \in 1..Len(buffer) : b[i] = buffer[i]
        BY <2>1, <2>3, <4>1, ArrivedAppends
      <4> QED
        BY <2>1, <4>2
    <3>2. Waiting = 0
      BY <2>3 DEF Waiting
    <3>3. \A i \in 1..l : buffer[i].kind # "body"
      BY <1>4, <2>1, <2>3 DEF Last
    <3>4. Continues(x.bytes, Len(received.bytes)) /\ Len(x.bytes) = Waiting + Len(x.bytes)
      BY <2>0, <3>2
    <3>5. PICK m \in Nat : m = l + 1 /\ m - 1 = l /\ m \in 1..m
      BY <2>1
    <3>6. \A i \in 1..(m - 1) : /\ i \in 1..Len(buffer) /\ buffer'[i] = buffer[i]
                               /\ buffer[i].kind # "body"
      BY <2>1, <3>1, <3>3, <3>5
    <3>7. Len(buffer') = m /\ buffer'[m] = x
      BY <3>1, <3>5
    <3> QED
      BY <3>4, <3>5, <3>6, <3>7
  <2> QED
    BY <2>2, <2>3
<1>7. \A i \in 1..Len(buffer') : i \in 1..(m - 1) \/ i = m
  BY <1>6
<1>8. Stale' /\ Fitting'
  <2>1. \A i \in 1..Len(buffer') :
           \/ \E j \in 1..Len(buffer) : Alike(buffer'[i], buffer[j])
           \/ \E j \in 1..Len(arriving) : Alike(buffer'[i], arriving[j])
    BY <1>2, <1>6, <1>7, SMTT(30) DEF Alike
  <2>2. \A i \in 1..Len(arriving') : \E j \in 1..Len(arriving) : Alike(arriving'[i], arriving[j])
    BY <1>2, <1>5 DEF Alike
  <2> QED
    BY <2>1, <2>2, NetworkFrame, TokensKept DEF Faithful
<1>9. \A i \in 1..Len(buffer') : buffer'[i].kind = "body" => i = m
  BY <1>6, <1>7
<1>10. Ordered'
  <2>1. BodyLast(buffer)'
    BY <1>6, <1>9 DEF BodyLast
  <2>2. BodyLast(arriving)'
    <3> SUFFICES ASSUME NEW i \in 1..Len(arriving'), NEW j \in 1..Len(arriving'), i < j
                 PROVE  arriving'[j].kind = "crlf"
      BY DEF BodyLast
    <3>1. j # 1
      OBVIOUS
    <3> QED
      BY <1>5, <3>1
  <2>3. ASSUME NEW i \in 1..Len(buffer'), NEW j \in 1..Len(arriving'), buffer'[i].kind = "body"
        PROVE  \/ arriving'[j].kind = "crlf"
               \/ arriving'[j].kind = "body" /\ j = 1 /\ i = Len(buffer')
    BY <1>2, <1>5, <1>6, <1>9, <2>3 DEF Alike
  <2> QED
    BY <2>1, <2>2, <2>3 DEF Ordered
<1>11. Continued'
  <2>1. Waiting' = Waiting + Len(x.bytes)
    <3>1. Last(buffer)' = y /\ y.kind = "body"
      BY <1>2, <1>6 DEF Last, Alike
    <3>2. buffer' # <<>>
      <4>1. Len(<<>>) = 0
        OBVIOUS
      <4> QED
        BY <1>6, <4>1
    <3> QED
      BY <1>6, <3>1, <3>2 DEF Waiting
  <2>2. ASSUME NEW i \in 1..Len(buffer'), buffer'[i].kind = "body"
        PROVE  Continues(buffer[i].bytes, Len(received.bytes))'
    BY <1>6, <1>9, <2>2 DEF Continues
  <2>3. ASSUME NEW j \in 1..Len(arriving'), arriving'[j].kind = "body"
        PROVE  Continues(arriving[j].bytes, Len(received.bytes) + Waiting)'
    <3>1. /\ arriving'[j] = v
          /\ Continues(v.bytes, Len(received.bytes) + Waiting + Len(x.bytes))
      BY <1>5, <2>3
    <3>2. Len(received.bytes) + Waiting + Len(x.bytes) = Len(received'.bytes) + Waiting'
      <4>1. /\ Len(received.bytes) \in Nat /\ Len(x.bytes) \in Nat /\ Waiting \in Int
        <5>1. received.bytes \in Seq(Bytes) /\ x.bytes \in Seq(Bytes)
          BY DEF Typed, TypeOK, Sent, Tokens
        <5>2. Waiting \in Int
          <6>1. buffer # <<>> => Last(buffer) \in Sent
            <7>1. buffer # <<>> => Len(buffer) \in 1..Len(buffer)
              BY EmptySeq DEF Typed
            <7> QED
              BY <7>1, ElementOfSeq DEF Typed, Last
          <6>2. \A u \in Sent : u.bytes \in Seq(Bytes)
            BY DEF Sent, Tokens
          <6> QED
            BY <6>1, <6>2, LenProperties DEF Waiting
        <5> QED
          BY <5>1, <5>2, LenProperties
      <4>2. PICK i \in Int, j1 \in Int, k \in Int :
               i = Len(received.bytes) /\ j1 = Waiting /\ k = Len(x.bytes)
        BY <4>1
      <4>3. Waiting' = j1 + k /\ Len(received'.bytes) = i
        BY <2>1, <4>2
      <4>4. i + j1 + k = i + (j1 + k)
        OBVIOUS
      <4> QED
        BY <4>2, <4>3, <4>4
    <3> QED
      BY <3>1, <3>2 DEF Continues
  <2> QED
    BY <2>2, <2>3, NetworkFrame DEF Continued
<1> QED
  BY <1>8, <1>10, <1>11, NetworkFrame DEF Faithful

(* What arrives, whole or a piece of it, is what was on its way. *)
LEMMA ArriveFlow ==
  ASSUME Typed, Faithful, Arrive
  PROVE  Faithful'
<1>1. /\ arriving # <<>> /\ arriving \in Seq(Sent)
      /\ UNCHANGED <<cmd, op, length, pc, received, answer, requests, store, late, swallowed>>
  BY DEF Arrive, Typed, client, history
<1>2. PICK t \in Sent : t = Head(arriving) /\ t = arriving[1] /\ 1 \in 1..Len(arriving)
  BY <1>1, EmptySeq, HeadTailProperties
<1>3. t.bytes \in Seq(Bytes) /\ (t.kind # "body" => t.bytes = <<>>)
  BY DEF Sent, Tokens
<1>4. t.kind = "body" => Continues(t.bytes, Len(received.bytes) + Waiting)
  BY <1>2 DEF Faithful, Continued
<1>5. CASE buffer' = Arrived(t) /\ arriving' = Tail(arriving)
  <2>1. CASE t.kind = "body"
    <3>1. Alike(t, t)
      BY DEF Alike
    <3> QED
      BY <1>1, <1>2, <1>4, <1>5, <2>1, <3>1, ArriveBody
  <2>2. CASE t.kind # "body"
    BY <1>1, <1>2, <1>5, <2>2, ArriveToken
  <2> QED
    BY <2>1, <2>2
<1>6. ASSUME NEW k \in 1..(Len(t.bytes) - 1),
             buffer' = Arrived([t EXCEPT !.bytes = SubSeq(@, 1, k)]),
             arriving' = <<[t EXCEPT !.bytes = SubSeq(@, k + 1, Len(@))]>> \o Tail(arriving)
      PROVE  Faithful'
  <2>1. t.kind = "body"
    <3>1. Len(<<>>) = 0
      OBVIOUS
    <3> QED
      BY <1>3, <1>6, <3>1
  <2>2. PICK a, b : a = SubSeq(t.bytes, 1, k) /\ b = SubSeq(t.bytes, k + 1, Len(t.bytes))
    OBVIOUS
  <2>3. a \in Seq(Bytes) /\ b \in Seq(Bytes)
    BY <1>3, <2>2, Pieces
  <2>4. PICK x, v : x = [t EXCEPT !.bytes = a] /\ v = [t EXCEPT !.bytes = b]
    OBVIOUS
  <2>5. x \in Sent /\ v \in Sent
    BY <2>1, <2>3, <2>4, PieceSent
  <2>6. Alike(x, t) /\ Alike(v, t) /\ x.bytes = a /\ v.bytes = b
    BY <2>4 DEF Alike, Sent, Tokens
  <2>7. PICK n \in Nat : n = Len(received.bytes) + Waiting
    <3>1. received.bytes \in Seq(Bytes)
      BY DEF Typed, TypeOK
    <3>2. Waiting \in Nat
      <4>1. buffer # <<>> => Last(buffer) \in Sent
        <5>1. buffer # <<>> => Len(buffer) \in 1..Len(buffer)
          BY EmptySeq DEF Typed
        <5> QED
          BY <5>1, ElementOfSeq DEF Typed, Last
      <4>2. \A u \in Sent : u.bytes \in Seq(Bytes)
        BY DEF Sent, Tokens
      <4>3. 0 \in Nat
        OBVIOUS
      <4> QED
        BY <4>1, <4>2, <4>3, LenProperties DEF Waiting
    <3>3. Len(received.bytes) \in Nat
      BY <3>1, LenProperties
    <3> QED
      BY <3>2, <3>3
  <2>8. Continues(t.bytes, n) /\ Len(store) \in Nat
    <3>1. Continues(t.bytes, n)
      BY <1>4, <2>1, <2>7
    <3>2. store \in Seq(Bytes)
      BY <3>1 DEF Continues, Typed, Sized
    <3> QED
      BY <3>1, <3>2, LenProperties
  <2>9. Continues(a, n) /\ Len(a) = k /\ Continues(b, n + k)
    BY <1>3, <2>2, <2>8, CutContinues
  <2>10. /\ Continues(x.bytes, Len(received.bytes) + Waiting)
         /\ Continues(v.bytes, Len(received.bytes) + Waiting + Len(x.bytes))
    BY <2>6, <2>7, <2>9
  <2>11. buffer' = Arrived(x) /\ arriving' = <<v>> \o Tail(arriving) /\ x.kind = "body"
    BY <1>6, <2>1, <2>2, <2>4, <2>6 DEF Alike
  <2> QED
    BY <1>1, <1>2, <2>5, <2>6, <2>10, <2>11, ArriveBody
<1> QED
  BY <1>2, <1>5, <1>6 DEF Arrive

-----------------------------------------------------------------------------
(* What is left of the history once a step is taken. *)
LEMMA CleanBefore ==
  ASSUME Typed, [Next]_vars, Clean'
  PROVE  Clean /\ ~Swallow
<1>1. late' = late \/ late' = (late \/ Unanswered)
  BY DEF Next, vars, client, wire, history, NewCommand, del, exists, hDel, hExists, hGet, hSet,
         IntCommand, Open, WriteCommand, WriteMeta, WriteValue, WriteEnd, WriteFails, BrokenPipe,
         RecvInt, RecvLength, RecvBody, RecvFails, WriteResult, Close, Execute, Swallow, Arrive,
         ServerCloses
<1>2. swallowed' = swallowed \/ swallowed'
  BY DEF Next, vars, client, wire, history, NewCommand, del, exists, hDel, hExists, hGet, hSet,
         IntCommand, Open, WriteCommand, WriteMeta, WriteValue, WriteEnd, WriteFails, BrokenPipe,
         RecvInt, RecvLength, RecvBody, RecvFails, WriteResult, Close, Execute, Swallow, Arrive,
         ServerCloses
<1>3. ~Swallow
  BY DEF Swallow, Clean
<1> QED
  BY <1>1, <1>2, <1>3 DEF Clean, Typed, TypeOK

(* A step of a worker's function is one of these. *)
LEMMA WorkerSteps ==
  ASSUME del \/ exists \/ hDel \/ hExists \/ hGet \/ hSet
  PROVE  \/ Open \/ WriteCommand \/ WriteMeta \/ WriteValue \/ WriteEnd \/ WriteFails
         \/ BrokenPipe \/ RecvInt \/ RecvLength \/ (op = "hGet" /\ RecvBody) \/ RecvFails
         \/ WriteResult \/ Close
BY DEF del, exists, hDel, hExists, hGet, hSet, IntCommand

(* While every command waits for its reply and none is taken for another's, what
   is on the wire and what the worker has taken stay true, whatever the worker,
   the server and the network do. *)
LEMMA StepFlow == Typed /\ Saved /\ Flow /\ [Next]_vars => Flow'
<1> SUFFICES ASSUME Typed, Saved, Flow, [Next]_vars, Clean' PROVE Faithful'
  BY DEF Flow
<1>0. Clean /\ ~Swallow /\ Faithful
  BY CleanBefore DEF Flow
<1>1. ASSUME NEW f \in Functions, NEW n \in IF f = "hSet" THEN Lengths ELSE {0},
             NewCommand(f, n)
      PROVE  Faithful'
  BY <1>0, <1>1, NewFlow
<1>2. CASE Open \/ WriteMeta \/ WriteValue \/ BrokenPipe
  <2>1. /\ pc \in {"open", "write", "value", "end"}
        /\ UNCHANGED <<cmd, op, length, received, answer, arriving, store, requests>>
        /\ buffer' \in {buffer, <<>>} /\ pc' \notin {"idle", "body", "result"}
    BY <1>2 DEF Open, Clear, Goto, WriteMeta, WriteValue, BrokenPipe, Writing, wire
  <2> QED
    BY <1>0, <2>1, WritingFlow
<1>3. CASE WriteCommand \/ WriteEnd \/ WriteFails
  <2>1. /\ pc \in {"open", "write", "value", "end"}
        /\ UNCHANGED <<cmd, op, length, received, answer, arriving, store, buffer>>
        /\ pc' \notin {"idle", "body", "result"}
        /\ UNCHANGED requests \/ Send(FALSE) \/ (Send(TRUE) /\ pc' = "recv")
    BY <1>3 DEF WriteCommand, WriteEnd, WriteFails, Writing, Goto
  <2> QED
    BY <1>0, <2>1, WritingFlow
<1>4. CASE RecvInt
  BY <1>0, <1>4, RecvIntFlow
<1>5. CASE RecvLength
  BY <1>0, <1>5, RecvLengthFlow
<1>6. CASE op = "hGet" /\ RecvBody
  BY <1>0, <1>6, RecvBodyFlow
<1>7. CASE RecvFails
  <2>1. /\ pc \in {"recv", "body"} /\ pc' = "close"
        /\ UNCHANGED <<cmd, op, length, received, answer, requests, arriving, buffer, store>>
    BY <1>7 DEF RecvFails, Goto, wire
  <2> QED
    BY <1>0, <2>1, GiveUpFlow
<1>8. CASE WriteResult
  BY <1>0, <1>8, WriteResultFlow
<1>9. CASE Close
  BY <1>0, <1>9, CloseFlow
<1>10. CASE Execute
  BY <1>0, <1>10, ExecuteFlow
<1>11. CASE Arrive
  BY <1>0, <1>11, ArriveFlow
<1>12. CASE ServerCloses
  BY <1>0, <1>12, ServerClosesFlow
<1>13. CASE UNCHANGED vars
  <2>1. UNCHANGED <<cmd, op, length, pc, received, answer, requests, arriving, buffer, store,
                    late, swallowed>>
    BY <1>13 DEF vars, client, wire, history
  <2>2. Pending' /\ Got' /\ AnswerIsHeld' /\ (Unexecuted' => Unexecuted)
        /\ (received.bytes = <<>> \/ Continues(received.bytes, 0))'
    BY <1>0, <2>1, NetworkFrame
  <2>3. Stale' /\ Fitting'
    <3>1. \A i \in 1..Len(buffer') : \E j \in 1..Len(buffer) : Alike(buffer'[i], buffer[j])
      BY <2>1 DEF Alike
    <3>2. \A i \in 1..Len(arriving') : \E j \in 1..Len(arriving) : Alike(arriving'[i], arriving[j])
      BY <2>1 DEF Alike
    <3> QED
      BY <1>0, <2>1, <2>2, <3>1, <3>2, TokensKept DEF Faithful
  <2>4. Ordered'
    BY <1>0, <2>1 DEF Faithful, Ordered, BodyLast
  <2>5. Continued'
    <3>1. Waiting' = Waiting
      BY <2>1 DEF Waiting, Last
    <3> QED
      BY <1>0, <2>1, <3>1 DEF Faithful, Continued, Continues
  <2> QED
    BY <2>2, <2>3, <2>4, <2>5 DEF Faithful
<1>14. CASE del \/ exists \/ hDel \/ hExists \/ hGet \/ hSet
  BY <1>2, <1>3, <1>4, <1>5, <1>6, <1>7, <1>8, <1>9, <1>14, WorkerSteps
<1> QED
  BY <1>0, <1>1, <1>10, <1>11, <1>12, <1>13, <1>14 DEF Next

(* Nothing is on the wire at first. *)
LEMMA InitFlow == Init => Flow
<1> SUFFICES ASSUME Init PROVE Faithful
  BY DEF Flow
<1>1. Len(<<>>) = 0
  OBVIOUS
<1>2. /\ requests = <<>> /\ arriving = <<>> /\ buffer = <<>> /\ pc = "idle" /\ answer = NULL
      /\ received.bytes = <<>>
  BY DEF Init, NoBytes
<1>3. Pending /\ Stale /\ Fitting /\ Ordered
  BY <1>1, <1>2 DEF Pending, Stale, OnlyCrlf, Fitting, Ordered, BodyLast
<1>4. Continued /\ Got /\ AnswerIsHeld
  BY <1>1, <1>2 DEF Continued, Got, AnswerIsHeld
<1> QED
  BY <1>3, <1>4 DEF Faithful

(* Every request and token on the wire, and every byte the worker has taken, is
   accounted for by the value the server holds. *)
THEOREM FlowInv == Spec => [](Typed /\ Saved /\ Flow)
BY InitTyped, StepTyped, InitSaved, StepSaved, InitFlow, StepFlow, PTL DEF Spec

(* What the run checks as AnswerIsHeld: while every command waits for its reply
   and no request is cut off and followed by another, the answer of redis.c is the
   server's state, to the last byte of a load. *)
THEOREM AnswerCorrect == Spec => []AnswerIsHeld
<1>1. Flow => AnswerIsHeld
  BY DEF Flow, Clean, Faithful, AnswerIsHeld
<1> QED
  BY <1>1, FlowInv, PTL

-----------------------------------------------------------------------------
(* A body overruns the array of hGet() only with a value whose header does not fit
   in twice. *)
LEMMA OverrunStops ==
  ASSUME Typed, Saved, Faithful, Clean, op = "hGet", RecvBody, pc' = "stopped"
  PROVE  \E c \in 1..cmd : length[c] \notin Served \cup {0}
<1>1. /\ Continues(received.bytes, 0)' /\ store # NULL /\ UNCHANGED store
      /\ received'.bytes = received.bytes \o Head(buffer).bytes
  BY RecvBodyFlow
<1>2. PICK n : n = Len(received'.bytes)
  OBVIOUS
<1>3. HEADER + n > MAX_BLOB_LENGTH
  BY <1>1, <1>2 DEF RecvBody, Goto, Offset
<1>4. Len(received'.bytes) <= Len(store) /\ n \in Nat
  <2>1. Head(buffer) \in Sent
    BY HeadTailProperties DEF RecvBody, Typed
  <2>2. received.bytes \in Seq(Bytes) /\ Head(buffer).bytes \in Seq(Bytes)
    BY <2>1 DEF Typed, TypeOK, Sent, Tokens
  <2>3. received'.bytes \in Seq(Bytes)
    BY <1>1, <2>2, ConcatProperties
  <2>4. n \in Nat
    BY <1>2, <2>3, LenProperties
  <2>5. 0 + Len(received'.bytes) <= Len(store')
    BY <1>1 DEF Continues
  <2>6. 0 + n = n /\ store' = store
    BY <1>1, <2>4
  <2> QED
    BY <1>2, <2>4, <2>5, <2>6
<1>5. PICK c \in 1..cmd : Fit(c) /\ store = Value(c)
  BY <1>1 DEF Saved, HoldsValue, Clean
<1>6. c \in Commands /\ TypeOK
  BY CommandsSoFar DEF Typed
<1>7. Len(Value(c)) = length[c] + HEADER /\ length[c] \in Nat
  BY <1>6, ValueBytes
<1>8. HEADER \in Nat /\ MAX_BLOB_LENGTH \in Nat
  BY ConstantsAssumption
<1>9. length[c] \notin Served /\ length[c] # 0
  BY <1>2, <1>3, <1>4, <1>5, <1>7, <1>8 DEF Served, Fit
<1> QED
  BY <1>9

(* A step that stops the program has one of the three reasons, and a reason is
   never taken back. *)
LEMMA StepStops == Typed /\ Saved /\ Flow /\ StopsOnly /\ [Next]_vars => StopsOnly'
<1> SUFFICES ASSUME Typed, Saved, Flow, StopsOnly, [Next]_vars, Clean', pc' = "stopped"
             PROVE  \/ ~up'
                    \/ \E c \in 1..cmd' : length'[c] \notin Served \cup {0}
                    \/ op' = "hSet" /\ length'[cmd'] = 0
  BY DEF StopsOnly, Clean, Served
<1>0. Clean /\ ~Swallow /\ Faithful
  BY CleanBefore DEF Flow
<1>1. ASSUME NEW f \in Functions, NEW n \in IF f = "hSet" THEN Lengths ELSE {0},
             NewCommand(f, n)
      PROVE  \E c \in 1..cmd' : length'[c] \notin Served \cup {0}
  <2>1. /\ cmd' = cmd + 1 /\ length' = [length EXCEPT ![cmd + 1] = n]
        /\ n # 0 /\ n + HEADER > MAX_BLOB_LENGTH /\ cmd < MaxCommands
    BY <1>1 DEF NewCommand, Goto
  <2>2. /\ n \in Nat /\ HEADER \in Nat /\ MAX_BLOB_LENGTH \in Nat
        /\ cmd \in Nat /\ MaxCommands \in Nat
    <3>1. Lengths \subseteq Nat /\ HEADER \in Nat /\ MAX_BLOB_LENGTH \in Nat
          /\ MaxCommands \in Nat /\ 0 \in Nat
      BY ConstantsAssumption
    <3>2. n \in Nat
      BY <1>1, <3>1
    <3> QED
      BY <3>1, <3>2, CommandsSoFar DEF Typed
  <2>3. cmd + 1 \in Commands /\ cmd + 1 \in 1..cmd' /\ length \in [Commands -> Lengths \cup {0}]
    BY <2>1, <2>2 DEF Commands, Typed, TypeOK
  <2>4. length'[cmd + 1] = n
    BY <2>1, <2>3
  <2>5. n \notin Served \cup {0}
    BY <2>1, <2>2 DEF Served
  <2> QED
    BY <2>3, <2>4, <2>5
<1>2. CASE WriteMeta
  BY <1>2 DEF WriteMeta, Goto
<1>3. CASE BrokenPipe
  BY <1>3 DEF BrokenPipe, wire
<1>4. CASE op = "hGet" /\ RecvBody
  <2>1. \E c \in 1..cmd : length[c] \notin Served \cup {0}
    BY <1>0, <1>4, OverrunStops
  <2> QED
    BY <1>4, <2>1 DEF RecvBody
<1>5. ~(Open \/ WriteCommand \/ WriteValue \/ WriteEnd \/ WriteFails \/ RecvInt \/ RecvLength
          \/ RecvFails \/ WriteResult \/ Close)
  BY DEF Open, WriteCommand, WriteValue, WriteEnd, WriteFails, RecvInt, RecvLength, RecvFails,
         WriteResult, Close, Goto
<1>6. CASE Execute \/ Arrive \/ ServerCloses \/ UNCHANGED vars
  <2>1. UNCHANGED <<cmd, op, length, pc>> /\ (~up => ~up')
    BY <1>6 DEF Execute, Arrive, ServerCloses, vars, client, wire
  <2> QED
    BY <1>0, <2>1 DEF StopsOnly, Clean
<1>7. CASE del \/ exists \/ hDel \/ hExists \/ hGet \/ hSet
  BY <1>2, <1>3, <1>4, <1>5, <1>7, WorkerSteps
<1> QED
  BY <1>0, <1>1, <1>6, <1>7 DEF Next

(* What the run checks as StopsOnly: the program is stopped by a blob that is
   empty or too long for hGet(), or by the server, and by nothing else. *)
THEOREM StopsCorrect == Spec => []StopsOnly
<1>1. Init => StopsOnly
  BY DEF Init, StopsOnly
<1>2. Typed /\ Saved /\ Flow /\ StopsOnly /\ [Next]_vars => StopsOnly'
  BY StepStops
<1> QED
  BY <1>1, <1>2, FlowInv, PTL DEF Spec
=============================================================================
