--------------------------- MODULE HttpConnection ---------------------------
(***************************************************************************)
(* One worker thread of the web server, src/mongoose.c, and the            *)
(* connections it serves one after another with the same struct            *)
(* mg_connection: reading bytes from the socket until the blank line that  *)
(* ends the header, the callback that reads the body with mg_read, the     *)
(* rest of the body that is thrown away, and the closing of the socket.    *)
(*                                                                         *)
(* A byte is known by where it comes from: the connection and the place in *)
(* what the client sends.  What recv returns is chosen in each step, from  *)
(* one byte to all that was asked for, or nothing: the client closed the   *)
(* connection or reset it, or the receive timeout that the socket inherits *)
(* from the listening socket ran out.                                      *)
(***************************************************************************)
EXTENDS Integers, Sequences, FiniteSets

CONSTANTS
  Requests,     \* what clients can send, and what its header says
  Limits,       \* the sizes callbacks pass to mg_read; 0: it reads no body
  BufSize,      \* conn->buf_size
  DiscardSize,  \* sizeof(discard_buffer)
  MaxConns      \* bound: connections in one behaviour

(* printable, newline, carriage return, another control character *)
Kinds == {"h", "n", "r", "c"}

RequestFields == {"text", "head", "declared", "length"}

ASSUME SizesAssumption ==
  BufSize \in Nat \ {0} /\ DiscardSize \in Nat \ {0} /\ MaxConns \in Nat
ASSUME LimitsAssumption == Limits \subseteq Nat
ASSUME RequestsAssumption ==
  /\ Requests # {}
  /\ \A r \in Requests :
       /\ RequestFields \subseteq DOMAIN r
       /\ r.text \in Seq(Kinds)                \* the bytes the client sends
       /\ r.head \in {"ok", "bad", "version"}  \* parse_http_request, http_version
       /\ r.declared \in BOOLEAN               \* there is a Content-Length
       /\ r.length \in Int                     \* its value

VARIABLES
  pc,           \* where the worker is
  conns,        \* connections taken so far: the number of the current one
  req,          \* what its client sends
  taken,        \* how much of that the worker has received
  cut,          \* recv has returned nothing for this connection
  buf,          \* conn->buf, which outlives connections
  data_len,     \* conn->data_len
  request_len,  \* conn->request_len
  content_len,  \* conn->content_len
  consumed,     \* conn->consumed_content
  reader,       \* who called mg_read: the callback or the discarding
  limit,        \* the size the callback passed to mg_read
  want,         \* what mg_read still has to read
  nread,        \* what it has read
  given,        \* the bytes it gave to the callback
  replies       \* what was sent to the client

wire == <<conns, req>>
lengths == <<request_len, content_len>>
reading == <<reader, limit, want, nread, given>>

vars == <<pc, wire, taken, cut, buf, data_len, lengths, consumed, reading, replies>>

Least(a, b) == IF a < b THEN a ELSE b

(* The byte at a place of what the current client sends. *)
Byte(i) == [kind |-> req.text[i], conn |-> conns, at |-> i]
Nul == [kind |-> "0", conn |-> 0, at |-> 0]
Unsent == Len(req.text) - taken

Init ==
  /\ pc = "idle" /\ conns = 0
  /\ req = CHOOSE r \in Requests : TRUE    \* of no meaning before the first
  /\ taken = 0 /\ cut = FALSE
  /\ buf = [i \in 0..(BufSize - 1) |-> Nul]
  /\ data_len = 0 /\ request_len = 0 /\ content_len = 0 /\ consumed = 0
  /\ reader = "nobody" /\ limit = 0 /\ want = 0 /\ nread = 0
  /\ given = <<>> /\ replies = <<>>

Goto(place) == pc' = place
Send(code) == replies' = Append(replies, code)

-----------------------------------------------------------------------------
(* worker_thread takes the next connection.                                *)

Start(r) ==
  /\ pc = "idle" /\ conns < MaxConns
  /\ conns' = conns + 1
  /\ req' = r
  /\ taken' = 0 /\ cut' = FALSE
  /\ reader' = "nobody" /\ limit' = 0 /\ want' = 0 /\ nread' = 0 /\ given' = <<>>

(* process_new_connection begins with reset_per_request_attributes. *)
ResetKeepsData ==                                 \* mutant of Reset
  /\ data_len' = Least(data_len, 1)
  /\ request_len' = 0 /\ content_len' = -1 /\ consumed' = 0

ResetKeepsCount ==                                \* mutant of Reset
  data_len' = 0 /\ request_len' = 0 /\ content_len' = -1 /\ consumed' = consumed

Reset == data_len' = 0 /\ request_len' = 0 /\ content_len' = -1 /\ consumed' = 0

Accept(r) ==
  /\ Start(r) /\ Reset
  /\ replies' = <<>>
  /\ Goto("header")
  /\ UNCHANGED buf

(* getsockname fails. *)
AcceptBroken(r) ==
  /\ Start(r)
  /\ replies' = <<"500">>
  /\ Goto("closing")
  /\ UNCHANGED <<buf, data_len, lengths, consumed>>

-----------------------------------------------------------------------------
(* read_request and get_request_len.                                       *)

(* The places 0..n-1 of a buffer where the end of a header begins. *)
BlankAt(b, n, i) ==
  \/ i + 1 < n /\ b[i].kind = "n" /\ b[i + 1].kind = "n"
  \/ i + 2 < n /\ b[i].kind = "n" /\ b[i + 1].kind = "r" /\ b[i + 2].kind = "n"

BlankEnd(b, i) == IF b[i + 1].kind = "n" THEN i + 2 ELSE i + 3

(* The last byte is not looked at by itself. *)
ControlIn(b, n) == \E i \in 0..(n - 2) : b[i].kind = "c"

request_len_strict(b, n) ==                       \* mutant of get_request_len
  LET ends == {i \in 0..(n - 1) : BlankAt(b, n, i)}
  IN  IF ends # {} THEN BlankEnd(b, CHOOSE i \in ends : \A j \in ends : i <= j)
      ELSE IF \E i \in 0..(n - 1) : b[i].kind \in {"c", "r"} THEN -1 ELSE 0

(* The loop stops at the first blank line; a control character before it   *)
(* only makes the answer -1 until one is found.                            *)
get_request_len(b, n) ==
  LET ends == {i \in 0..(n - 1) : BlankAt(b, n, i)}
  IN  IF ends # {} THEN BlankEnd(b, CHOOSE i \in ends : \A j \in ends : i <= j)
      ELSE IF ControlIn(b, n) THEN -1 ELSE 0

(* recv appends to what the buffer holds. *)
Fill(n) ==
  buf' = [i \in 0..(BufSize - 1) |->
            IF i \in data_len..(data_len + n - 1) THEN Byte(taken + 1 + i - data_len)
            ELSE buf[i]]

ReadHeader(n) ==
  /\ pc = "header" /\ n \in 1..Least(BufSize - data_len, Unsent)
  /\ Fill(n)
  /\ data_len' = data_len + n
  /\ taken' = taken + n
  /\ request_len' = get_request_len(buf', data_len')
  /\ Goto(IF request_len' = 0 /\ data_len' < BufSize THEN "header" ELSE "framed")
  /\ UNCHANGED <<wire, cut, content_len, consumed, reading, replies>>

ReadHeaderEnds ==
  /\ pc = "header"
  /\ cut' = TRUE
  /\ Goto("framed")
  /\ UNCHANGED <<wire, taken, buf, data_len, lengths, consumed, reading, replies>>

-----------------------------------------------------------------------------
(* process_new_connection: what was read decides.                          *)

TooLarge ==
  /\ pc = "framed" /\ request_len = 0 /\ data_len = BufSize
  /\ Send("413") /\ Goto("closing")
  /\ UNCHANGED <<wire, taken, cut, buf, data_len, lengths, consumed, reading>>

(* The client went away, or the header is malformed: no reply. *)
Nothing ==
  /\ pc = "framed" /\ request_len <= 0 /\ ~(request_len = 0 /\ data_len = BufSize)
  /\ Goto("closing")
  /\ UNCHANGED <<wire, taken, cut, buf, data_len, lengths, consumed, reading, replies>>

TerminateOneOff == buf' = [buf EXCEPT ![request_len] = Nul]   \* mutant of Terminate
Terminate == buf' = [buf EXCEPT ![request_len - 1] = Nul]

NegativeLength == req.declared /\ req.length < 0

Refuse ==
  /\ pc = "framed" /\ request_len > 0
  /\ req.head # "ok" \/ NegativeLength
  /\ Terminate
  /\ content_len' = IF req.head = "ok" THEN req.length ELSE content_len
  /\ Send(IF req.head = "version" THEN "505" ELSE "400")
  /\ Goto("closing")
  /\ UNCHANGED <<wire, taken, cut, data_len, request_len, consumed, reading>>

Parse ==
  /\ pc = "framed" /\ request_len > 0
  /\ req.head = "ok" /\ ~NegativeLength
  /\ Terminate
  /\ content_len' = IF req.declared THEN req.length ELSE -1
  /\ Goto("handle")
  /\ UNCHANGED <<wire, taken, cut, data_len, request_len, consumed, reading, replies>>

-----------------------------------------------------------------------------
(* mg_read(conn, buf, len).  Where it returns to: *)
Return(who) == Goto(IF who = "callback" THEN "reply" ELSE "discarded")

Hand(who, s) == given' = IF who = "callback" THEN given \o s ELSE given

(* First the bytes of the body that came with the header ... *)
Buffered == data_len - request_len - consumed

MgRead(who, len) ==
  LET most == Least(len, content_len - consumed)
      n == IF Buffered > 0 THEN Least(most, Buffered) ELSE 0
  IN  /\ reader' = who
      /\ IF consumed < content_len
         THEN /\ Hand(who, [i \in 1..n |-> buf[request_len + consumed + i - 1]])
              /\ consumed' = consumed + n
              /\ nread' = n /\ want' = most - n
              /\ IF want' > 0 THEN Goto("pull") ELSE Return(who)
         ELSE /\ nread' = 0 /\ want' = 0
              /\ Return(who)
              /\ UNCHANGED <<consumed, given>>

(* ... then bytes from the socket, until all are there or none come.       *)
Pull(n) ==
  /\ pc = "pull" /\ n \in 1..Least(want, Unsent)
  /\ Hand(reader, [i \in 1..n |-> Byte(taken + i)])
  /\ taken' = taken + n
  /\ consumed' = consumed + n /\ nread' = nread + n /\ want' = want - n
  /\ IF want' > 0 THEN Goto("pull") ELSE Return(reader)
  /\ UNCHANGED <<wire, cut, buf, data_len, lengths, reader, limit, replies>>

PullEnds ==
  /\ pc = "pull"
  /\ cut' = TRUE
  /\ Return(reader)
  /\ UNCHANGED <<wire, taken, buf, data_len, lengths, consumed, reading, replies>>

-----------------------------------------------------------------------------
(* handle_request calls the callback, which may read the body and replies, *)
(* or leaves the reply to the server.                                      *)

Callback(len) ==
  /\ pc = "handle"
  /\ limit' = len
  /\ IF len > 0
     THEN MgRead("callback", len)
     ELSE Goto("reply") /\ UNCHANGED <<consumed, reader, want, nread, given>>
  /\ UNCHANGED <<wire, taken, cut, buf, data_len, lengths, replies>>

Reply ==
  /\ pc = "reply"
  /\ Send("callback")
  /\ Goto("discard")
  /\ UNCHANGED <<wire, taken, cut, buf, data_len, lengths, consumed, reading>>

CallbackDeclines ==
  /\ pc = "handle"
  /\ Send("404")
  /\ Goto("discard")
  /\ UNCHANGED <<wire, taken, cut, buf, data_len, lengths, consumed, reading>>

-----------------------------------------------------------------------------
(* discard_current_request_from_buffer: mg_read until the whole body has   *)
(* been read or nothing comes any more.                                    *)

Remaining == content_len - consumed

Discard ==
  /\ pc = "discard"
  /\ IF content_len # -1 /\ consumed < content_len
     THEN MgRead("discard", Least(Remaining, DiscardSize))
     ELSE Goto("closing") /\ UNCHANGED <<consumed, reader, want, nread, given>>
  /\ UNCHANGED <<wire, taken, cut, buf, data_len, lengths, limit, replies>>

DiscardOnce ==                                    \* mutant of Discarded
  /\ pc = "discarded"
  /\ Goto("closing")
  /\ UNCHANGED <<wire, taken, cut, buf, data_len, lengths, consumed, reading, replies>>

DiscardForever ==                                 \* mutant of Discarded
  /\ pc = "discarded"
  /\ Goto(IF Remaining <= 0 THEN "closing" ELSE "discard")
  /\ UNCHANGED <<wire, taken, cut, buf, data_len, lengths, consumed, reading, replies>>

Discarded ==
  /\ pc = "discarded"
  /\ Goto(IF nread <= 0 \/ Remaining <= 0 THEN "closing" ELSE "discard")
  /\ UNCHANGED <<wire, taken, cut, buf, data_len, lengths, consumed, reading, replies>>

-----------------------------------------------------------------------------
(* close_connection: the bytes that are pending are read and thrown away   *)
(* until there is none at the moment, and the socket is closed.            *)

Drain ==
  /\ pc = "closing"
  /\ \E n \in 1..Unsent : taken' = taken + n
  /\ UNCHANGED <<pc, wire, cut, buf, data_len, lengths, consumed, reading, replies>>

Close ==
  /\ pc = "closing"
  /\ Goto("idle")
  /\ UNCHANGED <<wire, taken, cut, buf, data_len, lengths, consumed, reading, replies>>

-----------------------------------------------------------------------------
Receive == \E n \in 1..Unsent : ReadHeader(n) \/ Pull(n)
ReceiveNothing == ReadHeaderEnds \/ PullEnds

Frame == TooLarge \/ Nothing \/ Refuse \/ Parse

WorkerStep ==
  \/ Receive \/ ReceiveNothing \/ Frame
  \/ (\E len \in Limits : Callback(len)) \/ CallbackDeclines \/ Reply
  \/ Discard \/ Discarded \/ Drain \/ Close

Next ==
  \/ \E r \in Requests : Accept(r) \/ AcceptBroken(r)
  \/ WorkerStep

Spec == Init /\ [][Next]_vars

(* The worker runs, and recv always returns: with bytes, or with nothing   *)
(* after the receive timeout, or at once in the draining.  What a client   *)
(* sends is finite.  Clients need not connect.                             *)
FairSpec == Spec /\ WF_vars(WorkerStep)

-----------------------------------------------------------------------------
(* Properties.                                                             *)

Bytes == [kind : Kinds \cup {"0"}, conn : 0..MaxConns, at : Nat]
Codes == {"500", "413", "400", "505", "404", "callback"}

(* Every variable keeps its type; the lengths stay within the buffer, and  *)
(* the assertions of mg_read (mongoose.c:383, 399), of                     *)
(* process_new_connection (740) and of the discarding (710) hold.          *)
TypeOK ==
  /\ pc \in {"idle", "header", "framed", "handle", "pull", "reply",
             "discard", "discarded", "closing"}
  /\ conns \in 0..MaxConns /\ req \in Requests
  /\ taken \in 0..Len(req.text) /\ cut \in BOOLEAN
  /\ buf \in [0..(BufSize - 1) -> Bytes]
  /\ data_len \in 0..BufSize
  /\ request_len \in Int /\ request_len <= data_len
  /\ content_len \in Int
  /\ consumed \in Nat /\ (consumed = 0 \/ consumed <= content_len)
  /\ reader \in {"nobody", "callback", "discard"}
  /\ limit \in Limits \cup {0}
  /\ want \in Nat /\ nread \in Nat
  /\ given \in Seq(Bytes)
  /\ replies \in Seq(Codes)

(* A header ends where the text first reads "\n\n" or "\n\r\n". *)
EndsBlank(t, k) ==
  \/ k >= 2 /\ t[k] = "n" /\ t[k - 1] = "n"
  \/ k >= 3 /\ t[k] = "n" /\ t[k - 1] = "r" /\ t[k - 2] = "n"

NoBlankBefore(t, m) == \A k \in 1..(m - 1) : ~EndsBlank(t, k)

Serving == {"handle", "pull", "reply", "discard", "discarded"}
Judged == {"framed"} \cup Serving

(* However the bytes are cut into segments, and whatever an earlier        *)
(* connection left in the buffer, a header that is accepted ends at the    *)
(* first blank line of what this client sent.                              *)
FramedAtBlankLine ==
  pc \in Judged /\ request_len > 0 =>
    /\ request_len <= taken /\ EndsBlank(req.text, request_len)
    /\ NoBlankBefore(req.text, request_len)

(* What mg_read gives to the callback is the body this client sent, from   *)
(* its first byte on and in order, whether it came with the header or      *)
(* after it; never more than the callback's buffer or the Content-Length,  *)
(* and less only if the client stopped sending.                            *)
BodyExact ==
  LET full == IF limit > 0 /\ content_len > 0 THEN Least(limit, content_len) ELSE 0
  IN  /\ \A i \in 1..Len(given) : given[i] = Byte(request_len + i)
      /\ pc \in Serving => Len(given) <= full
      /\ pc \in {"reply", "discard", "discarded"} /\ replies # <<"404">> =>
           Len(given) = full \/ cut

(* When the worker turns to closing, a request whose client did not stop   *)
(* sending has been received to its end: no byte of its body is left       *)
(* unread in the socket, where it would make the kernel reset the          *)
(* connection and destroy the reply.                                       *)
BodyConsumed ==
  pc = "closing" /\ replies \in {<<"callback">>, <<"404">>} /\ ~cut =>
    taken >= request_len + (IF req.declared THEN req.length ELSE 0)

(* A connection gets one reply, which fits what the client sent, or none:  *)
(* when the client stopped before the blank line, or a control character   *)
(* made the header malformed.  A header without one is never taken for     *)
(* malformed, and an incomplete one is waited for while there is room.     *)
(* This leaves open whether a header with a control character is answered, *)
(* which the code decides by how its bytes are cut into segments: see      *)
(* MalformedNotHandled.                                                    *)
Malformed == \E i \in 1..data_len : req.text[i] = "c"

Fits(code) ==
  CASE code = "413" -> data_len = BufSize /\ NoBlankBefore(req.text, BufSize + 1)
    [] code = "400" -> request_len > 0 /\ (req.head = "bad" \/ NegativeLength)
    [] code = "505" -> request_len > 0 /\ req.head = "version"
    [] code \in {"callback", "404"} ->
         request_len > 0 /\ req.head = "ok" /\ ~NegativeLength
    [] OTHER -> TRUE

AnsweredOnce ==
  /\ Len(replies) <= 1
  /\ \A i \in 1..Len(replies) : Fits(replies[i])
  /\ pc = "closing" /\ replies = <<>> =>
       IF request_len = 0 THEN cut /\ NoBlankBefore(req.text, data_len + 1)
       ELSE request_len = -1 /\ Malformed

(* "-1 if request is malformed" (mongoose.c:478), as "Control characters   *)
(* are not allowed" (487): no callback is called for a request that has    *)
(* one in its header.                                                      *)
MalformedNotHandled ==
  pc \in Serving => \A i \in 1..request_len : req.text[i] # "c"

(* However the client sends what it sends, and wherever it stops, its      *)
(* connection is closed in the end and the worker is free for another.     *)
(* That what a client sends has an end is assumed: the draining reads on   *)
(* for as long as more bytes have come.                                    *)
ConnectionClosed == pc # "idle" ~> pc = "idle"
=============================================================================
