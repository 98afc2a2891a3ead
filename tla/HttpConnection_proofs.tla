----------------------- MODULE HttpConnection_proofs -----------------------
(***************************************************************************)
(* Proofs about HttpConnection: for every set of requests, every size of   *)
(* the buffers and every number of connections, its safety properties hold *)
(* in every reachable state.                                               *)
(***************************************************************************)
EXTENDS HttpConnection, Induction_proofs, SequenceTheorems, TLAPS

-----------------------------------------------------------------------------
(* The inductive invariant.                                                *)

(* Until the header is judged, the worker holds exactly what it received.  *)
Collected ==
  pc \in {"header", "framed"} =>
    /\ taken = data_len /\ consumed = 0 /\ limit = 0 /\ given = <<>>
    /\ \A i \in 0..(data_len - 1) : buf[i] = Byte(i + 1)

(* What the length of the header says of the text. *)
FirstBlank(k) ==
  k <= taken /\ EndsBlank(req.text, k) /\ NoBlankBefore(req.text, k)

Unframed ==
  IF request_len = 0
  THEN (data_len < BufSize => cut) /\ NoBlankBefore(req.text, data_len + 1)
  ELSE request_len = -1 /\ Malformed

Judgement ==
  /\ pc = "header" => request_len = 0 /\ NoBlankBefore(req.text, data_len + 1)
  /\ pc = "framed" => IF request_len > 0 THEN FirstBlank(request_len) ELSE Unframed
  /\ pc \in Serving => request_len > 0 /\ FirstBlank(request_len)

Admitted == req.head = "ok" /\ ~NegativeLength

(* While the request is served, the place in the buffer and the place in   *)
(* the stream agree: what is beyond the header came from this client, and  *)
(* the socket is read only when the buffer has nothing left of the body.   *)
Reached == IF Buffered >= 0 THEN data_len ELSE request_len + consumed

Position ==
  pc \in Serving =>
    /\ Admitted
    /\ content_len = IF req.declared THEN req.length ELSE -1
    /\ taken = Reached
    /\ \A j \in request_len..(data_len - 1) : buf[j] = Byte(j + 1)
    /\ pc = "handle" => consumed = 0 /\ limit = 0 /\ given = <<>>
    /\ pc = "pull" =>
         /\ reader \in {"callback", "discard"}
         /\ want > 0 /\ want <= content_len - consumed
         /\ taken = request_len + consumed
    /\ pc = "discarded" => nread > 0 \/ cut

ByCallback == pc = "pull" /\ reader = "callback"
Afterwards == pc \in {"reply", "discard", "discarded"} \/ (pc = "pull" /\ reader = "discard")

Full == IF limit > 0 /\ content_len > 0 THEN Least(limit, content_len) ELSE 0

Delivered ==
  /\ \A i \in 1..Len(given) : given[i] = Byte(request_len + i)
  /\ ByCallback => Len(given) = consumed /\ Len(given) + want = Full
  /\ Afterwards => Len(given) <= Full /\ (Len(given) = Full \/ cut)

Silent == pc \in {"header", "framed", "handle", "reply"} \/ ByCallback
Replied == pc \in {"discard", "discarded"} \/ (pc = "pull" /\ reader = "discard")

Answered ==
  /\ Silent => replies = <<>>
  /\ Replied => replies \in {<<"callback">>, <<"404">>}
  /\ replies = <<>> \/ \E c \in Codes : replies = <<c>> /\ Fits(c)
  /\ pc = "closing" /\ replies = <<>> =>
       IF request_len = 0 THEN cut /\ NoBlankBefore(req.text, data_len + 1)
       ELSE request_len = -1 /\ Malformed

IInv ==
  /\ TypeOK /\ Collected /\ Judgement /\ Position /\ Delivered /\ Answered
  /\ BodyConsumed

-----------------------------------------------------------------------------
(* Facts about the operators.                                              *)

(* Least picks one of two numbers, and none is below it. *)
LEMMA LeastOfTwo ==
  ASSUME NEW a \in Int, NEW b \in Int
  PROVE  /\ Least(a, b) \in {a, b}
         /\ Least(a, b) <= a /\ Least(a, b) <= b
BY DEF Least

(* What get_request_len answers for n bytes of the text t: the place where *)
(* the first blank line ends; 0 or -1 if there is none, and -1 only if     *)
(* there is a control character.                                           *)
LEMMA HeaderLength ==
  ASSUME NEW n \in Nat, NEW b, NEW t, NEW l, l = get_request_len(b, n),
         \A i \in 0..(n - 1) : b[i].kind = t[i + 1]
  PROVE  /\ l \in Int /\ l <= n
         /\ l > 0 => EndsBlank(t, l) /\ NoBlankBefore(t, l)
         /\ l <= 0 => NoBlankBefore(t, n + 1)
         /\ l < 0 => l = -1 /\ \E i \in 1..n : t[i] = "c"
<1> DEFINE ends == {i \in 0..(n - 1) : BlankAt(b, n, i)}
<1>1. \A k \in 1..n : EndsBlank(t, k) =>
        \/ k >= 2 /\ t[k] = "n" /\ t[k - 1] = "n" /\ k - 2 \in ends
        \/ k >= 3 /\ t[k] = "n" /\ t[k - 1] = "r" /\ t[k - 2] = "n" /\ k - 3 \in ends
  <2> SUFFICES ASSUME NEW k \in 1..n, EndsBlank(t, k)
               PROVE  \/ k >= 2 /\ t[k] = "n" /\ t[k - 1] = "n" /\ k - 2 \in ends
                      \/ k >= 3 /\ t[k] = "n" /\ t[k - 1] = "r" /\ t[k - 2] = "n"
                         /\ k - 3 \in ends
    OBVIOUS
  <2>1. CASE k >= 2 /\ t[k] = "n" /\ t[k - 1] = "n"
    <3>1. b[k - 2].kind = "n" /\ b[k - 1].kind = "n"
      BY <2>1
    <3> QED BY <2>1, <3>1 DEF BlankAt
  <2>2. CASE k >= 3 /\ t[k] = "n" /\ t[k - 1] = "r" /\ t[k - 2] = "n"
    <3>1. b[k - 3].kind = "n" /\ b[k - 2].kind = "r" /\ b[k - 1].kind = "n"
      BY <2>2
    <3> QED BY <2>2, <3>1 DEF BlankAt
  <2> QED BY <2>1, <2>2 DEF EndsBlank
<1>2. CASE ends = {}
  <2>1. l = IF ControlIn(b, n) THEN -1 ELSE 0
    BY <1>2 DEF get_request_len
  <2>2. NoBlankBefore(t, n + 1)
    BY <1>1, <1>2 DEF NoBlankBefore
  <2>3. ControlIn(b, n) => \E i \in 1..n : t[i] = "c"
    BY DEF ControlIn
  <2>4. l \in {0, -1} /\ (l = -1 => \E i \in 1..n : t[i] = "c")
    BY <2>1, <2>3
  <2>5. l <= n /\ ~(l > 0)
    BY <2>4
  <2> QED BY <2>2, <2>4, <2>5
<1>3. CASE ends # {}
  <2> DEFINE first == CHOOSE i \in ends : \A j \in ends : i <= j
  <2>1. \E i \in ends : \A j \in ends : i <= j
    <3>1. ends \subseteq Nat
      OBVIOUS
    <3> HIDE DEF ends
    <3> QED BY <1>3, <3>1, SmallestMember, Zenon
  <2>2. first \in ends /\ \A j \in ends : first <= j
    BY <2>1
  <2>3. l = BlankEnd(b, first)
    BY <1>3 DEF get_request_len
  <2> HIDE DEF first
  <2>4. first \in 0..(n - 1) /\ BlankAt(b, n, first)
    BY <2>2
  <2>5. CASE b[first + 1].kind = "n"
    <3>1. BlankEnd(b, first) = first + 2 /\ first + 2 <= n
      BY <2>4, <2>5 DEF BlankEnd, BlankAt
    <3>2. b[first].kind = "n"
      BY <2>4, <2>5 DEF BlankAt
    <3>3. t[first + 1] = "n" /\ t[first + 2] = "n"
      BY <2>4, <2>5, <3>1, <3>2
    <3>4. EndsBlank(t, first + 2)
      BY <2>4, <3>3 DEF EndsBlank
    <3>5. NoBlankBefore(t, first + 2)
      BY <1>1, <2>2, <2>4, <3>1 DEF NoBlankBefore
    <3> QED BY <2>3, <2>4, <3>1, <3>4, <3>5
  <2>6. CASE b[first + 1].kind # "n"
    <3>1. BlankEnd(b, first) = first + 3 /\ first + 3 <= n
      BY <2>4, <2>6 DEF BlankEnd, BlankAt
    <3>2. b[first].kind = "n" /\ b[first + 1].kind = "r" /\ b[first + 2].kind = "n"
      BY <2>4, <2>6 DEF BlankAt
    <3>3. t[first + 1] = "n" /\ t[first + 2] = "r" /\ t[first + 3] = "n"
      BY <2>4, <3>1, <3>2
    <3>4. EndsBlank(t, first + 3)
      BY <2>4, <3>3 DEF EndsBlank
    <3>5. ~EndsBlank(t, first + 2)
      BY <2>4, <3>3 DEF EndsBlank
    <3>6. NoBlankBefore(t, first + 3)
      <4> SUFFICES ASSUME NEW k \in 1..(first + 2), EndsBlank(t, k)
                   PROVE  FALSE
        BY <2>4 DEF NoBlankBefore
      <4>1. k - 2 \in ends \/ k - 3 \in ends
        BY <1>1, <2>4, <3>1
      <4>2. k = first + 2
        BY <2>2, <2>4, <4>1
      <4> QED BY <3>5, <4>2
    <3> QED BY <2>3, <2>4, <3>1, <3>4, <3>6
  <2> QED BY <2>5, <2>6
<1> QED BY <1>2, <1>3

(* Adding n bytes from the client keeps the buffer the start of its text.  *)
LEMMA Filled ==
  ASSUME TypeOK, NEW n \in Nat, data_len + n <= BufSize, Fill(n), taken = data_len,
         \A i \in 0..(data_len - 1) : buf[i] = Byte(i + 1)
  PROVE  /\ DOMAIN buf' = 0..(BufSize - 1)
         /\ \A i \in 0..(data_len + n - 1) : buf'[i] = Byte(i + 1)
<1> SUFFICES ASSUME NEW i \in 0..(data_len + n - 1)
             PROVE  buf'[i] = Byte(i + 1)
  BY DEF Fill
<1>1. data_len \in Nat /\ i \in 0..(BufSize - 1)
  BY SizesAssumption DEF TypeOK
<1>2. CASE i \in 0..(data_len - 1)
  BY <1>1, <1>2 DEF Fill
<1>3. CASE i \in data_len..(data_len + n - 1)
  <2>1. buf'[i] = Byte(taken + 1 + i - data_len)
    BY <1>1, <1>3 DEF Fill
  <2>2. taken + 1 + i - data_len = i + 1
    BY <1>1, <1>3
  <2> QED BY <2>1, <2>2
<1> QED BY <1>1, <1>2, <1>3

(* The lengths are numbers, in their order. *)
LEMMA Numbers ==
  ASSUME TypeOK
  PROVE  /\ BufSize \in Nat /\ BufSize > 0 /\ data_len \in Nat /\ data_len <= BufSize
         /\ request_len \in Int /\ request_len <= data_len /\ content_len \in Int
         /\ req \in Requests /\ req.text \in Seq(Kinds) /\ Len(req.text) \in Nat
         /\ taken \in Nat /\ taken <= Len(req.text)
         /\ consumed \in Nat /\ (consumed = 0 \/ consumed <= content_len)
         /\ want \in Nat /\ nread \in Nat /\ limit \in Nat /\ Len(given) \in Nat
<1>1. req \in Requests /\ req.text \in Seq(Kinds) /\ limit \in Nat
  BY RequestsAssumption, LimitsAssumption DEF TypeOK
<1>2. given \in Seq(Bytes)
  BY DEF TypeOK
<1>3. Len(req.text) \in Nat /\ Len(given) \in Nat
  BY <1>1, <1>2
<1> QED BY <1>1, <1>3, SizesAssumption DEF TypeOK

(* A byte of the client is a byte. *)
LEMMA ByteType ==
  ASSUME TypeOK, NEW i \in 1..Len(req.text)
  PROVE  Byte(i) \in Bytes
<1>1. req.text \in Seq(Kinds)
  BY RequestsAssumption DEF TypeOK
<1>2. req.text[i] \in Kinds
  BY <1>1
<1> QED BY <1>2 DEF TypeOK, Byte, Bytes

(* One call of mg_read takes n bytes and leaves w to be read from the      *)
(* socket: what is buffered of the body comes first, the socket only when  *)
(* that is not enough.                                                     *)
Takes(who, len, n, w) ==
  /\ reader' = who /\ nread' = n /\ want' = w /\ consumed' = consumed + n
  /\ pc' = IF w > 0 THEN "pull" ELSE IF who = "callback" THEN "reply" ELSE "discarded"
  /\ given' = IF who = "callback"
              THEN given \o [i \in 1..n |-> Byte(request_len + consumed + i)]
              ELSE given
  /\ n + w = IF consumed < content_len THEN Least(len, content_len - consumed) ELSE 0
  /\ n + w > 0 => n + w <= content_len - consumed
  /\ w > 0 => taken = request_len + consumed + n
  /\ taken = IF data_len - request_len - (consumed + n) >= 0 THEN data_len
             ELSE request_len + consumed + n

LEMMA MgReadTakes ==
  ASSUME TypeOK, Position, pc \in {"handle", "discard"},
         NEW who \in {"callback", "discard"}, NEW len \in Nat, len > 0, MgRead(who, len)
  PROVE  \E n \in Nat, w \in Nat : Takes(who, len, n, w)
<1>1. /\ pc \in Serving /\ data_len \in Int /\ request_len \in Int /\ content_len \in Int
      /\ consumed \in Nat
  BY Numbers DEF Serving
<1>2. taken = Reached /\ \A j \in request_len..(data_len - 1) : buf[j] = Byte(j + 1)
  BY <1>1 DEF Position
<1>3. CASE consumed < content_len
  <2> DEFINE most == Least(len, content_len - consumed)
             n == IF Buffered > 0 THEN Least(most, Buffered) ELSE 0
             w == most - n
  <2>1. most \in Nat /\ most > 0 /\ most <= content_len - consumed
    BY <1>1, <1>3, LeastOfTwo
  <2>2. n \in Nat /\ n <= most /\ (n < most => n >= Buffered) /\ (n > 0 => n <= Buffered)
    BY <1>1, <2>1 DEF Least, Buffered
  <2>3. /\ reader' = who /\ consumed' = consumed + n /\ nread' = n /\ want' = w
        /\ Hand(who, [i \in 1..n |-> buf[request_len + consumed + i - 1]])
        /\ IF want' > 0 THEN Goto("pull") ELSE Return(who)
    BY <1>3 DEF MgRead
  <2>4. n + w = IF consumed < content_len THEN Least(len, content_len - consumed) ELSE 0
    BY <1>3, <2>1, <2>2
  <2>5. w \in Nat /\ n + w = most
    BY <2>1, <2>2
  <2> HIDE DEF n, most, w
  <2>6. [i \in 1..n |-> buf[request_len + consumed + i - 1]]
          = [i \in 1..n |-> Byte(request_len + consumed + i)]
    <3> SUFFICES ASSUME NEW i \in 1..n
                 PROVE  buf[request_len + consumed + i - 1] = Byte(request_len + consumed + i)
      OBVIOUS
    <3>1. request_len + consumed + i - 1 \in request_len..(data_len - 1)
      BY <1>1, <2>2 DEF Buffered
    <3>2. (request_len + consumed + i - 1) + 1 = request_len + consumed + i
      BY <1>1, <2>2
    <3> QED BY <1>2, <3>1, <3>2
  <2>7. given' = IF who = "callback"
                 THEN given \o [i \in 1..n |-> Byte(request_len + consumed + i)]
                 ELSE given
    BY <2>3, <2>6 DEF Hand
  <2>8. pc' = IF w > 0 THEN "pull" ELSE IF who = "callback" THEN "reply" ELSE "discarded"
    BY <2>3 DEF Goto, Return
  <2>9. w > 0 => taken = request_len + consumed + n
    BY <1>1, <1>2, <2>1, <2>2, <2>5 DEF Reached, Buffered
  <2>10. taken = IF data_len - request_len - (consumed + n) >= 0 THEN data_len
                 ELSE request_len + consumed + n
    BY <1>1, <1>2, <2>1, <2>2, <2>5 DEF Reached, Buffered
  <2>11. n + w <= content_len - consumed
    BY <2>1, <2>5
  <2>12. Takes(who, len, n, w)
    BY <2>3, <2>4, <2>7, <2>8, <2>9, <2>10, <2>11, Zenon DEF Takes
  <2> QED BY <2>2, <2>5, <2>12
<1>4. CASE ~(consumed < content_len)
  <2>1. /\ reader' = who /\ nread' = 0 /\ want' = 0 /\ Return(who)
        /\ consumed' = consumed /\ given' = given
    BY <1>4 DEF MgRead
  <2>2. given \o [i \in 1..0 |-> Byte(request_len + consumed + i)] = given
    <3>1. given \in Seq(Bytes)
      BY DEF TypeOK
    <3> QED BY <3>1, ConcatEmptySeq
  <2>3. Takes(who, len, 0, 0)
    BY <1>1, <1>2, <1>4, <2>1, <2>2 DEF Goto, Return, Reached, Buffered, Takes
  <2> QED BY <2>3
<1> QED BY <1>3, <1>4

(* What is read of a header fits into the buffer. *)
LEMMA HeaderRoom ==
  ASSUME TypeOK, NEW n \in 1..Unsent, ReadHeader(n)
  PROVE  /\ n \in Nat /\ n > 0 /\ data_len \in Nat /\ data_len + n \in Nat
         /\ data_len + n <= BufSize /\ taken + n <= Len(req.text)
<1>1. n \in Int /\ n > 0 /\ n <= Least(BufSize - data_len, Unsent)
  BY Numbers DEF ReadHeader, Unsent, Least
<1>2. n <= BufSize - data_len /\ n <= Unsent
  BY <1>1, Numbers DEF Unsent, Least
<1>3. n <= Len(req.text) - taken
  BY <1>2 DEF Unsent
<1>4. /\ BufSize \in Nat /\ data_len \in Nat
      /\ Len(req.text) \in Nat /\ taken \in Nat
  BY Numbers
<1> QED BY <1>1, <1>2, <1>3, <1>4

(* The types that a call of mg_read changes. *)
LEMMA TakesTypes ==
  ASSUME TypeOK, Judgement, Position, pc \in {"handle", "discard"},
         NEW who \in {"callback", "discard"}, NEW len \in Nat,
         NEW n \in Nat, NEW w \in Nat, Takes(who, len, n, w), UNCHANGED content_len
  PROVE  /\ pc' \in {"pull", "reply", "discarded"}
         /\ reader' \in {"callback", "discard"}
         /\ consumed' \in Nat /\ (consumed' = 0 \/ consumed' <= content_len')
         /\ want' \in Nat /\ nread' \in Nat
         /\ given' \in Seq(Bytes)
<1>1. /\ reader' = who /\ nread' = n /\ want' = w /\ consumed' = consumed + n
      /\ pc' \in {"pull", "reply", "discarded"}
  BY DEF Takes
<1>2. /\ request_len \in Int /\ data_len \in Int /\ content_len \in Int /\ consumed \in Nat
      /\ (consumed = 0 \/ consumed <= content_len)
      /\ taken <= Len(req.text) /\ Len(req.text) \in Int
  BY Numbers
<1>3. consumed + n \in Nat /\ (consumed + n = 0 \/ consumed + n <= content_len)
  BY <1>2 DEF Takes
<1>4. request_len + consumed + n <= Len(req.text)
  BY <1>2 DEF Takes
<1>5. given' \in Seq(Bytes)
  <2>1. given' = IF who = "callback"
                 THEN given \o [i \in 1..n |-> Byte(request_len + consumed + i)]
                 ELSE given
    BY DEF Takes
  <2>2. request_len > 0
    BY DEF Judgement, Serving
  <2>3. \A i \in 1..n : request_len + consumed + i \in 1..Len(req.text)
    BY <1>2, <1>4, <2>2
  <2>4. \A i \in 1..n : Byte(request_len + consumed + i) \in Bytes
    BY <2>3, ByteType
  <2>5. [i \in 1..n |-> Byte(request_len + consumed + i)] \in Seq(Bytes)
    BY <2>4
  <2>6. given \in Seq(Bytes)
    BY DEF TypeOK
  <2> QED BY <2>1, <2>5, <2>6, ConcatProperties
<1> QED BY <1>1, <1>3, <1>5

(* How the steps that read the body go.                                    *)
LEMMA PullGoes ==
  ASSUME TypeOK, NEW n \in 1..Unsent, Pull(n)
  PROVE  /\ n \in Nat /\ n > 0 /\ n <= want /\ taken + n <= Len(req.text)
         /\ pc = "pull"
         /\ pc' = IF want - n > 0 THEN "pull"
                  ELSE IF reader = "callback" THEN "reply" ELSE "discarded"
         /\ taken' = taken + n /\ consumed' = consumed + n
         /\ nread' = nread + n /\ want' = want - n
         /\ given' = IF reader = "callback" THEN given \o [i \in 1..n |-> Byte(taken + i)]
                     ELSE given
         /\ UNCHANGED <<conns, req, cut, buf, data_len, request_len, content_len, reader, limit,
                        replies>>
<1>1. n \in Int /\ n > 0 /\ n <= Least(want, Unsent)
  BY Numbers DEF Pull, Unsent, Least
<1>2. n <= want /\ n <= Unsent
  BY <1>1, Numbers DEF Unsent, Least
<1>3. n \in Nat /\ taken + n <= Len(req.text)
  BY <1>1, <1>2, Numbers DEF Unsent
<1> QED BY <1>1, <1>2, <1>3 DEF Pull, Goto, Return, Hand, wire, lengths

LEMMA CallbackGoes ==
  ASSUME TypeOK, Position, NEW len \in Limits, Callback(len)
  PROVE  /\ len \in Nat /\ pc = "handle" /\ limit' = len
         /\ UNCHANGED <<conns, req, taken, cut, buf, data_len, request_len, content_len, replies>>
         /\ \/ len > 0 /\ \E n, w \in Nat : Takes("callback", len, n, w)
            \/ len = 0 /\ pc' = "reply" /\ UNCHANGED <<consumed, reader, want, nread, given>>
<1>1. /\ len \in Nat /\ pc = "handle" /\ limit' = len
      /\ UNCHANGED <<conns, req, taken, cut, buf, data_len, request_len, content_len, replies>>
  BY LimitsAssumption DEF Callback, wire, lengths
<1>2. CASE len > 0
  <2>1. MgRead("callback", len)
    BY <1>2 DEF Callback
  <2>2. \E n, w \in Nat : Takes("callback", len, n, w)
    BY <1>1, <1>2, <2>1, MgReadTakes
  <2> QED BY <1>1, <1>2, <2>2
<1>3. CASE ~(len > 0)
  <2>1. len = 0 /\ pc' = "reply" /\ UNCHANGED <<consumed, reader, want, nread, given>>
    BY <1>1, <1>3 DEF Callback, Goto
  <2> QED BY <1>1, <2>1
<1> QED BY <1>2, <1>3

LEMMA DiscardGoes ==
  ASSUME TypeOK, Position, Discard
  PROVE  /\ pc = "discard"
         /\ UNCHANGED <<conns, req, taken, cut, buf, data_len, request_len, content_len, limit,
                        replies>>
         /\ \/ /\ consumed < content_len
               /\ \E len, n, w \in Nat : len > 0 /\ Takes("discard", len, n, w)
            \/ /\ content_len = -1 \/ ~(consumed < content_len)
               /\ pc' = "closing" /\ UNCHANGED <<consumed, reader, want, nread, given>>
<1>1. /\ pc = "discard"
      /\ UNCHANGED <<conns, req, taken, cut, buf, data_len, request_len, content_len, limit,
                     replies>>
  BY DEF Discard, wire, lengths
<1>2. CASE content_len # -1 /\ consumed < content_len
  <2> DEFINE len == Least(Remaining, DiscardSize)
  <2>1. len \in Nat /\ len > 0
    BY <1>2, SizesAssumption, Numbers DEF Least, Remaining
  <2>2. MgRead("discard", len)
    BY <1>2 DEF Discard
  <2> HIDE DEF len
  <2>3. \E n, w \in Nat : Takes("discard", len, n, w)
    BY <1>1, <2>1, <2>2, MgReadTakes
  <2> QED BY <1>1, <1>2, <2>1, <2>3
<1>3. CASE ~(content_len # -1 /\ consumed < content_len)
  <2>1. pc' = "closing" /\ UNCHANGED <<consumed, reader, want, nread, given>>
    BY <1>3 DEF Discard, Goto
  <2> QED BY <1>1, <1>3, <2>1
<1> QED BY <1>2, <1>3

-----------------------------------------------------------------------------
(* Every action keeps the types.                                           *)

LEMMA TypeStep ==
  ASSUME TypeOK, Collected, Judgement, Position, [Next]_vars
  PROVE  TypeOK'
<1>1. CASE \E r \in Requests : Accept(r) \/ AcceptBroken(r)
  <2>1. PICK r \in Requests : Accept(r) \/ AcceptBroken(r)
    BY <1>1
  <2>2. /\ conns < MaxConns /\ conns' = conns + 1 /\ req' = r /\ taken' = 0 /\ cut' = FALSE
        /\ pc' \in {"header", "closing"} /\ buf' = buf
        /\ reader' = "nobody" /\ limit' = 0 /\ want' = 0 /\ nread' = 0 /\ given' = <<>>
    BY <2>1 DEF Accept, AcceptBroken, Start, Goto
  <2>3. \/ data_len' = 0 /\ request_len' = 0 /\ content_len' = -1 /\ consumed' = 0
        \/ UNCHANGED <<data_len, request_len, content_len, consumed>>
    BY <2>1 DEF Accept, AcceptBroken, Reset, lengths
  <2>4. replies' \in Seq(Codes)
    <3>1. replies' = <<>> \/ replies' = <<"500">>
      BY <2>1 DEF Accept, AcceptBroken
    <3>2. "500" \in Codes
      BY DEF Codes
    <3>3. <<>> \in Seq(Codes) /\ \A c \in Codes : <<c>> \in Seq(Codes)
      OBVIOUS
    <3> QED BY <3>1, <3>2, <3>3
  <2>5. Len(r.text) \in Nat
    BY RequestsAssumption
  <2>6. conns + 1 \in 0..MaxConns /\ 0 \in 0..BufSize
    BY <2>2, SizesAssumption DEF TypeOK
  <2>7. /\ data_len' \in 0..BufSize /\ request_len' \in Int /\ request_len' <= data_len'
        /\ content_len' \in Int /\ consumed' \in Nat
        /\ consumed' = 0 \/ consumed' <= content_len'
    BY <2>3, <2>6 DEF TypeOK
  <2>8. taken' \in 0..Len(req'.text)
    BY <2>2, <2>5
  <2>9. conns' \in 0..MaxConns /\ req' \in Requests /\ cut' \in BOOLEAN /\ limit' \in Limits \cup {0}
    BY <2>2, <2>6
  <2>10. buf' \in [0..(BufSize - 1) -> Bytes] /\ given' \in Seq(Bytes)
    BY <2>2 DEF TypeOK
  <2> QED BY <2>2, <2>4, <2>7, <2>8, <2>9, <2>10 DEF TypeOK
<1>2. CASE \E n \in 1..Unsent : ReadHeader(n)
  <2>1. PICK n \in 1..Unsent : ReadHeader(n)
    BY <1>2
  <2>2. /\ n \in Nat /\ n > 0 /\ data_len + n <= BufSize /\ taken + n <= Len(req.text)
        /\ data_len \in Nat /\ data_len + n \in Nat /\ taken = data_len
    BY <2>1, HeaderRoom DEF ReadHeader, Collected
  <2>3. /\ Fill(n) /\ data_len' = data_len + n /\ taken' = taken + n
        /\ request_len' = get_request_len(buf', data_len + n)
        /\ pc' \in {"header", "framed"}
        /\ UNCHANGED <<conns, req, cut, content_len, consumed, reader, limit, want, nread,
                       given, replies>>
    BY <2>1 DEF ReadHeader, Goto, wire, reading
  <2>4. \A i \in 0..(data_len + n - 1) : buf'[i] = Byte(i + 1)
    BY <2>1, <2>2, <2>3, Filled DEF ReadHeader, Collected
  <2>5. buf' \in [0..(BufSize - 1) -> Bytes]
    <3> SUFFICES ASSUME NEW i \in 0..(BufSize - 1)
                 PROVE  buf'[i] \in Bytes
      BY <2>3 DEF Fill
    <3>1. CASE i \in data_len..(data_len + n - 1)
      <4>1. i + 1 \in 1..Len(req.text) /\ i \in 0..(data_len + n - 1)
        BY <2>2, <3>1, Numbers
      <4> QED BY <2>4, <4>1, ByteType
    <3>2. CASE ~(i \in data_len..(data_len + n - 1))
      BY <2>3, <3>2 DEF Fill, TypeOK
    <3> QED BY <3>1, <3>2
  <2>6. get_request_len(buf', data_len + n) \in Int
        /\ get_request_len(buf', data_len + n) <= data_len + n
    <3>1. \A i \in 0..(data_len + n - 1) : buf'[i].kind = req.text[i + 1]
      <4>1. \A i \in 0..(data_len + n - 1) : Byte(i + 1).kind = req.text[i + 1]
        BY DEF Byte
      <4> QED BY <2>4, <4>1
    <3>2. PICK b, m : b = buf' /\ m = data_len + n
      OBVIOUS
    <3>3. m \in Nat /\ \A i \in 0..(m - 1) : b[i].kind = req.text[i + 1]
      BY <2>2, <3>1, <3>2
    <3>4. get_request_len(b, m) \in Int /\ get_request_len(b, m) <= m
      BY <3>3, HeaderLength
    <3> QED BY <3>2, <3>4
  <2>7. data_len + n \in 0..BufSize /\ taken + n \in 0..Len(req.text)
    BY <2>2, Numbers
  <2> QED BY <2>3, <2>5, <2>6, <2>7 DEF TypeOK
<1>3. CASE \E n \in 1..Unsent : Pull(n)
  <2>1. PICK n \in 1..Unsent : Pull(n)
    BY <1>3
  <2>2. pc = "pull" /\ want <= content_len - consumed
    BY <2>1, PullGoes DEF Position, Serving
  <2>3. /\ n \in Nat /\ n <= want /\ taken + n <= Len(req.text)
        /\ taken' = taken + n /\ consumed' = consumed + n
        /\ nread' = nread + n /\ want' = want - n
        /\ pc' \in {"pull", "reply", "discarded"}
        /\ UNCHANGED <<conns, req, cut, buf, data_len, request_len, content_len, reader, limit,
                       replies>>
    BY <2>1, PullGoes
  <2>4. given' \in Seq(Bytes)
    <3>1. n \in Nat /\ taken + n <= Len(req.text) /\ taken \in Nat /\ Len(req.text) \in Nat
      BY <2>3, Numbers
    <3>2. \A i \in 1..n : Byte(taken + i) \in Bytes
      BY <3>1, ByteType
    <3>3. [i \in 1..n |-> Byte(taken + i)] \in Seq(Bytes)
      BY <2>3, <3>2
    <3>4. given' = IF reader = "callback" THEN given \o [i \in 1..n |-> Byte(taken + i)]
                   ELSE given
      BY <2>1, PullGoes
    <3>5. given \in Seq(Bytes)
      BY DEF TypeOK
    <3> QED BY <3>3, <3>4, <3>5, ConcatProperties
  <2>5. /\ taken + n \in 0..Len(req.text) /\ consumed + n \in Nat /\ consumed + n <= content_len
        /\ nread + n \in Nat /\ want - n \in Nat
    <3>1. /\ taken \in Nat /\ Len(req.text) \in Nat /\ consumed \in Nat /\ content_len \in Int
          /\ nread \in Nat /\ want \in Nat
      BY Numbers
    <3> QED BY <2>2, <2>3, <3>1
  <2> QED BY <2>3, <2>4, <2>5 DEF TypeOK
<1>4. CASE ReceiveNothing
  BY <1>4 DEF ReceiveNothing, ReadHeaderEnds, PullEnds, Goto, Return, wire, lengths, reading, TypeOK
<1>5. CASE TooLarge \/ Nothing \/ CallbackDeclines \/ Reply
  <2>1. replies' = replies \/ \E c \in Codes : replies' = Append(replies, c)
    BY <1>5 DEF TooLarge, Nothing, CallbackDeclines, Reply, Send, Codes
  <2>2. replies' \in Seq(Codes)
    <3>1. replies \in Seq(Codes)
      BY DEF TypeOK
    <3> QED BY <2>1, <3>1
  <2>3. /\ pc' \in {"closing", "discard"}
        /\ UNCHANGED <<wire, taken, cut, buf, data_len, lengths, consumed, reading>>
    BY <1>5 DEF TooLarge, Nothing, CallbackDeclines, Reply, Goto
  <2> QED BY <2>2, <2>3 DEF TypeOK, wire, lengths, reading
<1>6. CASE Refuse \/ Parse
  <2>1. /\ pc = "framed" /\ request_len > 0 /\ buf' = [buf EXCEPT ![request_len - 1] = Nul]
        /\ content_len' \in {content_len, req.length, -1}
        /\ pc' \in {"closing", "handle"}
        /\ UNCHANGED <<wire, taken, cut, data_len, request_len, consumed, reading>>
    BY <1>6 DEF Refuse, Parse, Goto, Terminate
  <2>2. Nul \in Bytes
    BY SizesAssumption DEF Nul, Bytes
  <2>3. buf' \in [0..(BufSize - 1) -> Bytes]
    BY <2>1, <2>2 DEF TypeOK
  <2>4. consumed = 0 /\ req.length \in Int
    BY <2>1, RequestsAssumption DEF Collected, TypeOK
  <2>5. replies' = replies \/ \E c \in Codes : replies' = Append(replies, c)
    BY <1>6 DEF Refuse, Parse, Send, Codes
  <2>6. replies' \in Seq(Codes)
    <3>1. replies \in Seq(Codes)
      BY DEF TypeOK
    <3> QED BY <2>5, <3>1
  <2> QED BY <2>1, <2>3, <2>4, <2>6 DEF TypeOK, wire, reading
<1>7. CASE \E len \in Limits : Callback(len)
  <2>1. PICK len \in Limits : Callback(len)
    BY <1>7
  <2>2. /\ len \in Nat /\ pc = "handle" /\ limit' = len
        /\ UNCHANGED <<conns, req, taken, cut, buf, data_len, request_len, content_len, replies>>
    BY <2>1, CallbackGoes
  <2>3. CASE \E n, w \in Nat : Takes("callback", len, n, w)
    <3>1. /\ pc' \in {"pull", "reply", "discarded"}
          /\ reader' \in {"callback", "discard"}
          /\ consumed' \in Nat /\ (consumed' = 0 \/ consumed' <= content_len')
          /\ want' \in Nat /\ nread' \in Nat
          /\ given' \in Seq(Bytes)
      BY <2>2, <2>3, TakesTypes
    <3> QED BY <2>2, <3>1 DEF TypeOK
  <2>4. CASE pc' = "reply" /\ UNCHANGED <<consumed, reader, want, nread, given>>
    BY <2>2, <2>4 DEF TypeOK
  <2> QED BY <2>1, <2>3, <2>4, CallbackGoes
<1>8. CASE Discard
  <2>1. /\ pc = "discard"
        /\ UNCHANGED <<conns, req, taken, cut, buf, data_len, request_len, content_len, limit,
                       replies>>
    BY <1>8, DiscardGoes
  <2>2. CASE \E len, n, w \in Nat : len > 0 /\ Takes("discard", len, n, w)
    <3>1. /\ pc' \in {"pull", "reply", "discarded"}
          /\ reader' \in {"callback", "discard"}
          /\ consumed' \in Nat /\ (consumed' = 0 \/ consumed' <= content_len')
          /\ want' \in Nat /\ nread' \in Nat
          /\ given' \in Seq(Bytes)
      BY <2>1, <2>2, TakesTypes
    <3> QED BY <2>1, <3>1 DEF TypeOK
  <2>3. CASE pc' = "closing" /\ UNCHANGED <<consumed, reader, want, nread, given>>
    BY <2>1, <2>3 DEF TypeOK
  <2> QED BY <1>8, <2>2, <2>3, DiscardGoes
<1>9. CASE Discarded \/ Drain \/ Close
  <2>1. taken' \in 0..Len(req.text)
    <3>1. CASE Drain
      BY <3>1, Numbers DEF Drain, Unsent
    <3>2. CASE Discarded \/ Close
      BY <3>2, Numbers DEF Discarded, Close
    <3> QED BY <1>9, <3>1, <3>2
  <2>2. /\ pc' \in {pc, "closing", "discard", "idle"}
        /\ UNCHANGED <<wire, cut, buf, data_len, lengths, consumed, reading, replies>>
    BY <1>9 DEF Discarded, Drain, Close, Goto
  <2> QED BY <2>1, <2>2 DEF TypeOK, wire, lengths, reading
<1>10. CASE UNCHANGED vars
  BY <1>10 DEF vars, wire, lengths, reading, TypeOK
<1> QED
  BY <1>1, <1>2, <1>3, <1>4, <1>5, <1>6, <1>7, <1>8, <1>9, <1>10
  DEF Next, WorkerStep, Receive, Frame

-----------------------------------------------------------------------------
(* What the steps that serve a request have in common.                     *)

Serves ==
  /\ pc \in Serving /\ pc' \in (Serving \ {"handle"}) \cup {"closing"}
  /\ taken' \in Int /\ taken' >= taken
  /\ UNCHANGED <<conns, req, buf, data_len, request_len, content_len>>

ServingStep ==
  \/ \E n \in 1..Unsent : Pull(n)
  \/ PullEnds \/ CallbackDeclines \/ Reply \/ Discard \/ Discarded
  \/ \E len \in Limits : Callback(len)

LEMMA StepKinds ==
  ASSUME [Next]_vars
  PROVE  \/ \E r \in Requests : Accept(r)
         \/ \E r \in Requests : AcceptBroken(r)
         \/ \E n \in 1..Unsent : ReadHeader(n)
         \/ ReadHeaderEnds \/ TooLarge \/ Nothing \/ Refuse \/ Parse
         \/ ServingStep
         \/ Drain \/ Close \/ UNCHANGED vars
BY DEF Next, WorkerStep, Receive, ReceiveNothing, Frame, ServingStep

LEMMA ReadGoes ==
  ASSUME NEW who \in {"callback", "discard"}, NEW len, MgRead(who, len)
  PROVE  pc' \in {"pull", "reply", "discarded"}
BY DEF MgRead, Goto, Return

LEMMA ServingKeeps ==
  ASSUME TypeOK, ServingStep
  PROVE  Serves
<1>1. taken \in Int
  BY Numbers
<1>2. CASE \E n \in 1..Unsent : Pull(n)
  <2>1. PICK n \in 1..Unsent : Pull(n)
    BY <1>2
  <2>2. n \in Int /\ n > 0
    BY Numbers DEF Unsent
  <2>3. taken + n \in Int /\ taken + n >= taken
    BY <1>1, <2>2
  <2>4. pc = "pull" /\ pc' \in {"pull", "reply", "discarded"} /\ taken' = taken + n
        /\ UNCHANGED <<wire, buf, data_len, lengths>>
    BY <2>1 DEF Pull, Goto, Return
  <2> QED BY <2>3, <2>4 DEF Serves, Serving, wire, lengths
<1>3. CASE PullEnds \/ CallbackDeclines \/ Reply \/ Discarded
  BY <1>1, <1>3
  DEF PullEnds, CallbackDeclines, Reply, Discarded, Goto, Return, Serves, Serving, wire, lengths
<1>4. CASE \E len \in Limits : Callback(len)
  <2>1. PICK len \in Limits : Callback(len)
    BY <1>4
  <2>2. pc' \in {"pull", "reply", "discarded"}
    BY <2>1, ReadGoes DEF Callback, Goto
  <2> QED BY <1>1, <2>1, <2>2 DEF Callback, Serves, Serving, wire, lengths
<1>5. CASE Discard
  <2>1. pc' \in {"pull", "reply", "discarded", "closing"}
    BY <1>5, ReadGoes DEF Discard, Goto
  <2> QED BY <1>1, <1>5, <2>1 DEF Discard, Serves, Serving, wire, lengths
<1> QED BY <1>2, <1>3, <1>4, <1>5, Zenon DEF ServingStep

(* A byte is the same as long as the client is. *)
LEMMA SameBytes ==
  ASSUME UNCHANGED <<conns, req>>
  PROVE  \A i : Byte(i)' = Byte(i)
BY DEF Byte

-----------------------------------------------------------------------------
(* Every action keeps what is collected of the header.                     *)

LEMMA CollectedStep ==
  ASSUME TypeOK, Collected, [Next]_vars
  PROVE  Collected'
<1>1. CASE \E r \in Requests : Accept(r)
  BY <1>1 DEF Accept, Start, Reset, Collected
<1>2. CASE \E n \in 1..Unsent : ReadHeader(n)
  <2>1. PICK n \in 1..Unsent : ReadHeader(n)
    BY <1>2
  <2>2. /\ n \in Nat /\ data_len \in Nat /\ data_len + n <= BufSize
    BY <2>1, HeaderRoom
  <2>3. /\ taken = data_len /\ consumed = 0 /\ limit = 0 /\ given = <<>>
        /\ \A i \in 0..(data_len - 1) : buf[i] = Byte(i + 1)
    BY <2>1 DEF ReadHeader, Collected
  <2>4. /\ Fill(n) /\ data_len' = data_len + n /\ taken' = taken + n
        /\ UNCHANGED <<conns, req, consumed, limit, given>>
    BY <2>1 DEF ReadHeader, wire, reading
  <2>5. \A i \in 0..(data_len + n - 1) : buf'[i] = Byte(i + 1)
    BY <2>2, <2>3, <2>4, Filled
  <2>6. \A i \in 0..(data_len + n - 1) : buf'[i] = Byte(i + 1)'
    BY <2>4, <2>5, SameBytes, Zenon
  <2>7. \A i \in 0..(data_len' - 1) : buf'[i] = Byte(i + 1)'
    <3>1. 0..(data_len' - 1) = 0..(data_len + n - 1)
      BY <2>2, <2>4
    <3> QED BY <2>6, <3>1
  <2> QED BY <2>3, <2>4, <2>7 DEF Collected
<1>3. CASE ReadHeaderEnds \/ UNCHANGED vars
  <2>1. /\ pc' \in {"header", "framed"} => pc \in {"header", "framed"}
        /\ UNCHANGED <<conns, req, taken, buf, data_len, consumed, limit, given>>
    BY <1>3 DEF ReadHeaderEnds, Goto, vars, wire, reading
  <2> QED BY <2>1, SameBytes DEF Collected
<1>4. CASE (\E r \in Requests : AcceptBroken(r)) \/ TooLarge \/ Nothing \/ Refuse \/ Parse
           \/ Drain \/ Close
  BY <1>4 DEF AcceptBroken, TooLarge, Nothing, Refuse, Parse, Drain, Close, Goto, Collected
<1>5. CASE ServingStep
  BY <1>5, ServingKeeps DEF Serves, Serving, Collected
<1> QED BY <1>1, <1>2, <1>3, <1>4, <1>5, StepKinds

-----------------------------------------------------------------------------
(* Every action keeps what the length of the header says.                  *)

LEMMA JudgementStep ==
  ASSUME TypeOK, Collected, Judgement, [Next]_vars
  PROVE  Judgement'
<1>1. CASE \E r \in Requests : Accept(r)
  BY <1>1 DEF Accept, Start, Reset, Goto, Judgement, Serving, NoBlankBefore
<1>2. CASE \E n \in 1..Unsent : ReadHeader(n)
  <2>1. PICK n \in 1..Unsent : ReadHeader(n)
    BY <1>2
  <2>2. PICK m \in Nat : m = data_len + n
    BY <2>1, HeaderRoom
  <2>3. n \in Nat /\ data_len \in Nat /\ m <= BufSize /\ taken = data_len
    BY <2>1, <2>2, HeaderRoom DEF ReadHeader, Collected
  <2>4. /\ Fill(n) /\ data_len' = m /\ taken' = m
        /\ UNCHANGED <<conns, req>>
    BY <2>1, <2>2, <2>3 DEF ReadHeader, wire
  <2>5. \A i \in 0..(m - 1) : buf'[i] = Byte(i + 1)
    BY <2>1, <2>2, <2>3, <2>4, Filled DEF ReadHeader, Collected
  <2>6. PICK b, l : b = buf' /\ l = request_len'
    OBVIOUS
  <2>7. \A i \in 0..(m - 1) : b[i].kind = req.text[i + 1]
    <3>1. \A i : Byte(i + 1).kind = req.text[i + 1]
      BY DEF Byte
    <3> QED BY <2>5, <2>6, <3>1
  <2>8. l = get_request_len(b, m)
    BY <2>1, <2>4, <2>6 DEF ReadHeader
  <2>9. /\ l \in Int /\ l <= m
        /\ l > 0 => EndsBlank(req.text, l) /\ NoBlankBefore(req.text, l)
        /\ l <= 0 => NoBlankBefore(req.text, m + 1)
        /\ l < 0 => l = -1 /\ \E i \in 1..m : req.text[i] = "c"
    BY <2>7, <2>8, HeaderLength
  <2>10. pc' = IF l = 0 /\ m < BufSize THEN "header" ELSE "framed"
    BY <2>1, <2>4, <2>6 DEF ReadHeader, Goto
  <2>11. CASE l > 0
    <3>1. pc' = "framed"
      BY <2>10, <2>11
    <3>2. FirstBlank(l)'
      BY <2>4, <2>9, <2>11 DEF FirstBlank, EndsBlank, NoBlankBefore
    <3> QED BY <2>6, <2>11, <3>1, <3>2 DEF Judgement, Serving
  <2>12. CASE l = 0
    <3>1. NoBlankBefore(req.text, data_len + 1)'
      BY <2>4, <2>9, <2>12 DEF NoBlankBefore, EndsBlank
    <3>2. pc' = "framed" => ~(data_len' < BufSize)
      BY <2>4, <2>10, <2>12
    <3>3. pc' \in {"header", "framed"}
      BY <2>10
    <3> QED BY <2>6, <2>12, <3>1, <3>2, <3>3 DEF Judgement, Serving, Unframed
  <2>13. CASE l < 0
    <3>1. pc' = "framed" /\ request_len' = -1
      BY <2>6, <2>9, <2>10, <2>13
    <3>2. Malformed'
      BY <2>4, <2>9, <2>13 DEF Malformed
    <3> QED BY <3>1, <3>2 DEF Judgement, Serving, Unframed
  <2> QED BY <2>9, <2>11, <2>12, <2>13
<1>3. CASE ReadHeaderEnds
  <2>1. /\ pc = "header" /\ pc' = "framed" /\ cut' = TRUE
        /\ UNCHANGED <<req, data_len, request_len>>
    BY <1>3 DEF ReadHeaderEnds, Goto, wire, lengths
  <2>2. request_len' = 0 /\ NoBlankBefore(req.text, data_len + 1)'
    BY <2>1 DEF Judgement
  <2> QED BY <2>1, <2>2 DEF Judgement, Serving, Unframed
<1>4. CASE Parse
  <2>1. /\ pc = "framed" /\ request_len > 0 /\ pc' = "handle"
        /\ UNCHANGED <<req, taken, request_len>>
    BY <1>4 DEF Parse, Goto, wire
  <2>2. FirstBlank(request_len)'
    BY <2>1 DEF Judgement, FirstBlank
  <2> QED BY <2>1, <2>2 DEF Judgement
<1>5. CASE ServingStep
  <2>1. Serves
    BY <1>5, ServingKeeps
  <2>2. request_len > 0 /\ FirstBlank(request_len)
    BY <2>1 DEF Serves, Judgement
  <2>3. FirstBlank(request_len)'
    <3>1. request_len \in Int /\ taken \in Int
      BY Numbers
    <3> QED BY <2>1, <2>2, <3>1 DEF Serves, FirstBlank
  <2> QED BY <2>1, <2>2, <2>3 DEF Serves, Judgement, Serving
<1>6. CASE UNCHANGED vars
  BY <1>6 DEF vars, wire, lengths, Judgement, FirstBlank, Unframed, Malformed
<1>7. CASE (\E r \in Requests : AcceptBroken(r)) \/ TooLarge \/ Nothing \/ Refuse \/ Drain \/ Close
  <2>1. pc' \in {"closing", "idle"}
    BY <1>7 DEF AcceptBroken, TooLarge, Nothing, Refuse, Drain, Close, Goto
  <2> QED BY <2>1 DEF Judgement, Serving
<1> QED BY <1>1, <1>2, <1>3, <1>4, <1>5, <1>6, <1>7, StepKinds

-----------------------------------------------------------------------------
(* Every action keeps the places in the buffer and the stream together.    *)

(* The part of Position that serving changes. *)
Place ==
  /\ taken = Reached
  /\ pc = "pull" =>
       /\ reader \in {"callback", "discard"}
       /\ want > 0 /\ want <= content_len - consumed
       /\ taken = request_len + consumed
  /\ pc = "discarded" => nread > 0 \/ cut

LEMMA TakesPlace ==
  ASSUME TypeOK, NEW who \in {"callback", "discard"}, NEW len \in Nat, len > 0,
         NEW n \in Nat, NEW w \in Nat, Takes(who, len, n, w),
         who = "callback" \/ consumed < content_len,
         UNCHANGED <<taken, data_len, request_len, content_len>>
  PROVE  Place'
<1>1. /\ request_len \in Int /\ data_len \in Int /\ content_len \in Int /\ consumed \in Nat
      /\ taken \in Int
  BY Numbers
<1>2. Reached' = IF data_len - request_len - (consumed + n) >= 0 THEN data_len
                 ELSE request_len + (consumed + n)
  BY <1>1 DEF Reached, Buffered, Takes
<1>3. taken' = Reached'
  BY <1>1, <1>2 DEF Takes
<1>4. w > 0 => w <= content_len - (consumed + n)
  BY <1>1 DEF Takes
<1>5. ASSUME pc' = "discarded" PROVE nread' > 0
  <2>1. w = 0 /\ who # "callback"
    BY <1>5 DEF Takes
  <2>2. n = Least(len, content_len - consumed)
    BY <1>1, <2>1 DEF Takes
  <2>3. n > 0
    BY <1>1, <2>1, <2>2 DEF Least
  <2> QED BY <2>3 DEF Takes
<1>6. ASSUME pc' = "pull" PROVE w > 0 /\ want' = w /\ reader' = who
  BY <1>6 DEF Takes
<1>7. consumed' = consumed + n
  BY DEF Takes
<1>8. w > 0 => taken' = request_len' + consumed'
  BY <1>1, <1>7 DEF Takes
<1>9. w > 0 => w <= content_len' - consumed'
  BY <1>1, <1>4, <1>7
<1> QED BY <1>3, <1>5, <1>6, <1>8, <1>9 DEF Place

LEMMA PlaceStep ==
  ASSUME TypeOK, Position, ServingStep
  PROVE  pc' \in Serving => Place'
<1>0. Place
  BY ServingKeeps DEF Serves, Position, Place
<1>1. CASE \E n \in 1..Unsent : Pull(n)
  <2>1. PICK n \in 1..Unsent : Pull(n)
    BY <1>1
  <2>2. /\ n \in Nat /\ n > 0 /\ n <= want /\ pc = "pull"
        /\ taken \in Int /\ request_len \in Int /\ data_len \in Int /\ consumed \in Nat
        /\ want \in Nat /\ nread \in Nat /\ content_len \in Int
    BY <2>1, PullGoes, Numbers
  <2>3. /\ taken' = taken + n /\ consumed' = consumed + n
        /\ nread' = nread + n /\ want' = want - n
        /\ pc' = IF want - n > 0 THEN "pull"
                 ELSE IF reader = "callback" THEN "reply" ELSE "discarded"
        /\ UNCHANGED <<data_len, request_len, content_len, reader>>
    BY <2>1, PullGoes
  <2>4. taken = request_len + consumed /\ taken = Reached
    BY <1>0, <2>2 DEF Place
  <2>5. Reached' = IF data_len - request_len - (consumed + n) >= 0 THEN data_len
                   ELSE request_len + (consumed + n)
    BY <2>2, <2>3 DEF Reached, Buffered
  <2>6. taken' = Reached'
    BY <2>2, <2>3, <2>4, <2>5 DEF Reached, Buffered
  <2>7. nread' > 0
    BY <2>2, <2>3
  <2>8. pc' = "pull" => /\ want' > 0 /\ want' <= content_len' - consumed'
                        /\ taken' = request_len' + consumed'
    BY <1>0, <2>2, <2>3, <2>4 DEF Place
  <2>9. reader' \in {"callback", "discard"}
    BY <1>0, <2>2, <2>3 DEF Place
  <2> QED BY <2>6, <2>7, <2>8, <2>9 DEF Place
<1>2. CASE \E len \in Limits : Callback(len)
  <2>1. PICK len \in Limits : Callback(len)
    BY <1>2
  <2>2. len \in Nat /\ UNCHANGED <<taken, data_len, request_len, content_len>>
    BY <2>1, CallbackGoes
  <2>3. CASE len > 0 /\ \E n, w \in Nat : Takes("callback", len, n, w)
    BY <2>2, <2>3, TakesPlace
  <2>4. CASE pc' = "reply" /\ UNCHANGED <<consumed, reader, want, nread, given>>
    BY <1>0, <2>2, <2>4 DEF Place, Reached, Buffered
  <2> QED BY <2>1, <2>3, <2>4, CallbackGoes
<1>3. CASE Discard
  <2>1. UNCHANGED <<taken, data_len, request_len, content_len>>
    BY <1>3, DiscardGoes
  <2>2. CASE consumed < content_len /\ \E len, n, w \in Nat : len > 0 /\ Takes("discard", len, n, w)
    BY <2>1, <2>2, TakesPlace
  <2>3. CASE pc' = "closing"
    BY <2>3 DEF Serving
  <2> QED BY <1>3, <2>2, <2>3, DiscardGoes
<1>4. CASE PullEnds
  BY <1>0, <1>4 DEF PullEnds, Goto, Return, lengths, reading, Place, Reached, Buffered
<1>5. CASE CallbackDeclines \/ Reply \/ Discarded
  <2>1. pc' \in {"discard", "closing"}
        /\ UNCHANGED <<taken, data_len, request_len, content_len, consumed>>
    BY <1>5 DEF CallbackDeclines, Reply, Discarded, Goto, lengths
  <2> QED BY <1>0, <2>1 DEF Place, Reached, Buffered
<1> QED BY <1>1, <1>2, <1>3, <1>4, <1>5, Zenon DEF ServingStep

LEMMA PositionStep ==
  ASSUME TypeOK, Collected, Judgement, Position, [Next]_vars
  PROVE  Position'
<1>1. CASE Parse
  <2>1. /\ pc = "framed" /\ request_len > 0 /\ pc' = "handle" /\ Admitted
        /\ buf' = [buf EXCEPT ![request_len - 1] = Nul]
        /\ content_len' = IF req.declared THEN req.length ELSE -1
        /\ UNCHANGED <<conns, req, taken, data_len, request_len, consumed, limit, given>>
    BY <1>1 DEF Parse, Goto, Terminate, Admitted, wire, reading
  <2>2. /\ request_len \in Int /\ data_len \in Int /\ request_len <= data_len
        /\ taken = data_len /\ consumed = 0 /\ limit = 0 /\ given = <<>>
        /\ \A i \in 0..(data_len - 1) : buf[i] = Byte(i + 1)
        /\ buf \in [0..(BufSize - 1) -> Bytes]
    BY <2>1, Numbers DEF Collected, TypeOK
  <2>3. Admitted'
    BY <2>1 DEF Admitted, NegativeLength
  <2>4. taken' = Reached'
    BY <2>1, <2>2 DEF Reached, Buffered
  <2>5. \A j \in request_len..(data_len - 1) : buf'[j] = Byte(j + 1)
    <3> SUFFICES ASSUME NEW j \in request_len..(data_len - 1)
                 PROVE  buf'[j] = Byte(j + 1)
      OBVIOUS
    <3>1. j \in 0..(data_len - 1) /\ j # request_len - 1
      BY <2>1, <2>2
    <3>2. j \in 0..(BufSize - 1)
      BY <3>1, <2>2, Numbers
    <3> QED BY <2>1, <2>2, <3>1, <3>2
  <2>6. \A j \in request_len'..(data_len' - 1) : buf'[j] = Byte(j + 1)'
    BY <2>1, <2>5, SameBytes
  <2> QED BY <2>1, <2>2, <2>3, <2>4, <2>6 DEF Position
<1>2. CASE ServingStep
  <2>1. Serves
    BY <1>2, ServingKeeps
  <2>2. /\ Admitted /\ content_len = IF req.declared THEN req.length ELSE -1
        /\ \A j \in request_len..(data_len - 1) : buf[j] = Byte(j + 1)
    BY <2>1 DEF Serves, Position
  <2>3. Admitted' /\ content_len' = IF req'.declared THEN req'.length ELSE -1
    BY <2>1, <2>2 DEF Serves, Admitted, NegativeLength
  <2>4. \A j \in request_len'..(data_len' - 1) : buf'[j] = Byte(j + 1)'
    BY <2>1, <2>2, SameBytes DEF Serves
  <2>5. pc' # "handle" /\ (pc' \in Serving => Place')
    BY <1>2, <2>1, PlaceStep DEF Serves
  <2> QED BY <2>3, <2>4, <2>5 DEF Position, Place
<1>3. CASE UNCHANGED vars
  <2>1. UNCHANGED <<pc, conns, req, taken, cut, buf, data_len, request_len, content_len, consumed,
                    reader, limit, want, nread, given>>
    BY <1>3 DEF vars, wire, lengths, reading
  <2>2. pc \in Serving => \A j \in request_len'..(data_len' - 1) : buf'[j] = Byte(j + 1)'
    BY <2>1, SameBytes DEF Position
  <2>3. Admitted' = Admitted /\ Reached' = Reached
    BY <2>1 DEF Admitted, NegativeLength, Reached, Buffered
  <2> QED BY <2>1, <2>2, <2>3 DEF Position
<1>4. CASE \/ \E r \in Requests : Accept(r)
           \/ \E r \in Requests : AcceptBroken(r)
           \/ \E n \in 1..Unsent : ReadHeader(n)
           \/ ReadHeaderEnds \/ TooLarge \/ Nothing \/ Refuse \/ Drain \/ Close
  <2>1. pc' \notin Serving
    BY <1>4 DEF Accept, AcceptBroken, ReadHeader, ReadHeaderEnds, TooLarge, Nothing, Refuse,
                Drain, Close, Goto, Serving
  <2> QED BY <2>1 DEF Position
<1> QED BY <1>1, <1>2, <1>3, <1>4, StepKinds

-----------------------------------------------------------------------------
(* Every action keeps what is given to the callback a part of the body.    *)

FromBody == \A i \in 1..Len(given) : given[i] = Byte(request_len + i)

LEMMA EmptyFromBody ==
  ASSUME given = <<>>
  PROVE  FromBody
BY DEF FromBody

LEMMA SameFromBody ==
  ASSUME FromBody, UNCHANGED <<conns, req, request_len, given>>
  PROVE  FromBody'
BY SameBytes DEF FromBody

(* Appending the next n bytes of the body. *)
LEMMA MoreFromBody ==
  ASSUME TypeOK, FromBody, NEW at \in Int, at = request_len + Len(given), NEW n \in Nat,
         given' = given \o [i \in 1..n |-> Byte(at + i)],
         UNCHANGED <<conns, req, request_len>>
  PROVE  FromBody' /\ Len(given') = Len(given) + n
<1> DEFINE more == [i \in 1..n |-> Byte(at + i)]
<1>1. /\ given \in Seq(Bytes) /\ Len(given) \in Nat /\ request_len \in Int
  BY Numbers DEF TypeOK
<1> DEFINE S == Bytes \cup {Byte(at + i) : i \in 1..n}
<1>2. (\A i \in 1..n : Byte(at + i) \in S) /\ Bytes \subseteq S
  OBVIOUS
<1> HIDE DEF S
<1>3. given \in Seq(S) /\ more \in Seq(S) /\ Len(more) = n
  <2>1. given \in Seq(S)
    BY <1>1, <1>2, SeqMonotonic
  <2>2. more \in [1..n -> S]
    BY <1>2
  <2> HIDE DEF more
  <2> QED BY <2>1, <2>2
<1>4. /\ Len(given \o more) = Len(given) + n
      /\ \A i \in 1..(Len(given) + n) :
           (given \o more)[i] = IF i <= Len(given) THEN given[i] ELSE more[i - Len(given)]
  BY <1>1, <1>3, ConcatProperties
<1>5. ASSUME NEW i \in 1..(Len(given) + n)
      PROVE  (given \o more)[i] = Byte(request_len + i)
  <2>1. CASE i <= Len(given)
    BY <1>1, <1>4, <2>1 DEF FromBody
  <2>2. CASE ~(i <= Len(given))
    <3>1. i - Len(given) \in 1..n /\ at + (i - Len(given)) = request_len + i
      BY <1>1, <2>2
    <3>2. more[i - Len(given)] = Byte(at + (i - Len(given)))
      BY <3>1
    <3> HIDE DEF more
    <3> QED BY <1>4, <2>2, <3>1, <3>2
  <2> QED BY <2>1, <2>2
<1>6. given' = given \o more
  OBVIOUS
<1> HIDE DEF more
<1>7. Len(given') = Len(given) + n
  BY <1>4, <1>6
<1>8. \A i \in 1..(Len(given) + n) : given'[i] = Byte(request_len + i)'
  BY <1>5, <1>6, SameBytes
<1> QED BY <1>7, <1>8 DEF FromBody

(* The sizes of what is given. *)
Amount ==
  /\ ByCallback => Len(given) = consumed /\ Len(given) + want = Full
  /\ Afterwards => Len(given) <= Full /\ (Len(given) = Full \/ cut)

LEMMA DeliveredStep ==
  ASSUME TypeOK, Collected, Position, Delivered, [Next]_vars
  PROVE  Delivered'
<1>0. FromBody /\ Amount
  BY DEF Delivered, FromBody, Amount
<1> SUFFICES FromBody' /\ Amount'
  BY DEF Delivered, FromBody, Amount
<1>1. CASE \/ \E r \in Requests : Accept(r)
           \/ \E r \in Requests : AcceptBroken(r)
           \/ \E n \in 1..Unsent : ReadHeader(n)
  <2>1. given' = <<>> /\ pc' \in {"header", "framed", "closing"}
    BY <1>1 DEF Accept, AcceptBroken, Start, ReadHeader, Collected, Goto, reading
  <2>2. FromBody'
    BY <2>1 DEF FromBody
  <2> QED BY <2>1, <2>2 DEF Amount, ByCallback, Afterwards
<1>2. CASE ReadHeaderEnds \/ TooLarge \/ Nothing \/ Refuse \/ Parse \/ Drain \/ Close
  <2>1. /\ UNCHANGED <<conns, req, request_len, given>>
        /\ pc' \in {"framed", "closing", "handle", "idle"}
    BY <1>2 DEF ReadHeaderEnds, TooLarge, Nothing, Refuse, Parse, Drain, Close, Goto,
                wire, lengths, reading
  <2>2. FromBody'
    BY <1>0, <2>1, SameFromBody
  <2> QED BY <2>1, <2>2 DEF Amount, ByCallback, Afterwards
<1>3. CASE \E n \in 1..Unsent : Pull(n)
  <2>1. PICK n \in 1..Unsent : Pull(n)
    BY <1>3
  <2>2. /\ n \in Nat /\ pc = "pull" /\ n <= want
        /\ want \in Nat /\ consumed \in Nat /\ request_len \in Int /\ taken \in Nat
        /\ Len(given) \in Nat
    BY <2>1, PullGoes, Numbers
  <2>3. taken = request_len + consumed
    BY <2>2 DEF Position, Serving
  <2>4. /\ consumed' = consumed + n /\ want' = want - n
        /\ pc' = IF want - n > 0 THEN "pull"
                 ELSE IF reader = "callback" THEN "reply" ELSE "discarded"
        /\ UNCHANGED <<conns, req, cut, request_len, content_len, reader, limit>>
    BY <2>1, PullGoes
  <2>5. Full' = Full
    BY <2>4 DEF Full
  <2>6. CASE reader = "callback"
    <3>1. Len(given) = consumed /\ Len(given) + want = Full
      BY <1>0, <2>2, <2>6 DEF Amount, ByCallback
    <3>2. given' = given \o [i \in 1..n |-> Byte(taken + i)]
      BY <2>1, <2>6, PullGoes
    <3>3. FromBody' /\ Len(given') = Len(given) + n
      BY <1>0, <2>2, <2>3, <2>4, <3>1, <3>2, MoreFromBody
    <3>4. ByCallback' => Len(given') = consumed' /\ Len(given') + want' = Full'
      BY <2>2, <2>4, <2>5, <3>1, <3>3
    <3>5. Afterwards' => Len(given') = Full' /\ Len(given') <= Full'
      BY <2>2, <2>4, <2>5, <2>6, <3>1, <3>3 DEF Afterwards
    <3> QED BY <3>3, <3>4, <3>5 DEF Amount
  <2>7. CASE reader # "callback"
    <3>1. given' = given
      BY <2>1, <2>7, PullGoes
    <3>2. Afterwards
      BY <2>2, <2>7 DEF Position, Serving, Afterwards
    <3>3. FromBody'
      BY <1>0, <2>4, <3>1, SameFromBody
    <3>4. ~ByCallback'
      BY <2>4, <2>7 DEF ByCallback
    <3> QED BY <1>0, <2>4, <2>5, <3>1, <3>2, <3>3, <3>4 DEF Amount
  <2> QED BY <2>6, <2>7
<1>4. CASE PullEnds
  <2>1. /\ pc = "pull" /\ cut' = TRUE
        /\ pc' = IF reader = "callback" THEN "reply" ELSE "discarded"
        /\ UNCHANGED <<conns, req, request_len, content_len, reader, limit, given>>
    BY <1>4 DEF PullEnds, Goto, Return, wire, lengths, reading
  <2>2. FromBody' /\ Full' = Full
    BY <1>0, <2>1, SameFromBody DEF Full
  <2>3. Len(given) <= Full
    <3>1. reader \in {"callback", "discard"} /\ want \in Nat /\ Len(given) \in Nat
      BY <2>1, Numbers DEF Position, Serving
    <3>2. CASE reader = "callback"
      <4>1. Len(given) + want = Full
        BY <1>0, <2>1, <3>2 DEF Amount, ByCallback
      <4> QED BY <3>1, <4>1
    <3>3. CASE reader = "discard"
      BY <1>0, <2>1, <3>3 DEF Amount, Afterwards
    <3> QED BY <3>1, <3>2, <3>3
  <2> QED BY <2>1, <2>2, <2>3 DEF Amount, ByCallback
<1>5. CASE \E len \in Limits : Callback(len)
  <2>1. PICK len \in Limits : Callback(len)
    BY <1>5
  <2>2. /\ len \in Nat /\ pc = "handle" /\ limit' = len
        /\ UNCHANGED <<conns, req, cut, request_len, content_len>>
    BY <2>1, CallbackGoes
  <2>3. /\ consumed = 0 /\ given = <<>> /\ request_len \in Int /\ content_len \in Int
    BY <2>2, Numbers DEF Position, Serving
  <2>4. Full' = IF len > 0 /\ content_len > 0 THEN Least(len, content_len) ELSE 0
    BY <2>2 DEF Full
  <2>5. CASE len > 0 /\ \E n, w \in Nat : Takes("callback", len, n, w)
    <3>1. PICK n \in Nat, w \in Nat : Takes("callback", len, n, w)
      BY <2>5
    <3>2. given' = given \o [i \in 1..n |-> Byte(request_len + consumed + i)]
      BY <3>1 DEF Takes
    <3>3. request_len + consumed = request_len + Len(given) /\ request_len + consumed \in Int
          /\ Len(given) = 0
      BY <2>3
    <3>4. FromBody' /\ Len(given') = Len(given) + n
      BY <1>0, <2>2, <3>2, <3>3, MoreFromBody
    <3>5. Len(given') = n
      BY <3>3, <3>4
    <3>6. n + w = Full'
      BY <2>3, <2>4, <2>5, <3>1 DEF Takes
    <3>7. consumed' = n /\ want' = w
      BY <2>3, <3>1 DEF Takes
    <3>8. /\ pc' = IF w > 0 THEN "pull" ELSE "reply"
          /\ reader' = "callback"
      BY <3>1 DEF Takes
    <3>9. Afterwards' => n = Full'
      BY <3>6, <3>8 DEF Afterwards
    <3>10. ByCallback' => Len(given') = consumed' /\ Len(given') + want' = Full'
      BY <3>5, <3>6, <3>7
    <3>11. Afterwards' => Len(given') <= Full' /\ Len(given') = Full'
      BY <3>5, <3>9
    <3> QED BY <3>4, <3>10, <3>11 DEF Amount
  <2>6. CASE len = 0 /\ pc' = "reply" /\ UNCHANGED <<consumed, reader, want, nread, given>>
    <3>1. given' = <<>> /\ Full' = 0
      BY <2>3, <2>4, <2>6
    <3>2. FromBody'
      BY <3>1 DEF FromBody
    <3> QED BY <2>6, <3>1, <3>2 DEF Amount, ByCallback
  <2> QED BY <2>1, <2>5, <2>6, CallbackGoes
<1>6. CASE CallbackDeclines
  <2>1. /\ pc = "handle" /\ pc' = "discard"
        /\ UNCHANGED <<conns, req, request_len, content_len, limit, given>>
    BY <1>6 DEF CallbackDeclines, Goto, wire, lengths, reading
  <2>2. given' = <<>> /\ Full' = 0
    BY <2>1 DEF Position, Serving, Full
  <2>3. FromBody'
    BY <2>2 DEF FromBody
  <2> QED BY <2>1, <2>2, <2>3 DEF Amount, ByCallback
<1>7. CASE Reply \/ Discard \/ Discarded
  <2>1. /\ pc \in {"reply", "discard", "discarded"}
        /\ UNCHANGED <<conns, req, cut, request_len, content_len, limit>>
    BY <1>7, DiscardGoes DEF Reply, Discarded, wire, lengths, reading
  <2>2. given' = given /\ ~ByCallback'
    <3>1. CASE Discard
      <4>1. CASE \E len, n, w \in Nat : len > 0 /\ Takes("discard", len, n, w)
        BY <4>1 DEF Takes, ByCallback
      <4>2. CASE pc' = "closing" /\ UNCHANGED <<consumed, reader, want, nread, given>>
        BY <4>2 DEF ByCallback
      <4> QED BY <3>1, <4>1, <4>2, DiscardGoes
    <3>2. CASE Reply \/ Discarded
      BY <3>2 DEF Reply, Discarded, Goto, reading, ByCallback
    <3> QED BY <1>7, <3>1, <3>2
  <2>3. FromBody' /\ Full' = Full
    BY <1>0, <2>1, <2>2, SameFromBody DEF Full
  <2>4. Len(given) <= Full /\ (Len(given) = Full \/ cut)
    BY <1>0, <2>1 DEF Amount, Afterwards
  <2> QED BY <2>1, <2>2, <2>3, <2>4 DEF Amount
<1>8. CASE UNCHANGED vars
  <2>1. UNCHANGED <<pc, conns, req, cut, request_len, content_len, consumed, reader, limit, want,
                    given>>
    BY <1>8 DEF vars, wire, lengths, reading
  <2>2. FromBody'
    BY <1>0, <2>1, SameFromBody
  <2> QED BY <1>0, <2>1, <2>2 DEF Amount, ByCallback, Afterwards, Full
<1> QED BY <1>1, <1>2, <1>3, <1>4, <1>5, <1>6, <1>7, <1>8, StepKinds DEF ServingStep

-----------------------------------------------------------------------------
(* Every action keeps the replies fitting.                                 *)

OneReply == replies = <<>> \/ \E c \in Codes : replies = <<c>> /\ Fits(c)

Unanswered ==
  IF request_len = 0 THEN cut /\ NoBlankBefore(req.text, data_len + 1)
  ELSE request_len = -1 /\ Malformed

(* A reply that fits goes on fitting. *)
LEMMA SameFits ==
  ASSUME UNCHANGED <<req, data_len, request_len>>
  PROVE  \A c : Fits(c)' = Fits(c)
BY DEF Fits, NegativeLength

LEMMA SameReply ==
  ASSUME OneReply, UNCHANGED <<req, data_len, request_len, replies>>
  PROVE  OneReply'
BY SameFits DEF OneReply

LEMMA AnsweredStep ==
  ASSUME TypeOK, Judgement, Position, Answered, [Next]_vars
  PROVE  Answered'
<1>0. /\ Silent => replies = <<>>
      /\ Replied => replies \in {<<"callback">>, <<"404">>}
      /\ OneReply
      /\ pc = "closing" /\ replies = <<>> => Unanswered
  BY DEF Answered, OneReply, Unanswered
<1> SUFFICES /\ Silent' => replies' = <<>>
             /\ Replied' => replies' \in {<<"callback">>, <<"404">>}
             /\ OneReply'
             /\ pc' = "closing" /\ replies' = <<>> => Unanswered'
  BY DEF Answered, OneReply, Unanswered
<1>1. CASE \E r \in Requests : Accept(r)
  BY <1>1 DEF Accept, Goto, OneReply, Replied
<1>2. CASE \E r \in Requests : AcceptBroken(r)
  <2>1. replies' = <<"500">> /\ pc' = "closing"
    BY <1>2 DEF AcceptBroken, Goto
  <2>2. "500" \in Codes /\ Fits("500")'
    BY DEF Codes, Fits
  <2>3. OneReply'
    BY <2>1, <2>2 DEF OneReply
  <2> QED BY <2>1, <2>3 DEF Silent, Replied, ByCallback
<1>3. CASE (\E n \in 1..Unsent : ReadHeader(n)) \/ ReadHeaderEnds
  <2>1. pc = "header" /\ replies' = replies /\ pc' \in {"header", "framed"}
    BY <1>3 DEF ReadHeader, ReadHeaderEnds, Goto
  <2>2. replies' = <<>>
    BY <1>0, <2>1 DEF Silent
  <2> QED BY <2>1, <2>2 DEF OneReply, Replied
<1>4. CASE TooLarge
  <2>1. /\ pc = "framed" /\ request_len = 0 /\ data_len = BufSize
        /\ replies' = Append(replies, "413") /\ pc' = "closing"
        /\ UNCHANGED <<req, data_len, request_len>>
    BY <1>4 DEF TooLarge, Send, Goto, wire, lengths
  <2>2. replies' = <<"413">>
    BY <1>0, <2>1 DEF Silent
  <2>3. Fits("413")
    BY <2>1 DEF Judgement, Unframed, Fits
  <2>4. "413" \in Codes /\ Fits("413")'
    BY <2>1, <2>3, SameFits DEF Codes
  <2>5. OneReply'
    BY <2>2, <2>4 DEF OneReply
  <2> QED BY <2>1, <2>2, <2>5 DEF Silent, Replied, ByCallback
<1>5. CASE Nothing
  <2>1. /\ pc = "framed" /\ request_len <= 0 /\ ~(request_len = 0 /\ data_len = BufSize)
        /\ pc' = "closing" /\ UNCHANGED <<req, data_len, request_len, cut, replies>>
    BY <1>5 DEF Nothing, Goto, wire, lengths
  <2>2. ~(request_len > 0) /\ (request_len = 0 => data_len < BufSize)
    BY <2>1, Numbers
  <2>3. Unanswered
    BY <2>1, <2>2 DEF Judgement, Unframed, Unanswered
  <2>4. Unanswered'
    BY <2>1, <2>3 DEF Unanswered, Malformed
  <2>5. OneReply'
    BY <1>0, <2>1, SameReply
  <2> QED BY <2>1, <2>4, <2>5 DEF Silent, Replied, ByCallback
<1>6. CASE Refuse
  <2>1. /\ pc = "framed" /\ request_len > 0 /\ pc' = "closing"
        /\ req.head # "ok" \/ NegativeLength
        /\ replies' = Append(replies, IF req.head = "version" THEN "505" ELSE "400")
        /\ UNCHANGED <<req, data_len, request_len>>
    BY <1>6 DEF Refuse, Send, Goto, wire
  <2>2. replies = <<>> /\ req.head \in {"ok", "bad", "version"}
    BY <1>0, <2>1, RequestsAssumption DEF Silent, TypeOK
  <2>3. CASE req.head = "version"
    <3>1. replies' = <<"505">>
      BY <2>1, <2>2, <2>3
    <3>2. Fits("505")
      BY <2>1, <2>3 DEF Fits
    <3>3. "505" \in Codes /\ Fits("505")'
      BY <2>1, <3>2, SameFits DEF Codes
    <3>4. OneReply'
      BY <3>1, <3>3 DEF OneReply
    <3> QED BY <2>1, <3>1, <3>4 DEF Silent, Replied, ByCallback
  <2>4. CASE req.head # "version"
    <3>1. replies' = <<"400">>
      BY <2>1, <2>2, <2>4
    <3>2. req.head = "bad" \/ NegativeLength
      BY <2>1, <2>2, <2>4
    <3>3. Fits("400")
      BY <2>1, <3>2 DEF Fits
    <3>4. "400" \in Codes /\ Fits("400")'
      BY <2>1, <3>3, SameFits DEF Codes
    <3>5. OneReply'
      BY <3>1, <3>4 DEF OneReply
    <3> QED BY <2>1, <3>1, <3>5 DEF Silent, Replied, ByCallback
  <2> QED BY <2>3, <2>4
<1>7. CASE Parse
  <2>1. pc = "framed" /\ replies' = replies /\ pc' = "handle"
    BY <1>7 DEF Parse, Goto
  <2>2. replies' = <<>>
    BY <1>0, <2>1 DEF Silent
  <2> QED BY <2>1, <2>2 DEF OneReply, Replied
<1>8. CASE Reply \/ CallbackDeclines
  <2>1. PICK c \in {"callback", "404"} :
          /\ pc \in {"reply", "handle"} /\ pc' = "discard"
          /\ replies' = Append(replies, c)
          /\ UNCHANGED <<req, data_len, request_len>>
    BY <1>8 DEF Reply, CallbackDeclines, Send, Goto, wire, lengths
  <2>2. replies' = <<c>>
    <3>1. replies = <<>>
      BY <1>0, <2>1 DEF Silent
    <3>2. \A x : Append(<<>>, x) = <<x>>
      OBVIOUS
    <3> QED BY <2>1, <3>1, <3>2
  <2>3. request_len > 0 /\ Admitted
    BY <2>1 DEF Judgement, Position, Serving
  <2>4. Fits(c)
    BY <2>3 DEF Fits, Admitted
  <2>5. c \in Codes /\ Fits(c)'
    BY <2>1, <2>4, SameFits DEF Codes
  <2>6. OneReply'
    BY <2>2, <2>5 DEF OneReply
  <2> QED BY <2>1, <2>2, <2>6 DEF Silent, ByCallback
<1>9. CASE (\E n \in 1..Unsent : Pull(n)) \/ PullEnds
  <2>1. /\ pc = "pull" /\ UNCHANGED <<req, data_len, request_len, reader, replies>>
        /\ pc' \in {"pull", IF reader = "callback" THEN "reply" ELSE "discarded"}
    BY <1>9 DEF Pull, PullEnds, Goto, Return, wire, lengths, reading
  <2>2. reader \in {"callback", "discard"}
    BY <2>1 DEF Position, Serving
  <2>3. OneReply'
    BY <1>0, <2>1, SameReply
  <2>4. CASE reader = "callback"
    BY <1>0, <2>1, <2>3, <2>4 DEF Silent, Replied, ByCallback
  <2>5. CASE reader = "discard"
    BY <1>0, <2>1, <2>3, <2>5 DEF Silent, Replied, ByCallback
  <2> QED BY <2>2, <2>4, <2>5
<1>10. CASE \E len \in Limits : Callback(len)
  <2>1. PICK len \in Limits : Callback(len)
    BY <1>10
  <2>2. pc = "handle" /\ UNCHANGED <<req, data_len, request_len, replies>>
    BY <2>1, CallbackGoes
  <2>3. pc' = "reply" \/ (pc' \in {"pull", "reply"} /\ reader' = "callback")
    BY <2>1, CallbackGoes DEF Takes
  <2>4. replies' = <<>>
    BY <1>0, <2>2 DEF Silent
  <2> QED BY <2>3, <2>4 DEF OneReply, Replied
<1>11. CASE Discard \/ Discarded
  <2>1. pc \in {"discard", "discarded"} /\ UNCHANGED <<req, data_len, request_len, replies>>
    BY <1>11, DiscardGoes DEF Discarded, wire, lengths
  <2>2. \/ pc' \in {"discard", "discarded", "closing"}
        \/ pc' = "pull" /\ reader' = "discard"
    <3>1. CASE Discard
      BY <3>1, DiscardGoes DEF Takes
    <3>2. CASE Discarded
      BY <3>2 DEF Discarded, Goto
    <3> QED BY <1>11, <3>1, <3>2
  <2>3. replies' \in {<<"callback">>, <<"404">>}
    BY <1>0, <2>1 DEF Replied
  <2>4. OneReply'
    BY <1>0, <2>1, SameReply
  <2> QED BY <2>2, <2>3, <2>4 DEF Silent, ByCallback
<1>12. CASE Drain \/ Close
  <2>1. /\ pc = "closing" /\ pc' \in {"closing", "idle"}
        /\ UNCHANGED <<req, data_len, request_len, cut, replies>>
    BY <1>12 DEF Drain, Close, Goto, wire, lengths
  <2>2. OneReply'
    BY <1>0, <2>1, SameReply
  <2>3. replies' = <<>> => Unanswered'
    BY <1>0, <2>1 DEF Unanswered, Malformed
  <2> QED BY <2>1, <2>2, <2>3 DEF Silent, Replied, ByCallback
<1>13. CASE UNCHANGED vars
  <2>1. UNCHANGED <<pc, req, data_len, request_len, cut, reader, replies>>
    BY <1>13 DEF vars, wire, lengths, reading
  <2>2. OneReply'
    BY <1>0, <2>1, SameReply
  <2>3. pc' = "closing" /\ replies' = <<>> => Unanswered'
    BY <1>0, <2>1 DEF Unanswered, Malformed
  <2> QED BY <1>0, <2>1, <2>2, <2>3 DEF Silent, Replied, ByCallback
<1> QED
  BY <1>1, <1>2, <1>3, <1>4, <1>5, <1>6, <1>7, <1>8, <1>9, <1>10, <1>11, <1>12, <1>13, StepKinds
  DEF ServingStep

-----------------------------------------------------------------------------
(* Every action keeps the body consumed when the worker turns to closing.  *)

LEMMA ConsumedStep ==
  ASSUME TypeOK, Collected, Position, Answered, BodyConsumed, [Next]_vars
  PROVE  BodyConsumed'
<1> DEFINE length == IF req.declared THEN req.length ELSE 0
<1>1. CASE Discard \/ Discarded
  <2>1. /\ pc \in Serving
        /\ UNCHANGED <<req, taken, cut, request_len>>
    BY <1>1, DiscardGoes DEF Discarded, wire, lengths, Serving
  <2>2. /\ Admitted /\ taken = Reached
        /\ content_len = IF req.declared THEN req.length ELSE -1
        /\ pc = "discarded" => nread > 0 \/ cut
    BY <2>1 DEF Position
  <2>3. /\ request_len \in Int /\ data_len \in Int /\ consumed \in Nat /\ taken \in Int
        /\ content_len \in Int /\ nread \in Nat /\ req.length \in Int
    BY Numbers, RequestsAssumption
  <2>4. taken >= request_len + consumed
    BY <2>2, <2>3 DEF Reached, Buffered
  <2>5. ASSUME pc' = "closing", ~cut
        PROVE  content_len = -1 \/ ~(consumed < content_len)
    <3>1. CASE Discard
      BY <2>5, <3>1, DiscardGoes DEF Takes
    <3>2. CASE Discarded
      BY <2>2, <2>3, <2>5, <3>2 DEF Discarded, Goto, Remaining
    <3> QED BY <1>1, <3>1, <3>2
  <2>6. ASSUME pc' = "closing", ~cut
        PROVE  taken >= request_len + length
    <3>1. CASE req.declared
      <4>1. content_len = req.length /\ req.length >= 0
        BY <2>2, <2>3, <3>1 DEF Admitted, NegativeLength
      <4>2. consumed >= req.length
        BY <2>3, <2>5, <2>6, <4>1
      <4> QED BY <2>3, <2>4, <3>1, <4>2
    <3>2. CASE ~req.declared
      BY <2>3, <2>4, <3>2
    <3> QED BY <3>1, <3>2
  <2> QED BY <2>1, <2>6 DEF BodyConsumed
<1>2. CASE Drain
  <2>1. /\ pc = "closing" /\ \E n \in 1..Unsent : taken' = taken + n
        /\ UNCHANGED <<pc, req, cut, request_len, replies>>
    BY <1>2 DEF Drain, wire, lengths
  <2>2. /\ request_len \in Int /\ taken \in Int /\ req.length \in Int
        /\ taken' \in Int /\ taken' >= taken
    BY <2>1, Numbers, RequestsAssumption DEF Unsent
  <2>3. length \in Int
    BY <2>2
  <2>4. taken >= request_len + length => taken' >= request_len + length
    BY <2>2, <2>3
  <2> QED BY <2>1, <2>4 DEF BodyConsumed
<1>3. CASE UNCHANGED vars
  BY <1>3 DEF vars, wire, lengths, BodyConsumed
<1>4. CASE (\E r \in Requests : AcceptBroken(r)) \/ TooLarge \/ Nothing \/ Refuse
  <2>1. replies' \notin {<<"callback">>, <<"404">>}
    <3>1. CASE \E r \in Requests : AcceptBroken(r)
      BY <3>1 DEF AcceptBroken
    <3>2. CASE TooLarge \/ Nothing \/ Refuse
      <4>1. pc = "framed"
        BY <3>2 DEF TooLarge, Nothing, Refuse
      <4>2. replies = <<>>
        BY <4>1 DEF Answered, Silent
      <4>3. replies' = <<>> \/ \E c \in {"413", "505", "400"} : replies' = Append(<<>>, c)
        BY <3>2, <4>2 DEF TooLarge, Nothing, Refuse, Send
      <4> QED BY <4>3
    <3> QED BY <1>4, <3>1, <3>2
  <2> QED BY <2>1 DEF BodyConsumed
<1>5. CASE \/ \E r \in Requests : Accept(r)
           \/ \E n \in 1..Unsent : ReadHeader(n)
           \/ ReadHeaderEnds \/ Parse \/ Close \/ PullEnds \/ CallbackDeclines \/ Reply
           \/ \E n \in 1..Unsent : Pull(n)
           \/ \E len \in Limits : Callback(len)
  <2>1. pc' # "closing"
    <3>1. CASE \E n \in 1..Unsent : Pull(n)
      BY <3>1 DEF Pull, Goto, Return
    <3>2. CASE \E len \in Limits : Callback(len)
      BY <3>2, ReadGoes DEF Callback, Goto
    <3>3. CASE \/ \E r \in Requests : Accept(r)
               \/ \E n \in 1..Unsent : ReadHeader(n)
               \/ ReadHeaderEnds \/ Parse \/ Close \/ PullEnds \/ CallbackDeclines \/ Reply
      BY <3>3 DEF Accept, ReadHeader, ReadHeaderEnds, Parse, Close, PullEnds, CallbackDeclines,
                  Reply, Goto, Return
    <3> QED BY <1>5, <3>1, <3>2, <3>3
  <2> QED BY <2>1 DEF BodyConsumed
<1> QED BY <1>1, <1>2, <1>3, <1>4, <1>5, StepKinds DEF ServingStep

-----------------------------------------------------------------------------
(* The invariant holds in every reachable state.                           *)

LEMMA InitIInv == Init => IInv
<1> SUFFICES ASSUME Init PROVE IInv
  OBVIOUS
<1>1. TypeOK
  <2>1. req \in Requests
    BY RequestsAssumption DEF Init
  <2>2. buf \in [0..(BufSize - 1) -> Bytes]
    BY SizesAssumption DEF Init, Nul, Bytes
  <2>3. Len(req.text) \in Nat
    BY <2>1, RequestsAssumption
  <2>4. data_len \in 0..BufSize /\ conns \in 0..MaxConns /\ taken \in 0..Len(req.text)
    BY <2>3, SizesAssumption DEF Init
  <2>5. given \in Seq(Bytes) /\ replies \in Seq(Codes)
    BY DEF Init
  <2>6. /\ pc = "idle" /\ cut = FALSE /\ data_len = 0 /\ request_len = 0 /\ content_len = 0
        /\ consumed = 0 /\ reader = "nobody" /\ limit = 0 /\ want = 0 /\ nread = 0
    BY DEF Init
  <2>7. /\ request_len \in Int /\ request_len <= data_len /\ content_len \in Int
        /\ consumed \in Nat /\ want \in Nat /\ nread \in Nat
    BY <2>6
  <2>8. /\ pc \in {"idle", "header", "framed", "handle", "pull", "reply",
                   "discard", "discarded", "closing"}
        /\ cut \in BOOLEAN /\ reader \in {"nobody", "callback", "discard"}
        /\ limit \in Limits \cup {0}
    BY <2>6
  <2>9. consumed = 0 \/ consumed <= content_len
    BY <2>6
  <2> QED BY <2>1, <2>2, <2>4, <2>5, <2>7, <2>8, <2>9, Zenon DEF TypeOK
<1>2. Collected /\ Judgement /\ Position /\ BodyConsumed
  BY DEF Init, Collected, Judgement, Position, Serving, BodyConsumed
<1>3. Delivered /\ Answered
  BY DEF Init, Delivered, Answered, Silent, Replied, ByCallback, Afterwards
<1> QED BY <1>1, <1>2, <1>3 DEF IInv

LEMMA NextIInv == IInv /\ [Next]_vars => IInv'
BY TypeStep, CollectedStep, JudgementStep, PositionStep, DeliveredStep, AnsweredStep, ConsumedStep
DEF IInv

LEMMA Invariant == Spec => []IInv
BY InitIInv, NextIInv, PTL DEF Spec

-----------------------------------------------------------------------------
(* What follows from the invariant.                                        *)

(* Every variable of the worker keeps its type: the lengths stay within    *)
(* the buffer, and the assertions of the code about them hold.             *)
THEOREM TypeCorrect == Spec => []TypeOK
<1>1. IInv => TypeOK
  BY DEF IInv
<1> QED BY <1>1, Invariant, PTL

(* However recv cuts what a client sends, a header that is accepted ends   *)
(* at the first blank line of this client.                                 *)
THEOREM HeaderFramed == Spec => []FramedAtBlankLine
<1>1. IInv => FramedAtBlankLine
  <2> SUFFICES ASSUME IInv, pc \in Judged, request_len > 0
               PROVE  FirstBlank(request_len)
    BY DEF FramedAtBlankLine, FirstBlank
  <2> QED BY DEF IInv, Judgement, Judged, Serving
<1> QED BY <1>1, Invariant, PTL

(* What the callback is given is the body of this client, from its first   *)
(* byte on, as much as there is room and content for unless the client     *)
(* stopped sending.                                                        *)
THEOREM BodyDelivered == Spec => []BodyExact
<1>1. IInv => BodyExact
  <2> SUFFICES ASSUME IInv PROVE BodyExact
    OBVIOUS
  <2>1. \A i \in 1..Len(given) : given[i] = Byte(request_len + i)
    BY DEF IInv, Delivered
  <2>2. pc \in Serving => Len(given) <= Full
    <3>1. CASE pc = "handle"
      BY <3>1 DEF IInv, Position, Serving, Full
    <3>2. CASE ByCallback
      <4>1. Len(given) + want = Full /\ want \in Nat /\ Len(given) \in Nat
        BY <3>2, Numbers DEF IInv, Delivered
      <4> QED BY <4>1
    <3>3. CASE Afterwards
      BY <3>3 DEF IInv, Delivered
    <3>4. pc \in Serving => pc = "handle" \/ ByCallback \/ Afterwards
      BY DEF IInv, Position, Serving, ByCallback, Afterwards
    <3> QED BY <3>1, <3>2, <3>3, <3>4
  <2>3. pc \in {"reply", "discard", "discarded"} => Len(given) = Full \/ cut
    BY DEF IInv, Delivered, Afterwards
  <2> QED BY <2>1, <2>2, <2>3 DEF BodyExact, Full
<1> QED BY <1>1, Invariant, PTL

(* A request that was answered has been received to the end of its body    *)
(* when its connection is closed, unless the client stopped sending.       *)
THEOREM NothingLeftUnread == Spec => []BodyConsumed
<1>1. IInv => BodyConsumed
  BY DEF IInv
<1> QED BY <1>1, Invariant, PTL

(* A connection gets at most one reply, and it fits what was sent; none is *)
(* given only to a header that is cut off or malformed.                    *)
THEOREM AtMostOneReply == Spec => []AnsweredOnce
<1>1. IInv => AnsweredOnce
  <2> SUFFICES ASSUME IInv PROVE AnsweredOnce
    OBVIOUS
  <2>1. Len(replies) <= 1 /\ \A i \in 1..Len(replies) : Fits(replies[i])
    <3>1. CASE replies = <<>>
      BY <3>1
    <3>2. CASE \E c \in Codes : replies = <<c>> /\ Fits(c)
      <4>1. PICK c : replies = <<c>> /\ Fits(c)
        BY <3>2
      <4>2. Len(replies) = 1 /\ replies[1] = c
        BY <4>1
      <4> QED BY <4>1, <4>2
    <3> QED BY <3>1, <3>2 DEF IInv, Answered
  <2> QED BY <2>1 DEF IInv, Answered, AnsweredOnce
<1> QED BY <1>1, Invariant, PTL
=============================================================================
