------------------------- MODULE RestRequest_proofs -------------------------
(***************************************************************************)
(* Proofs about RestRequest, whatever lists are registered and whatever is *)
(* asked:                                                                  *)
(*   - the web server with the DIAL server's request_handler as its        *)
(*     callback behaves as HttpConnection allows, so that what is proved   *)
(*     of a connection holds for it (RequestsSafe);                        *)
(*   - DIAL data is shown well-formed and as it was meant (DataShown);     *)
(*   - a URI of the protocol reaches the handler and the application that  *)
(*     it names (UriRouted);                                               *)
(*   - an origin is refused exactly if the list does not cover it          *)
(*     (OriginChecked).                                                    *)
(* Most of it is about texts of every length: what a loop over a text      *)
(* writes comes from the recursion lemmas of Induction_proofs.             *)
(***************************************************************************)
EXTENDS RestRequest, HttpConnection_proofs, Induction_proofs, SequenceTheorems

(* The size that a handler passes to mg_read is one of those Limits lists. *)
LEMMA RoomIsLimit ==
  ASSUME NEW r \in Requests
  PROVE  Room[r] \in Limits
<1> DEFINE app == Route(r.uri).app
           what == Outcome(r)
<1>1. Room[r] = CASE app \notin DOMAIN Lists -> 0
                  [] app \in DOMAIN Lists /\ what = "start" -> StartRoom
                  [] app \in DOMAIN Lists /\ what = "data_body" -> DataRoom
                  [] OTHER -> 0
  BY DEF Room
<1> HIDE DEF app, what
<1>2. Room[r] \in {0, StartRoom, DataRoom}
  BY <1>1
<1> QED BY <1>2, RestAssumption

(* Every step of the web server with this callback is a step that          *)
(* HttpConnection allows: request_handler always answers, and reads with   *)
(* one of its sizes.                                                       *)
THEOREM HandlerIsCallback == RestSpec => Spec
<1>1. ASSUME TypeOK, [RestNext]_vars
      PROVE  [Next]_vars
  <2>1. req \in Requests
    BY <1>1 DEF TypeOK
  <2>2. RequestHandler => \E len \in Limits : Callback(len)
    BY <2>1, RoomIsLimit DEF RequestHandler
  <2> QED BY <1>1, <2>2 DEF RestNext, RestStep, Next, WorkerStep
<1>2. IInv => TypeOK
  BY DEF IInv
<1>3. IInv /\ [RestNext]_vars => IInv'
  BY <1>1, <1>2, NextIInv
<1> QED BY <1>1, <1>2, <1>3, InitIInv, PTL DEF RestSpec, Spec

(* The framing, the body, its consumption and the reply are right for      *)
(* every request to the DIAL server.                                       *)
THEOREM RequestsSafe ==
  RestSpec => [](TypeOK /\ FramedAtBlankLine /\ BodyExact /\ BodyConsumed /\ AnsweredOnce)
BY HandlerIsCallback, TypeCorrect, HeaderFramed, BodyDelivered, NothingLeftUnread,
   AtMostOneReply, PTL

-----------------------------------------------------------------------------
(* Loops over texts. *)

(* What a loop writes from each place on. *)
Unfolded(rest, n, S, write, next) ==
  /\ rest \in [1..(n + 1) -> Seq(S)]
  /\ rest[n + 1] = <<>>
  /\ \A i \in 1..n : rest[i] = write[i] \o rest[next[i]]

(* A loop that always goes on at a later place can be unfolded. *)
LEMMA LoopUnfolds ==
  ASSUME NEW n \in Nat, NEW S, NEW write \in [1..n -> Seq(S)], NEW next,
         \A i \in 1..n : next[i] \in (i + 1)..(n + 1)
  PROVE  Unfolded(Loop(n, write, next), n, S, write, next)
<1> DEFINE T == Seq(S)
           step == [i \in 1..n |-> [s \in T |-> write[i] \o s]]
           Is(f) == f = [i \in 1..(n + 1) |-> IF i > n THEN <<>> ELSE write[i] \o f[next[i]]]
<1>0. /\ n + 1 \in 1..(n + 1) /\ n + 1 > n
      /\ \A i \in 1..n : i \in 1..(n + 1) /\ ~(i > n) /\ next[i] \in 1..(n + 1)
      /\ \A i \in 1..(n + 1) : (i > n => i = n + 1) /\ (~(i > n) => i \in 1..n)
  OBVIOUS
<1>1. <<>> \in T /\ step \in [1..n -> [T -> T]]
  OBVIOUS
<1>2. PICK f : Backward(f, n, T, <<>>, step, next)
  <2> HIDE DEF step, T
  <2> QED BY <1>1, BackwardRecursion
<1>3. \A i \in 1..n : f[i] = write[i] \o f[next[i]]
  <2> TAKE i \in 1..n
  <2>1. f[next[i]] \in T
    BY <1>0, <1>2 DEF Backward
  <2> QED BY <1>2, <2>1 DEF Backward
<1>4. Is(f)
  <2> DEFINE g == [i \in 1..(n + 1) |-> IF i > n THEN <<>> ELSE write[i] \o f[next[i]]]
  <2>1. ASSUME NEW i \in 1..(n + 1) PROVE f[i] = g[i]
    <3>1. CASE i > n
      BY <1>0, <1>2, <3>1 DEF Backward
    <3>2. CASE ~(i > n)
      BY <1>0, <1>3, <3>2
    <3> QED BY <3>1, <3>2
  <2> QED BY <1>2, <2>1 DEF Backward
<1>5. Loop(n, write, next) = CHOOSE rest : Is(rest)
  BY DEF Loop
<1> DEFINE L == Loop(n, write, next)
<1>6. Is(L)
  <2> HIDE DEF Is
  <2> QED BY <1>4, <1>5
<1> HIDE DEF L
<1>7. ASSUME NEW i \in 1..(n + 1) PROVE L[i] = IF i > n THEN <<>> ELSE write[i] \o L[next[i]]
  BY <1>6
<1>8. L[n + 1] = <<>> /\ \A i \in 1..n : L[i] = write[i] \o L[next[i]]
  BY <1>0, <1>7
<1>9. ASSUME NEW i \in 1..(n + 1) PROVE L[i] \in Seq(S)
  <2> DEFINE Typed == {k \in 1..(n + 1) : L[k] \in Seq(S)}
  <2>0. <<>> \in Seq(S)
    OBVIOUS
  <2>1. n + 1 \in Typed
    BY <1>0, <1>8, <2>0
  <2>2. ASSUME NEW k \in 1..n, \A j \in (k + 1)..(n + 1) : j \in Typed PROVE k \in Typed
    <3>1. L[next[k]] \in Seq(S)
      BY <2>2
    <3>2. write[k] \in Seq(S) /\ k \in 1..(n + 1)
      BY <1>0
    <3>3. L[k] = write[k] \o L[next[k]]
      BY <1>8
    <3>4. write[k] \o L[next[k]] \in Seq(S)
      BY <3>1, <3>2
    <3> QED BY <3>2, <3>3, <3>4
  <2> HIDE DEF Typed
  <2>3. \A k \in 1..(n + 1) : k \in Typed
    BY <2>1, <2>2, DownFrom
  <2> QED BY <2>3 DEF Typed
<1>10. L \in [1..(n + 1) -> Seq(S)]
  BY <1>6, <1>9
<1>11. Unfolded(L, n, S, write, next)
  BY <1>8, <1>10 DEF Unfolded
<1> QED BY <1>11 DEF L

(* A loop that writes one character of a text at each place it comes to.   *)
Reads(n, write, next, text, at) ==
  /\ at \in [1..(Len(text) + 1) -> 1..(n + 1)]
  /\ at[1] = 1 /\ at[Len(text) + 1] = n + 1
  /\ \A k \in 1..Len(text) :
       at[k] \in 1..n /\ write[at[k]] = <<text[k]>> /\ next[at[k]] = at[k + 1]

(* A loop that comes to the places of a text writes that text. *)
LEMMA LoopReads ==
  ASSUME NEW n \in Nat, NEW S, NEW write \in [1..n -> Seq(S)], NEW next,
         \A i \in 1..n : next[i] \in (i + 1)..(n + 1),
         NEW T, NEW text \in Seq(T), NEW at, Reads(n, write, next, text, at)
  PROVE  Loop(n, write, next)[1] = text /\ Len(text) <= n
<1> DEFINE L == Loop(n, write, next)
           m == Len(text)
           Read == {k \in 1..(m + 1) :
                      L[at[k]] = SubSeq(text, k, m) /\ m + 1 - k <= n + 1 - at[k]}
<1>1. m \in Nat /\ 1 \in 1..(m + 1)
  OBVIOUS
<1>0. /\ at \in [1..(m + 1) -> 1..(n + 1)] /\ at[1] = 1 /\ at[m + 1] = n + 1
      /\ \A k \in 1..m :
           at[k] \in 1..n /\ write[at[k]] = <<text[k]>> /\ next[at[k]] = at[k + 1]
  BY DEF Reads
<1>2. /\ L[n + 1] = <<>>
      /\ \A i \in 1..n : L[i] = write[i] \o L[next[i]]
  <2>1. Unfolded(L, n, S, write, next)
    BY LoopUnfolds
  <2> HIDE DEF L
  <2> QED BY <2>1 DEF Unfolded
<1> HIDE DEF L
<1>3. m + 1 \in Read
  <2>1. m + 1 \in 1..(m + 1) /\ SubSeq(text, m + 1, m) = <<>> /\ at[m + 1] = n + 1
    BY <1>0, <1>1
  <2>2. m + 1 - (m + 1) <= n + 1 - (n + 1)
    BY <1>1
  <2> QED BY <1>2, <2>1, <2>2
<1>4. ASSUME NEW k \in 1..m, \A j \in (k + 1)..(m + 1) : j \in Read PROVE k \in Read
  <2>1. k + 1 \in (k + 1)..(m + 1) /\ k \in 1..(m + 1)
    BY <1>1
  <2>2. L[at[k + 1]] = SubSeq(text, k + 1, m) /\ m + 1 - (k + 1) <= n + 1 - at[k + 1]
    BY <1>4, <2>1
  <2>3. at[k] \in 1..n /\ L[at[k]] = <<text[k]>> \o L[at[k + 1]]
    BY <1>0, <1>2
  <2>4. L[at[k]] = <<text[k]>> \o SubSeq(text, k + 1, m)
    BY <2>2, <2>3
  <2>5. <<text[k]>> \o SubSeq(text, k + 1, m) = SubSeq(text, k, m)
    <3>1. k \in 1..Len(text) /\ Len(text) \in k..Len(text)
      BY <1>1
    <3> QED BY <3>1, SubSeqRecursiveFirst
  <2>6. at[k + 1] \in (at[k] + 1)..(n + 1)
    BY <1>0
  <2>7. m + 1 - k <= n + 1 - at[k]
    <3> DEFINE i == at[k]
               j == at[k + 1]
    <3>1. i \in 1..n /\ j \in (i + 1)..(n + 1) /\ m + 1 - (k + 1) <= n + 1 - j
      BY <2>2, <2>3, <2>6
    <3> HIDE DEF i, j, m
    <3>2. m + 1 - k <= n + 1 - i
      BY <1>1, <3>1
    <3> QED BY <3>2 DEF i
  <2> QED BY <2>1, <2>4, <2>5, <2>7
<1> HIDE DEF Read
<1>5. \A k \in 1..(m + 1) : k \in Read
  <2> HIDE DEF m
  <2> QED BY <1>1, <1>3, <1>4, DownFrom
<1>6. L[1] = SubSeq(text, 1, m) /\ m + 1 - 1 <= n + 1 - 1
  BY <1>0, <1>1, <1>5 DEF Read
<1>7. SubSeq(text, 1, m) = text
  OBVIOUS
<1> QED BY <1>1, <1>6, <1>7 DEF L

-----------------------------------------------------------------------------
(* Entities: texts in XML. *)

(* Words of four to six characters. *)
IsWord(e, first, rest, D) ==
  /\ e \in Seq(D) /\ Len(e) \in {4, 5, 6} /\ e[1] = first
  /\ \A j \in 2..Len(e) : e[j] \in rest

(* Words of four, five and six characters, as the entities are. *)
LEMMA Four ==
  ASSUME NEW D, NEW a \in D, NEW b \in D, NEW c \in D, NEW d \in D
  PROVE  IsWord(<<a, b, c, d>>, a, {b, c, d}, D)
<1> DEFINE e == <<a, b, c, d>>
<1>1. e \in Seq(D) /\ Len(e) = 4 /\ e[1] = a /\ {e[2], e[3], e[4]} \subseteq {b, c, d}
  OBVIOUS
<1> HIDE DEF e
<1>2. \A j \in 2..4 : j = 2 \/ j = 3 \/ j = 4
  OBVIOUS
<1>3. \A j \in 2..4 : e[j] \in {b, c, d}
  BY <1>1, <1>2
<1>4. IsWord(e, a, {b, c, d}, D)
  BY <1>1, <1>3 DEF IsWord
<1> QED BY <1>4 DEF e

(* Of five. *)
LEMMA Five ==
  ASSUME NEW D, NEW a \in D, NEW b \in D, NEW c \in D, NEW d \in D, NEW f \in D
  PROVE  IsWord(<<a, b, c, d, f>>, a, {b, c, d, f}, D)
<1> DEFINE e == <<a, b, c, d, f>>
<1>1. e \in Seq(D) /\ Len(e) = 5 /\ e[1] = a /\ {e[2], e[3], e[4], e[5]} \subseteq {b, c, d, f}
  OBVIOUS
<1> HIDE DEF e
<1>2. \A j \in 2..5 : j = 2 \/ j = 3 \/ j = 4 \/ j = 5
  OBVIOUS
<1>3. \A j \in 2..5 : e[j] \in {b, c, d, f}
  BY <1>1, <1>2
<1>4. IsWord(e, a, {b, c, d, f}, D)
  BY <1>1, <1>3 DEF IsWord
<1> QED BY <1>4 DEF e

(* Of six. *)
LEMMA Six ==
  ASSUME NEW D, NEW a \in D, NEW b \in D, NEW c \in D, NEW d \in D, NEW f \in D, NEW g \in D
  PROVE  IsWord(<<a, b, c, d, f, g>>, a, {b, c, d, f, g}, D)
<1> DEFINE e == <<a, b, c, d, f, g>>
<1>1. /\ e \in Seq(D) /\ Len(e) = 6 /\ e[1] = a
      /\ {e[2], e[3], e[4], e[5], e[6]} \subseteq {b, c, d, f, g}
  OBVIOUS
<1> HIDE DEF e
<1>2. \A j \in 2..6 : j = 2 \/ j = 3 \/ j = 4 \/ j = 5 \/ j = 6
  OBVIOUS
<1>3. \A j \in 2..6 : e[j] \in {b, c, d, f, g}
  BY <1>1, <1>2
<1>4. IsWord(e, a, {b, c, d, f, g}, D)
  BY <1>1, <1>3 DEF IsWord
<1> QED BY <1>4 DEF e

(* What an entity is made of. *)
EntityCharacters == {"&", "a", "m", "p", ";", "q", "u", "o", "t", "s", "l", "g"}
Special == {"&", "\"", "'", "<", ">"}

(* An entity begins with "&" and has no other special character. *)
LEMMA EntityIsWord ==
  ASSUME NEW D, EntityCharacters \subseteq D, NEW c \in Special
  PROVE  /\ Entity(c) \in Entities
         /\ IsWord(Entity(c), "&", EntityCharacters \ {"&"}, D)
<1>1. \A w : w \in EntityCharacters => w \in D
  OBVIOUS
<1>2. /\ "&" \in D /\ "a" \in D /\ "m" \in D /\ "p" \in D /\ ";" \in D /\ "q" \in D
      /\ "u" \in D /\ "o" \in D /\ "t" \in D /\ "s" \in D /\ "l" \in D /\ "g" \in D
  BY <1>1 DEF EntityCharacters
<1>3. Entity(c) \in Entities
  BY DEF Entities, Special
<1>4. ASSUME NEW e, NEW rest, IsWord(e, "&", rest, D), rest \subseteq EntityCharacters \ {"&"}
      PROVE  IsWord(e, "&", EntityCharacters \ {"&"}, D)
  BY <1>4 DEF IsWord
<1>5. CASE c = "&"
  <2>1. IsWord(<<"&", "a", "m", "p", ";">>, "&", {"a", "m", "p", ";"}, D)
    BY <1>2, Five
  <2>2. {"a", "m", "p", ";"} \subseteq EntityCharacters \ {"&"}
    BY DEF EntityCharacters
  <2>3. Entity(c) = <<"&", "a", "m", "p", ";">>
    BY <1>5 DEF Entity
  <2> QED BY <1>3, <1>4, <2>1, <2>2, <2>3
<1>6. CASE c = "\""
  <2>1. IsWord(<<"&", "q", "u", "o", "t", ";">>, "&", {"q", "u", "o", "t", ";"}, D)
    BY <1>2, Six
  <2>2. {"q", "u", "o", "t", ";"} \subseteq EntityCharacters \ {"&"}
    BY DEF EntityCharacters
  <2>3. Entity(c) = <<"&", "q", "u", "o", "t", ";">>
    BY <1>6 DEF Entity
  <2> QED BY <1>3, <1>4, <2>1, <2>2, <2>3
<1>7. CASE c = "'"
  <2>1. IsWord(<<"&", "a", "p", "o", "s", ";">>, "&", {"a", "p", "o", "s", ";"}, D)
    BY <1>2, Six
  <2>2. {"a", "p", "o", "s", ";"} \subseteq EntityCharacters \ {"&"}
    BY DEF EntityCharacters
  <2>3. Entity(c) = <<"&", "a", "p", "o", "s", ";">>
    BY <1>7 DEF Entity
  <2> QED BY <1>3, <1>4, <2>1, <2>2, <2>3
<1>8. CASE c = "<"
  <2>1. IsWord(<<"&", "l", "t", ";">>, "&", {"l", "t", ";"}, D)
    BY <1>2, Four
  <2>2. {"l", "t", ";"} \subseteq EntityCharacters \ {"&"}
    BY DEF EntityCharacters
  <2>3. Entity(c) = <<"&", "l", "t", ";">>
    BY <1>8 DEF Entity
  <2> QED BY <1>3, <1>4, <2>1, <2>2, <2>3
<1>9. CASE c = ">"
  <2>1. IsWord(<<"&", "g", "t", ";">>, "&", {"g", "t", ";"}, D)
    BY <1>2, Four
  <2>2. {"g", "t", ";"} \subseteq EntityCharacters \ {"&"}
    BY DEF EntityCharacters
  <2>3. Entity(c) = <<"&", "g", "t", ";">>
    BY <1>9 DEF Entity
  <2> QED BY <1>3, <1>4, <2>1, <2>2, <2>3
<1> QED BY <1>5, <1>6, <1>7, <1>8, <1>9 DEF Special

(* What a character is encoded to: itself, or an entity. *)
LEMMA EntityShape ==
  ASSUME NEW D, EntityCharacters \subseteq D, NEW c \in D
  PROVE  /\ Entity(c) \in Seq(D) /\ Len(Entity(c)) \in Nat \ {0}
         /\ \/ Entity(c) = <<c>> /\ c \notin Special
            \/ /\ Entity(c) \in Entities /\ Entity(c) # <<c>>
               /\ Entity(c)[1] = "&"
               /\ \A j \in 2..Len(Entity(c)) : Entity(c)[j] \notin Special
<1>1. CASE c \notin Special
  <2>1. Entity(c) = <<c>>
    BY <1>1 DEF Entity, Special
  <2>2. <<c>> \in Seq(D) /\ Len(<<c>>) \in Nat \ {0}
    OBVIOUS
  <2> QED BY <1>1, <2>1, <2>2
<1>2. CASE c \in Special
  <2> DEFINE e == Entity(c)
  <2>1. e \in Entities /\ IsWord(e, "&", EntityCharacters \ {"&"}, D)
    BY <1>2, EntityIsWord
  <2>2. (EntityCharacters \ {"&"}) \cap Special = {}
    BY DEF EntityCharacters, Special
  <2> HIDE DEF e
  <2>3. e \in Seq(D) /\ Len(e) \in {4, 5, 6} /\ e[1] = "&"
    BY <2>1 DEF IsWord
  <2>4. \A j \in 2..Len(e) : e[j] \notin Special
    BY <2>1, <2>2 DEF IsWord
  <2>5. Len(e) \in Nat \ {0} /\ Len(e) # 1
    BY <2>3
  <2>6. Len(<<c>>) = 1
    OBVIOUS
  <2>7. e # <<c>>
    BY <2>5, <2>6, Zenon
  <2> QED BY <2>1, <2>3, <2>4, <2>5, <2>7 DEF e
<1> QED BY <1>1, <1>2

(* The text that a loop builds by adding to what it has. *)
LEMMA XmlEncodes ==
  ASSUME NEW C, EntityCharacters \subseteq C, NEW src \in Seq(C), NEW max \in Nat
  PROVE  \E d : /\ d \in [0..Len(src) -> Seq(C)] /\ d[0] = <<>>
                /\ \A i \in 1..Len(src) : d[i] = Encoded(d[i - 1], src[i], max)
                /\ xmlencode(src, max) = d[Len(src)]
<1> DEFINE n == Len(src)
           T == Seq(C)
           step == [i \in 1..n |-> [s \in T |-> Encoded(s, src[i], max)]]
           Is(f) == f = [i \in 0..n |-> IF i = 0 THEN <<>> ELSE Encoded(f[i - 1], src[i], max)]
<1>0. /\ n \in Nat /\ 0 \in 0..n /\ n \in 0..n
      /\ \A i \in 1..n : i \in 0..n /\ i # 0 /\ i - 1 \in 0..n
      /\ \A i \in 0..n : i # 0 => i \in 1..n
  OBVIOUS
<1>1. <<>> \in T /\ step \in [1..n -> [T -> T]]
  <2>1. ASSUME NEW i \in 1..n, NEW s \in T PROVE Encoded(s, src[i], max) \in T
    <3>1. Entity(src[i]) \in T
      BY EntityShape
    <3> QED BY <3>1 DEF Encoded
  <2> QED BY <2>1
<1>2. PICK f : Forward(f, n, T, <<>>, step)
  <2> HIDE DEF step, T, n
  <2> QED BY <1>0, <1>1, ForwardRecursion
<1>3. f \in [0..n -> T] /\ f[0] = <<>> /\ \A i \in 1..n : f[i] = Encoded(f[i - 1], src[i], max)
  <2>1. f \in [0..n -> T] /\ f[0] = <<>> /\ \A i \in 1..n : f[i] = step[i][f[i - 1]]
    BY <1>2 DEF Forward
  <2>2. ASSUME NEW i \in 1..n PROVE f[i] = Encoded(f[i - 1], src[i], max)
    <3>1. f[i - 1] \in T
      BY <1>0, <2>1
    <3> QED BY <2>1, <3>1
  <2> QED BY <2>1, <2>2
<1>4. Is(f)
  <2> DEFINE g == [i \in 0..n |-> IF i = 0 THEN <<>> ELSE Encoded(f[i - 1], src[i], max)]
  <2> HIDE DEF n
  <2>1. ASSUME NEW i \in 0..n PROVE f[i] = g[i]
    <3>1. CASE i = 0
      BY <1>0, <1>3, <3>1
    <3>2. CASE i # 0
      BY <1>0, <1>3, <3>2
    <3> QED BY <3>1, <3>2
  <2> QED BY <1>3, <2>1
<1>5. \E h : Is(h) /\ xmlencode(src, max) = h[n]
  <2> DEFINE h == CHOOSE dst : Is(dst)
  <2>1. xmlencode(src, max) = h[n]
    BY DEF xmlencode
  <2> HIDE DEF Is
  <2>2. Is(h)
    BY <1>4
  <2> HIDE DEF h
  <2> QED BY <2>1, <2>2
<1>6. PICK h : Is(h) /\ xmlencode(src, max) = h[n]
  BY <1>5
<1>7. h = f
  <2> HIDE DEF n
  <2> DEFINE Same == {i \in 0..n : h[i] = f[i]}
  <2>1. \A i \in 0..n : h[i] = IF i = 0 THEN <<>> ELSE Encoded(h[i - 1], src[i], max)
    BY <1>6
  <2>2. 0 \in Same
    BY <1>0, <1>3, <2>1
  <2>3. ASSUME NEW i \in 1..n, i - 1 \in Same PROVE i \in Same
    BY <1>0, <1>3, <2>1, <2>3
  <2> HIDE DEF Same
  <2>4. \A i \in 0..n : i \in Same
    BY <1>0, <2>2, <2>3, UpTo
  <2> QED BY <1>3, <1>6, <2>4 DEF Same
<1> QED BY <1>3, <1>6, <1>7

(* What a text means in XML, character by character. *)
LEMMA MeantUnfolds ==
  ASSUME NEW C, EntityCharacters \subseteq C, NEW plain \in Seq(C)
  PROVE  \E m : /\ m \in [0..Len(plain) -> Seq(C)] /\ m[0] = <<>>
                /\ \A i \in 1..Len(plain) : m[i] = m[i - 1] \o Entity(plain[i])
                /\ Meant(plain) = m[Len(plain)]
<1> DEFINE n == Len(plain)
           T == Seq(C)
           step == [i \in 1..n |-> [s \in T |-> s \o Entity(plain[i])]]
           Is(f) == f = [i \in 0..n |-> IF i = 0 THEN <<>> ELSE f[i - 1] \o Entity(plain[i])]
<1>0. /\ n \in Nat /\ 0 \in 0..n /\ n \in 0..n
      /\ \A i \in 1..n : i \in 0..n /\ i # 0 /\ i - 1 \in 0..n
      /\ \A i \in 0..n : i # 0 => i \in 1..n
  OBVIOUS
<1>1. <<>> \in T /\ step \in [1..n -> [T -> T]]
  <2>1. ASSUME NEW i \in 1..n, NEW s \in T PROVE s \o Entity(plain[i]) \in T
    <3>1. Entity(plain[i]) \in T
      BY EntityShape
    <3> QED BY <3>1
  <2> QED BY <2>1
<1>2. PICK f : Forward(f, n, T, <<>>, step)
  <2> HIDE DEF step, T, n
  <2> QED BY <1>0, <1>1, ForwardRecursion
<1>3. f \in [0..n -> T] /\ f[0] = <<>> /\ \A i \in 1..n : f[i] = f[i - 1] \o Entity(plain[i])
  <2>1. f \in [0..n -> T] /\ f[0] = <<>> /\ \A i \in 1..n : f[i] = step[i][f[i - 1]]
    BY <1>2 DEF Forward
  <2>2. ASSUME NEW i \in 1..n PROVE f[i] = f[i - 1] \o Entity(plain[i])
    <3>1. f[i - 1] \in T
      BY <1>0, <2>1
    <3> QED BY <2>1, <3>1
  <2> QED BY <2>1, <2>2
<1>4. Is(f)
  <2> DEFINE g == [i \in 0..n |-> IF i = 0 THEN <<>> ELSE f[i - 1] \o Entity(plain[i])]
  <2> HIDE DEF n
  <2>1. ASSUME NEW i \in 0..n PROVE f[i] = g[i]
    <3>1. CASE i = 0
      BY <1>0, <1>3, <3>1
    <3>2. CASE i # 0
      BY <1>0, <1>3, <3>2
    <3> QED BY <3>1, <3>2
  <2> QED BY <1>3, <2>1
<1>5. \E h : Is(h) /\ Meant(plain) = h[n]
  <2> DEFINE h == CHOOSE upto : Is(upto)
  <2>1. Meant(plain) = h[n]
    BY DEF Meant
  <2> HIDE DEF Is
  <2>2. Is(h)
    BY <1>4
  <2> HIDE DEF h
  <2> QED BY <2>1, <2>2
<1>6. PICK h : Is(h) /\ Meant(plain) = h[n]
  BY <1>5
<1>7. h = f
  <2> HIDE DEF n
  <2> DEFINE Same == {i \in 0..n : h[i] = f[i]}
  <2>1. \A i \in 0..n : h[i] = IF i = 0 THEN <<>> ELSE h[i - 1] \o Entity(plain[i])
    BY <1>6
  <2>2. 0 \in Same
    BY <1>0, <1>3, <2>1
  <2>3. ASSUME NEW i \in 1..n, i - 1 \in Same PROVE i \in Same
    BY <1>0, <1>3, <2>1, <2>3
  <2> HIDE DEF Same
  <2>4. \A i \in 0..n : i \in Same
    BY <1>0, <2>2, <2>3, UpTo
  <2> QED BY <1>3, <1>6, <2>4 DEF Same
<1> QED BY <1>3, <1>6, <1>7

(* No bare special character, and no part of an entity. *)
Clean(s) ==
  \A i \in 1..Len(s) :
    /\ s[i] \notin {"<", ">", "\"", "'"}
    /\ s[i] = "&" => \E e \in Entities : PartAt(s, i, e)

(* Entities are texts. *)
LEMMA EntitiesAreWords ==
  ASSUME NEW D, EntityCharacters \subseteq D, NEW e \in Entities
  PROVE  e \in Seq(D) /\ Len(e) \in Nat
<1>1. PICK c \in Special : e = Entity(c)
  BY DEF Entities, Special
<1>2. IsWord(Entity(c), "&", EntityCharacters \ {"&"}, D)
  BY EntityIsWord
<1>3. e \in Seq(D)
  BY <1>1, <1>2 DEF IsWord
<1> QED BY <1>3

(* A part of a text stays one when more is written. *)
LEMMA PartOfLonger ==
  ASSUME NEW D, NEW s \in Seq(D), NEW t \in Seq(D), NEW e \in Seq(D), NEW i \in 1..Len(s),
         PartAt(s, i, e)
  PROVE  PartAt(s \o t, i, e)
<1>1. i - 1 + Len(e) <= Len(s) /\ \A k \in 1..Len(e) : s[i - 1 + k] = e[k]
  BY DEF PartAt
<1>2. Len(s \o t) = Len(s) + Len(t) /\ \A j \in 1..Len(s) : (s \o t)[j] = s[j]
  OBVIOUS
<1>3. i - 1 + Len(e) <= Len(s \o t)
  BY <1>1, <1>2
<1>4. ASSUME NEW k \in 1..Len(e) PROVE (s \o t)[i - 1 + k] = e[k]
  <2>1. i - 1 + k \in 1..Len(s)
    BY <1>1
  <2> QED BY <1>1, <1>2, <2>1
<1> QED BY <1>3, <1>4 DEF PartAt

(* What was written last stands at the end. *)
LEMMA PartAtEnd ==
  ASSUME NEW D, NEW s \in Seq(D), NEW e \in Seq(D)
  PROVE  PartAt(s \o e, Len(s) + 1, e)
<1>1. /\ Len(s \o e) = Len(s) + Len(e) /\ Len(s) \in Nat /\ Len(e) \in Nat
      /\ \A k \in 1..Len(e) : (s \o e)[Len(s) + k] = e[k]
  OBVIOUS
<1>2. ASSUME NEW k \in 1..Len(e) PROVE Len(s) + 1 - 1 + k = Len(s) + k
  BY <1>1
<1>3. Len(s) + 1 - 1 + Len(e) <= Len(s \o e)
  BY <1>1
<1> QED BY <1>1, <1>2, <1>3 DEF PartAt

(* A well-formed text stays so when one more character is encoded. *)
LEMMA CleanMore ==
  ASSUME NEW D, EntityCharacters \subseteq D, NEW s \in Seq(D), NEW c \in D, Clean(s)
  PROVE  Clean(s \o Entity(c))
<1> DEFINE e == Entity(c)
           t == s \o e
<1>1. /\ e \in Seq(D) /\ Len(e) \in Nat \ {0}
      /\ \/ e = <<c>> /\ c \notin Special
         \/ e \in Entities /\ e[1] = "&" /\ \A j \in 2..Len(e) : e[j] \notin Special
  BY EntityShape
<1> HIDE DEF e
<1>2. /\ t \in Seq(D) /\ Len(t) = Len(s) + Len(e) /\ Len(s) \in Nat
      /\ \A i \in 1..Len(s) : t[i] = s[i]
      /\ \A j \in 1..Len(e) : t[Len(s) + j] = e[j]
  BY <1>1
<1>3. PartAt(t, Len(s) + 1, e)
  BY <1>1, PartAtEnd
<1>4. \A i \in 1..Len(s), f \in Entities : PartAt(s, i, f) => PartAt(t, i, f)
  BY <1>1, EntitiesAreWords, PartOfLonger
<1> HIDE DEF t
<1>5. ASSUME NEW i \in 1..Len(t)
      PROVE  /\ t[i] \notin {"<", ">", "\"", "'"}
             /\ t[i] = "&" => \E f \in Entities : PartAt(t, i, f)
  <2>1. CASE i \in 1..Len(s)
    BY <1>2, <1>4, <2>1 DEF Clean
  <2>2. CASE i \notin 1..Len(s)
    <3> DEFINE j == i - Len(s)
    <3>1. j \in 1..Len(e) /\ i = Len(s) + j
      BY <1>1, <1>2, <2>2
    <3> HIDE DEF j
    <3>2. t[i] = e[j]
      BY <1>2, <3>1
    <3>3. CASE e = <<c>> /\ c \notin Special
      <4>1. Len(e) = 1 /\ e[1] = c
        BY <3>3
      <4>2. j = 1
        BY <3>1, <4>1
      <4> QED BY <3>2, <3>3, <4>1, <4>2 DEF Special
    <3>4. CASE e \in Entities /\ e[1] = "&" /\ \A k \in 2..Len(e) : e[k] \notin Special
      <4>1. CASE j = 1
        BY <1>3, <3>1, <3>2, <3>4, <4>1
      <4>2. CASE j # 1
        <5>1. j \in 2..Len(e)
          BY <1>1, <3>1, <4>2
        <5> QED BY <3>2, <3>4, <5>1 DEF Special
      <4> QED BY <4>1, <4>2
    <3> QED BY <1>1, <3>3, <3>4
  <2> QED BY <2>1, <2>2
<1>6. Clean(t)
  BY <1>5 DEF Clean
<1> QED BY <1>6 DEF t, e

(* One step of xmlencode keeps its text well-formed and in its room. *)
LEMMA EncodedClean ==
  ASSUME NEW D, EntityCharacters \subseteq D, NEW s \in Seq(D), NEW c \in D, NEW max \in Nat,
         Len(s) <= max, Clean(s)
  PROVE  Len(Encoded(s, c, max)) <= max /\ Clean(Encoded(s, c, max))
<1> DEFINE e == Entity(c)
<1>1. e \in Seq(D) /\ Len(e) \in Nat \ {0} /\ (e = <<c>> => Len(e) = 1)
  BY EntityShape
<1>2. Encoded(s, c, max) =
        IF Len(s) >= max \/ (e # <<c>> /\ Len(s) + Len(e) >= max) THEN s ELSE s \o e
  BY DEF Encoded
<1>3. Clean(s \o e)
  BY CleanMore
<1> HIDE DEF e
<1>4. Len(s \o e) = Len(s) + Len(e) /\ Len(s) \in Nat
  BY <1>1
<1>5. CASE Len(s) >= max \/ (e # <<c>> /\ Len(s) + Len(e) >= max)
  BY <1>2, <1>5
<1>6. CASE ~(Len(s) >= max \/ (e # <<c>> /\ Len(s) + Len(e) >= max))
  <2>1. Encoded(s, c, max) = s \o e
    BY <1>2, <1>6
  <2>2. CASE e = <<c>>
    <3>1. Len(e) = 1
      BY <1>1, <2>2
    <3>2. Len(s) + Len(e) <= max
      BY <1>4, <1>6, <3>1
    <3> QED BY <1>3, <1>4, <2>1, <3>2
  <2>3. CASE e # <<c>>
    <3>1. Len(e) \in Nat /\ Len(s) + Len(e) < max
      BY <1>1, <1>4, <1>6, <2>3
    <3>2. Len(s) + Len(e) <= max
      BY <1>4, <3>1
    <3> QED BY <1>3, <1>4, <2>1, <3>2
  <2> QED BY <2>2, <2>3
<1> QED BY <1>5, <1>6

(* What xmlencode writes fits its room and is well-formed. *)
LEMMA XmlClean ==
  ASSUME NEW D, EntityCharacters \subseteq D, NEW src \in Seq(D), NEW max \in Nat
  PROVE  /\ xmlencode(src, max) \in Seq(D)
         /\ Len(xmlencode(src, max)) <= max /\ Clean(xmlencode(src, max))
<1> DEFINE n == Len(src)
<1>1. PICK d : /\ d \in [0..n -> Seq(D)] /\ d[0] = <<>>
               /\ \A i \in 1..n : d[i] = Encoded(d[i - 1], src[i], max)
               /\ xmlencode(src, max) = d[n]
  BY XmlEncodes
<1> DEFINE Good == {i \in 0..n : Len(d[i]) <= max /\ Clean(d[i])}
<1>2. n \in Nat /\ n \in 0..n /\ 0 \in 0..n /\ \A i \in 1..n : i \in 0..n /\ i - 1 \in 0..n
  OBVIOUS
<1>3. 0 \in Good
  <2>1. Len(<<>>) = 0 /\ Clean(<<>>)
    BY DEF Clean
  <2> QED BY <1>1, <1>2, <2>1
<1>4. ASSUME NEW i \in 1..n, i - 1 \in Good PROVE i \in Good
  <2>1. d[i - 1] \in Seq(D) /\ src[i] \in D /\ Len(d[i - 1]) <= max /\ Clean(d[i - 1])
    BY <1>1, <1>2, <1>4
  <2>2. Len(Encoded(d[i - 1], src[i], max)) <= max /\ Clean(Encoded(d[i - 1], src[i], max))
    BY <2>1, EncodedClean
  <2> QED BY <1>1, <1>2, <2>2
<1> HIDE DEF Good, n
<1>5. \A i \in 0..n : i \in Good
  BY <1>2, <1>3, <1>4, UpTo
<1> QED BY <1>1, <1>2, <1>5 DEF Good

(* It is the whole text if that is shorter than its room. *)
LEMMA XmlWhole ==
  ASSUME NEW D, EntityCharacters \subseteq D, NEW src \in Seq(D), NEW max \in Nat,
         Len(Meant(src)) < max
  PROVE  xmlencode(src, max) = Meant(src)
<1> DEFINE n == Len(src)
<1>1. PICK d : /\ d \in [0..n -> Seq(D)] /\ d[0] = <<>>
               /\ \A i \in 1..n : d[i] = Encoded(d[i - 1], src[i], max)
               /\ xmlencode(src, max) = d[n]
  BY XmlEncodes
<1>2. PICK m : /\ m \in [0..n -> Seq(D)] /\ m[0] = <<>>
               /\ \A i \in 1..n : m[i] = m[i - 1] \o Entity(src[i])
               /\ Meant(src) = m[n]
  BY MeantUnfolds
<1> DEFINE Good == {i \in 0..n : d[i] = m[i] \/ Len(m[i]) >= max}
<1>3. n \in Nat /\ n \in 0..n /\ 0 \in 0..n /\ \A i \in 1..n : i \in 0..n /\ i - 1 \in 0..n
  OBVIOUS
<1>4. 0 \in Good
  BY <1>1, <1>2, <1>3
<1>5. ASSUME NEW i \in 1..n, i - 1 \in Good PROVE i \in Good
  <2> DEFINE a == m[i - 1]
             e == Entity(src[i])
  <2>1. a \in Seq(D) /\ e \in Seq(D)
    <3>1. src[i] \in D
      BY <1>3
    <3> QED BY <1>2, <1>3, <3>1, EntityShape
  <2>2. m[i] = a \o e /\ d[i] = Encoded(d[i - 1], src[i], max)
    BY <1>1, <1>2
  <2>3. d[i - 1] = a \/ Len(a) >= max
    BY <1>3, <1>5
  <2>4. Encoded(a, src[i], max) = a \o e \/ Len(a) >= max \/ Len(a) + Len(e) >= max
    BY DEF Encoded
  <2> HIDE DEF a, e
  <2>5. Len(a \o e) = Len(a) + Len(e) /\ Len(a) \in Nat /\ Len(e) \in Nat
    BY <2>1
  <2>6. Len(a) >= max => Len(a) + Len(e) >= max
    BY <2>5
  <2>7. d[i] = m[i] \/ Len(m[i]) >= max
    BY <2>2, <2>3, <2>4, <2>5, <2>6
  <2> QED BY <1>3, <2>7
<1> HIDE DEF Good, n
<1>6. \A i \in 0..n : i \in Good
  BY <1>3, <1>4, <1>5, UpTo
<1>7. d[n] = m[n] \/ Len(m[n]) >= max
  BY <1>3, <1>6 DEF Good
<1>8. m[n] \in Seq(D)
  BY <1>2, <1>3
<1>9. Len(m[n]) \in Nat
  BY <1>8
<1> QED BY <1>1, <1>2, <1>7, <1>9

(* How urldecode goes through a value: what it writes at each place, and   *)
(* where it goes on.                                                       *)
Goes(src, write, next, D) ==
  /\ write \in [1..Len(src) -> Seq(D)]
  /\ \A i \in 1..Len(src) :
       /\ next[i] \in (i + 1)..(Len(src) + 1)
       /\ IsEscape(src, i) => write[i] = <<Escaped(src, i)>> /\ next[i] = i + 3
       /\ src[i] = "+" => write[i] = <<" ">> /\ next[i] = i + 1
       /\ src[i] \notin {"+", "%"} => write[i] = <<src[i]>> /\ next[i] = i + 1
  /\ urldecode(src, Len(src)) =
       LET dst == Loop(Len(src), write, next)[1]
       IN  SubSeq(dst, 1, Min({Len(dst), Len(src)}))

(* urldecode is a loop that goes on at later places. *)
LEMMA UrldecodeLoops ==
  ASSUME NEW S, NEW src \in Seq(S)
  PROVE  \E write, next, D : EntityCharacters \cup S \subseteq D /\ Goes(src, write, next, D)
<1> DEFINE n == Len(src)
           write == [i \in 1..n |-> CASE src[i] = "+" -> <<" ">>
                                      [] src[i] = "%" -> IF IsEscape(src, i) THEN <<Escaped(src, i)>>
                                                         ELSE <<>>
                                      [] OTHER -> <<src[i]>>]
           next == [i \in 1..n |-> CASE src[i] = "%" -> IF IsEscape(src, i) THEN i + 3 ELSE n + 1
                                     [] OTHER -> i + 1]
           D == EntityCharacters \cup S \cup {" "} \cup {Escaped(src, i) : i \in 1..n}
<1>1. n \in Nat
  OBVIOUS
<1>2. urldecode(src, n) =
        LET dst == Loop(n, write, next)[1] IN SubSeq(dst, 1, Min({Len(dst), n}))
  BY DEF urldecode
<1>3. ASSUME NEW i \in 1..n
      PROVE  /\ next[i] \in (i + 1)..(n + 1) /\ next[i] \in Int
             /\ write[i] \in Seq(D)
             /\ IsEscape(src, i) => write[i] = <<Escaped(src, i)>> /\ next[i] = i + 3
             /\ src[i] = "+" => write[i] = <<" ">> /\ next[i] = i + 1
             /\ src[i] \notin {"+", "%"} => write[i] = <<src[i]>> /\ next[i] = i + 1
  <2>1. IsEscape(src, i) => src[i] = "%" /\ i + 2 <= n
    BY DEF IsEscape
  <2>2. next[i] = CASE src[i] = "%" -> IF IsEscape(src, i) THEN i + 3 ELSE n + 1
                    [] OTHER -> i + 1
    OBVIOUS
  <2>3. write[i] = CASE src[i] = "+" -> <<" ">>
                     [] src[i] = "%" -> IF IsEscape(src, i) THEN <<Escaped(src, i)>> ELSE <<>>
                     [] OTHER -> <<src[i]>>
    OBVIOUS
  <2>4. src[i] \in D /\ Escaped(src, i) \in D /\ " " \in D
    <3>1. src[i] \in S
      OBVIOUS
    <3>2. Escaped(src, i) \in {Escaped(src, k) : k \in 1..n}
      BY Zenon
    <3> QED BY <3>1, <3>2, Zenon
  <2> HIDE DEF write, next, D, n
  <2>5. /\ src[i] = "%" /\ IsEscape(src, i) => next[i] = i + 3
        /\ src[i] = "%" /\ ~IsEscape(src, i) => next[i] = n + 1
        /\ src[i] # "%" => next[i] = i + 1
    BY <2>2, Zenon
  <2>6. "+" # "%"
    OBVIOUS
  <2>7. /\ src[i] = "+" => write[i] = <<" ">>
        /\ src[i] = "%" /\ IsEscape(src, i) => write[i] = <<Escaped(src, i)>>
        /\ src[i] = "%" /\ ~IsEscape(src, i) => write[i] = <<>>
        /\ src[i] # "+" /\ src[i] # "%" => write[i] = <<src[i]>>
    BY <2>3, <2>6, Zenon
  <2>8. next[i] \in (i + 1)..(n + 1) /\ next[i] \in Int
    BY <1>1, <2>1, <2>5
  <2>9. write[i] \in Seq(D)
    <3>1. <<>> \in Seq(D) /\ \A c \in D : <<c>> \in Seq(D)
      OBVIOUS
    <3>2. <<" ">> \in Seq(D) /\ <<Escaped(src, i)>> \in Seq(D) /\ <<src[i]>> \in Seq(D)
      BY <2>4, <3>1
    <3> QED BY <2>7, <3>1, <3>2
  <2> QED BY <2>1, <2>5, <2>6, <2>7, <2>8, <2>9
<1>4. EntityCharacters \cup S \subseteq D
  OBVIOUS
<1>5. write = [i \in 1..n |-> write[i]]
  OBVIOUS
<1> HIDE DEF write, next, D
<1>6. Goes(src, write, next, D)
  <2>1. write \in [1..n -> Seq(D)]
    BY <1>3, <1>5
  <2> QED BY <1>2, <1>3, <2>1 DEF Goes
<1> QED BY <1>4, <1>6, Zenon

(* The smaller of two numbers. *)
LEMMA MinOfTwo ==
  ASSUME NEW a \in Int, NEW b \in Int
  PROVE  Min({a, b}) = IF a <= b THEN a ELSE b
<1> DEFINE Is(x) == \A y \in {a, b} : x <= y
           least == IF a <= b THEN a ELSE b
<1>1. least \in {a, b} /\ Is(least)
  OBVIOUS
<1>2. \A x \in {a, b} : Is(x) => x = least
  OBVIOUS
<1>3. Min({a, b}) = CHOOSE x \in {a, b} : Is(x)
  BY DEF Min
<1> HIDE DEF Is, least
<1>4. Min({a, b}) = least
  BY <1>1, <1>2, <1>3
<1> QED BY <1>4 DEF least

(* Whatever was sent, what urldecode makes of it is no longer. *)
LEMMA UrldecodeText ==
  ASSUME NEW S, NEW src \in Seq(S)
  PROVE  \E D : /\ EntityCharacters \subseteq D
                /\ urldecode(src, Len(src)) \in Seq(D)
                /\ Len(urldecode(src, Len(src))) <= Len(src)
<1>1. PICK write, next, D : EntityCharacters \cup S \subseteq D /\ Goes(src, write, next, D)
  BY UrldecodeLoops
<1> DEFINE n == Len(src)
           dst == Loop(n, write, next)[1]
           m == Min({Len(dst), n})
<1>2. /\ write \in [1..n -> Seq(D)]
      /\ \A i \in 1..n : next[i] \in (i + 1)..(n + 1)
      /\ urldecode(src, n) = SubSeq(dst, 1, m)
  BY <1>1 DEF Goes
<1>3. n \in Nat /\ 1 \in 1..(n + 1)
  OBVIOUS
<1>4. dst \in Seq(D)
  <2> DEFINE L == Loop(n, write, next)
  <2>1. Unfolded(L, n, D, write, next)
    BY <1>2, <1>3, LoopUnfolds
  <2> HIDE DEF L
  <2>2. L[1] \in Seq(D)
    BY <1>3, <2>1 DEF Unfolded
  <2> QED BY <2>2 DEF L
<1> HIDE DEF dst
<1>5. Len(dst) \in Nat /\ m = IF Len(dst) <= n THEN Len(dst) ELSE n
  <2> DEFINE size == Len(dst)
  <2>1. size \in Int /\ n \in Int /\ size \in Nat
    BY <1>3, <1>4
  <2> HIDE DEF size, n
  <2> QED BY <2>1, MinOfTwo DEF size, n
<1> HIDE DEF m, n
<1>6. m \in 0..Len(dst) /\ m <= n /\ m \in Nat
  BY <1>3, <1>5
<1>7. SubSeq(dst, 1, m) \in Seq(D) /\ Len(SubSeq(dst, 1, m)) = m
  BY <1>4, <1>6
<1>8. EntityCharacters \subseteq D
  BY <1>1
<1> QED BY <1>2, <1>6, <1>7, <1>8 DEF n

(* A value that was sent is decoded to what the client meant. *)
LEMMA DataDecoded ==
  ASSUME NEW S, NEW src \in Seq(S), NEW T, NEW text \in Seq(T), NEW at,
         SpellsData(src, text, at)
  PROVE  urldecode(src, Len(src)) = text
<1>1. PICK write, next, D : EntityCharacters \cup S \subseteq D /\ Goes(src, write, next, D)
  BY UrldecodeLoops
<1> DEFINE n == Len(src)
           dst == Loop(n, write, next)[1]
<1>2. /\ write \in [1..n -> Seq(D)]
      /\ \A i \in 1..n :
           /\ next[i] \in (i + 1)..(n + 1)
           /\ IsEscape(src, i) => write[i] = <<Escaped(src, i)>> /\ next[i] = i + 3
           /\ src[i] = "+" => write[i] = <<" ">> /\ next[i] = i + 1
           /\ src[i] \notin {"+", "%"} => write[i] = <<src[i]>> /\ next[i] = i + 1
      /\ urldecode(src, n) = SubSeq(dst, 1, Min({Len(dst), n}))
  BY <1>1 DEF Goes
<1>3. /\ n \in Nat /\ Len(text) \in Nat
      /\ \A k \in 1..Len(text) : k \in 1..(Len(text) + 1) /\ k + 1 \in 1..(Len(text) + 1)
  OBVIOUS
<1>4. at \in [1..(Len(text) + 1) -> 1..(n + 1)] /\ at[1] = 1 /\ at[Len(text) + 1] = n + 1
  BY DEF SpellsData, Pieces
<1>5. ASSUME NEW k \in 1..Len(text)
      PROVE  at[k] \in 1..n /\ write[at[k]] = <<text[k]>> /\ next[at[k]] = at[k + 1]
  <2> DEFINE i == at[k]
             j == at[k + 1]
  <2>1. \/ IsEscape(src, i) /\ Escaped(src, i) = text[k] /\ j = i + 3
        \/ text[k] = " " /\ src[i] = "+" /\ j = i + 1
        \/ text[k] \notin {"%", "+"} /\ src[i] = text[k] /\ j = i + 1
    BY DEF SpellsData, EscapeOf, Itself
  <2>2. i \in 1..(n + 1) /\ j \in 1..(n + 1)
    BY <1>3, <1>4
  <2> HIDE DEF i, j
  <2>3. j = i + 1 \/ j = i + 3
    BY <2>1
  <2>4. i \in 1..n
    <3> HIDE DEF n
    <3> QED BY <1>3, <2>2, <2>3
  <2>5. write[i] = <<text[k]>> /\ next[i] = j
    <3> HIDE DEF n
    <3> QED BY <1>2, <2>1, <2>4
  <2> QED BY <2>4, <2>5 DEF i, j
<1>6. dst = text /\ Len(text) <= n
  <2>1. Reads(n, write, next, text, at)
    BY <1>4, <1>5 DEF Reads
  <2> HIDE DEF n
  <2> QED BY <1>2, <1>3, <2>1, LoopReads
<1>7. Min({Len(text), n}) = Len(text)
  BY <1>3, <1>6, MinOfTwo
<1>8. SubSeq(text, 1, Len(text)) = text
  OBVIOUS
<1> QED BY <1>2, <1>6, <1>7, <1>8

(* What the status of an application shows of a value. *)
LEMMA ShownText ==
  ASSUME NEW r \in Requests
  PROVE  LET s == Shown(r.stored)
         IN  /\ Len(s) <= 2 * Len(r.stored)
             /\ Clean(s)
             /\ SpellsData(r.stored, r.plain, r.places)
                  /\ Len(Meant(r.plain)) < 2 * Len(r.stored) => s = Meant(r.plain)
<1> DEFINE n == Len(r.stored)
           value == urldecode(r.stored, n)
           s == xmlencode(value, 2 * n)
<1>1. r.stored \in Seq(STRING) /\ r.plain \in Seq(STRING)
  BY RestAssumption DEF Text
<1>2. n \in Nat /\ 2 * n \in Nat
  BY <1>1
<1>3. Shown(r.stored) = s
  BY DEF Shown
<1>4. PICK D : EntityCharacters \subseteq D /\ value \in Seq(D)
  BY <1>1, UrldecodeText
<1>5. SpellsData(r.stored, r.plain, r.places) => value = r.plain
  BY <1>1, DataDecoded
<1> HIDE DEF value
<1>6. Len(s) <= 2 * n /\ Clean(s)
  <2> HIDE DEF n
  <2> QED BY <1>2, <1>4, XmlClean
<1>7. ASSUME value = r.plain, Len(Meant(r.plain)) < 2 * n PROVE s = Meant(r.plain)
  <2>1. Len(Meant(value)) < 2 * n
    BY <1>7
  <2> HIDE DEF n
  <2>2. xmlencode(value, 2 * n) = Meant(value)
    BY <1>2, <1>4, <2>1, XmlWhole
  <2> QED BY <1>7, <2>2
<1> HIDE DEF s
<1> QED BY <1>3, <1>5, <1>6, <1>7

(* handle_app_status shows DIAL data of every length within the room that  *)
(* it allocates, never with a part of an entity or a bare "<", and as the  *)
(* client meant it where that fits.                                        *)
THEOREM DataShown == RestSpec => []ShownWhole
<1>1. TypeOK => ShownWhole
  <2> SUFFICES ASSUME TypeOK PROVE ShownWhole
    OBVIOUS
  <2>1. req \in Requests
    BY DEF TypeOK
  <2> QED BY <2>1, ShownText DEF ShownWhole, Clean
<1> QED BY <1>1, HandlerIsCallback, TypeCorrect, PTL

-----------------------------------------------------------------------------
(* The URI: its query, its escapes, its slashes and dots. *)

(* The least of a set of naturals, which is not empty, is in it. *)
LEMMA MinIsLeast ==
  ASSUME NEW S, S \subseteq Nat, S # {}
  PROVE  Min(S) \in S /\ Min(S) \in Nat /\ \A k \in S : Min(S) <= k
<1>1. PICK m \in S : \A k \in S : m <= k
  BY SmallestMember
<1> DEFINE Is(x) == \A k \in S : x <= k
<1>2. Min(S) = CHOOSE x \in S : Is(x)
  BY DEF Min
<1>3. Is(m)
  BY <1>1
<1> HIDE DEF Is
<1>4. Min(S) \in S /\ Is(Min(S))
  BY <1>2, <1>3, Zenon
<1> QED BY <1>4 DEF Is

(* The least of a set is what it is known to be. *)
LEMMA MinIs ==
  ASSUME NEW S, S \subseteq Nat, NEW m \in S, \A k \in S : m <= k
  PROVE  Min(S) = m
<1>1. Min(S) \in S /\ Min(S) \in Nat /\ Min(S) <= m
  BY MinIsLeast
<1>2. m <= Min(S) /\ m \in Nat
  BY <1>1
<1> QED BY <1>1, <1>2

(* A URI without its query is a text of the same characters. *)
LEMMA QueryCutOff ==
  ASSUME NEW S, NEW uri \in Seq(S)
  PROVE  WithoutQuery(uri) \in Seq(S)
<1> DEFINE q == FirstOf(uri, "?")
<1>1. CASE q = 0
  BY <1>1 DEF WithoutQuery
<1>2. CASE q # 0
  <2>1. Places(uri, "?") # {} /\ q = Min(Places(uri, "?"))
    BY <1>2 DEF FirstOf
  <2>2. Places(uri, "?") \subseteq 1..Len(uri)
    BY DEF Places
  <2>3. q \in 1..Len(uri)
    <3>1. Places(uri, "?") \subseteq Nat
      BY <2>2
    <3>2. Min(Places(uri, "?")) \in Places(uri, "?")
      BY <2>1, <3>1, MinIsLeast
    <3> QED BY <2>1, <2>2, <3>2
  <2>4. WithoutQuery(uri) = SubSeq(uri, 1, q - 1)
    BY <1>2 DEF WithoutQuery
  <2> HIDE DEF q
  <2>5. SubSeq(uri, 1, q - 1) \in Seq(S)
    BY <2>3
  <2> QED BY <2>4, <2>5
<1> QED BY <1>1, <1>2

(* Decoding undoes the escapes. *)
LEMMA UriDecoded ==
  ASSUME NEW S, NEW s \in Seq(S), NEW T, NEW text \in Seq(T), NEW at, SpellsUri(s, text, at)
  PROVE  url_decode(s) = text
<1> DEFINE n == Len(s)
           write == [i \in 1..n |-> <<IF IsEscape(s, i) THEN Escaped(s, i) ELSE s[i]>>]
           next == [i \in 1..n |-> IF IsEscape(s, i) THEN i + 3 ELSE i + 1]
           D == S \cup {Escaped(s, i) : i \in 1..n}
<1>1. url_decode(s) = Loop(n, write, next)[1]
  BY DEF url_decode
<1>2. n \in Nat
  OBVIOUS
<1>3. ASSUME NEW i \in 1..n
      PROVE  /\ next[i] \in (i + 1)..(n + 1)
             /\ write[i] \in Seq(D)
             /\ IsEscape(s, i) => write[i] = <<Escaped(s, i)>> /\ next[i] = i + 3
             /\ ~IsEscape(s, i) => write[i] = <<s[i]>> /\ next[i] = i + 1
  <2>1. IsEscape(s, i) => i + 2 <= n
    BY DEF IsEscape
  <2>2. /\ IsEscape(s, i) => write[i] = <<Escaped(s, i)>> /\ next[i] = i + 3
        /\ ~IsEscape(s, i) => write[i] = <<s[i]>> /\ next[i] = i + 1
    OBVIOUS
  <2>3. s[i] \in D /\ Escaped(s, i) \in D
    <3>1. s[i] \in S
      OBVIOUS
    <3>2. Escaped(s, i) \in {Escaped(s, k) : k \in 1..n}
      BY Zenon
    <3> QED BY <3>1, <3>2, Zenon
  <2> HIDE DEF write, next, D, n
  <2>4. \A c \in D : <<c>> \in Seq(D)
    OBVIOUS
  <2>5. <<s[i]>> \in Seq(D) /\ <<Escaped(s, i)>> \in Seq(D)
    BY <2>3, <2>4
  <2>6. next[i] \in (i + 1)..(n + 1)
    BY <1>2, <2>1, <2>2
  <2> QED BY <2>2, <2>5, <2>6
<1>4. write = [i \in 1..n |-> write[i]]
  OBVIOUS
<1> HIDE DEF write, next, D
<1>5. write \in [1..n -> Seq(D)]
  BY <1>3, <1>4
<1>6. /\ at \in [1..(Len(text) + 1) -> 1..(n + 1)] /\ at[1] = 1 /\ at[Len(text) + 1] = n + 1
      /\ \A k \in 1..Len(text) : k \in 1..(Len(text) + 1) /\ k + 1 \in 1..(Len(text) + 1)
  BY DEF SpellsUri, Pieces
<1>7. ASSUME NEW k \in 1..Len(text)
      PROVE  at[k] \in 1..n /\ write[at[k]] = <<text[k]>> /\ next[at[k]] = at[k + 1]
  <2> DEFINE i == at[k]
             j == at[k + 1]
  <2>1. \/ IsEscape(s, i) /\ Escaped(s, i) = text[k] /\ j = i + 3
        \/ ~IsEscape(s, i) /\ s[i] = text[k] /\ j = i + 1
    BY DEF SpellsUri, EscapeOf, Itself
  <2>2. i \in 1..(n + 1) /\ j \in 1..(n + 1)
    BY <1>6
  <2> HIDE DEF i, j
  <2>3. j = i + 1 \/ j = i + 3
    BY <2>1
  <2>4. i \in 1..n
    <3> HIDE DEF n
    <3> QED BY <1>2, <2>2, <2>3
  <2>5. write[i] = <<text[k]>> /\ next[i] = j
    <3> HIDE DEF n
    <3> QED BY <1>3, <2>1, <2>4
  <2> QED BY <2>4, <2>5 DEF i, j
<1>8. Reads(n, write, next, text, at)
  BY <1>6, <1>7 DEF Reads
<1>9. Loop(n, write, next)[1] = text
  <2>1. \A i \in 1..n : next[i] \in (i + 1)..(n + 1)
    BY <1>3
  <2> HIDE DEF n
  <2> QED BY <1>2, <1>5, <1>8, <2>1, LoopReads
<1> QED BY <1>1, <1>9

(* Where the slashes that follow a place end. *)
LEMMA SlashesEnd ==
  ASSUME NEW s, NEW n \in Nat, n = Len(s), NEW i \in 1..(n + 1)
  PROVE  /\ AfterSlashes(s, i) \in i..(n + 1)
         /\ \A j \in i..(n + 1) :
              (j > n \/ s[j] \notin Slashes) /\ (\A k \in i..(j - 1) : s[k] \in Slashes)
                => AfterSlashes(s, i) = j
<1> DEFINE E == {j \in i..(n + 1) : j > n \/ s[j] \notin Slashes}
<1>1. AfterSlashes(s, i) = Min(E)
  BY DEF AfterSlashes
<1>2. E \subseteq Nat /\ n + 1 \in E
  OBVIOUS
<1>3. Min(E) \in E
  <2> HIDE DEF E
  <2> QED BY <1>2, MinIsLeast
<1>4. ASSUME NEW j \in i..(n + 1), j > n \/ s[j] \notin Slashes,
             \A k \in i..(j - 1) : s[k] \in Slashes
      PROVE  Min(E) = j
  <2>1. j \in E
    BY <1>4
  <2>2. ASSUME NEW k \in E PROVE j <= k
    <3>1. k \in i..(n + 1) /\ (k > n \/ s[k] \notin Slashes)
      OBVIOUS
    <3>2. k \notin i..(j - 1)
      <4>1. CASE k > n
        BY <4>1
      <4>2. CASE s[k] \notin Slashes
        BY <1>4, <4>2
      <4> QED BY <3>1, <4>1, <4>2
    <3> QED BY <3>1, <3>2
  <2> HIDE DEF E
  <2> QED BY <1>2, <2>1, <2>2, MinIs
<1> QED BY <1>1, <1>3, <1>4

(* A number is even or odd. *)
LEMMA Halves ==
  ASSUME NEW d \in Nat
  PROVE  \E k \in 0..d : d = 2 * k \/ d = 2 * k + 1
<1> DEFINE H == {m \in Nat : \E k \in 0..m : m = 2 * k \/ m = 2 * k + 1}
<1>1. 0 \in H
  OBVIOUS
<1>2. ASSUME NEW m \in H, m \in Nat PROVE m + 1 \in H
  <2>1. PICK k \in 0..m : m = 2 * k \/ m = 2 * k + 1
    OBVIOUS
  <2>2. CASE m = 2 * k
    BY <2>2
  <2>3. CASE m = 2 * k + 1
    <3>1. m + 1 = 2 * (k + 1) /\ k + 1 \in 0..(m + 1)
      BY <2>3
    <3> QED BY <3>1
  <2> QED BY <2>1, <2>2, <2>3
<1> HIDE DEF H
<1>3. \A m \in Nat : m \in H
  BY <1>1, <1>2, SetInduction
<1> QED BY <1>3 DEF H

(* Where the pairs of dots from a place on end. *)
LEMMA DotsEnd ==
  ASSUME NEW s, NEW n \in Nat, n = Len(s), NEW i \in 1..(n + 1)
  PROVE  /\ AfterDots(s, i) \in i..(n + 1)
         /\ ~(i < n /\ s[i] = "." /\ s[i + 1] = ".") => AfterDots(s, i) = i
<1> DEFINE Pair(j) == j < n /\ s[j] = "." /\ s[j + 1] = "."
           E == {j \in i..(n + 1) : (\E k \in 0..n : j = i + 2 * k) /\ ~Pair(j)}
<1>1. AfterDots(s, i) = Min(E)
  BY DEF AfterDots
<1>2. E \subseteq Nat /\ E \subseteq i..(n + 1)
  OBVIOUS
<1>3. \E j \in E : TRUE
  <2> DEFINE d == n + 1 - i
  <2>1. d \in 0..n /\ d \in Nat /\ n + 1 = i + d
    OBVIOUS
  <2> HIDE DEF d
  <2>2. PICK k \in 0..d : d = 2 * k \/ d = 2 * k + 1
    BY <2>1, Halves
  <2>3. k \in 0..n /\ i + 2 * k \in i..(n + 1) /\ ~(i + 2 * k < n)
    BY <2>1, <2>2
  <2>4. i + 2 * k \in E
    BY <2>3
  <2> QED BY <2>4
<1>4. Min(E) \in E
  <2> HIDE DEF E
  <2> QED BY <1>2, <1>3, MinIsLeast
<1>5. ASSUME ~Pair(i) PROVE Min(E) = i
  <2>1. i = i + 2 * 0 /\ 0 \in 0..n /\ i \in i..(n + 1)
    OBVIOUS
  <2>2. i \in E
    BY <1>5, <2>1
  <2>3. \A j \in E : i <= j
    BY <1>2
  <2> HIDE DEF E
  <2> QED BY <1>2, <2>2, <2>3, MinIs
<1> HIDE DEF E
<1> QED BY <1>1, <1>2, <1>4, <1>5

(* No two slashes, and no pair of dots after a slash. *)
IsCleanPath(text) ==
  \A k \in 1..Len(text) :
    /\ text[k] # "\\"
    /\ text[k] = "/" /\ k + 1 <= Len(text) => text[k + 1] # "/"
    /\ text[k] = "/" /\ k + 2 <= Len(text) => ~(text[k + 1] = "." /\ text[k + 2] = ".")

(* What a character of a clean path becomes when its slashes are repeated. *)
LEMMA AfterCharacter ==
  ASSUME NEW S, NEW s \in Seq(S), NEW T, NEW text \in Seq(T), NEW at,
         RepeatsSlashes(s, text, at), IsCleanPath(text), NEW k \in 1..Len(text)
  PROVE  /\ at[k] \in 1..Len(s) /\ s[at[k]] = text[k]
         /\ IF s[at[k]] \in Slashes
            THEN AfterDots(s, AfterSlashes(s, at[k] + 1)) = at[k + 1]
            ELSE at[k] + 1 = at[k + 1]
<1> DEFINE n == Len(s)
           m == Len(text)
           i == at[k]
           j == at[k + 1]
<1>1. n \in Nat /\ m \in Nat /\ k \in 1..(m + 1) /\ k + 1 \in 1..(m + 1)
  OBVIOUS
<1>2. /\ at \in [1..(m + 1) -> 1..(n + 1)] /\ at[m + 1] = n + 1
      /\ \A l \in 1..m :
           /\ at[l] < at[l + 1] /\ (text[l] # "/" => at[l + 1] = at[l] + 1)
           /\ \A p \in at[l]..(at[l + 1] - 1) : s[p] = text[l]
  BY DEF RepeatsSlashes, Pieces
<1>3. i \in 1..(n + 1) /\ j \in 1..(n + 1) /\ i < j
  BY <1>1, <1>2
<1>4. (text[k] # "/" => j = i + 1) /\ \A p \in i..(j - 1) : s[p] = text[k]
  BY <1>2
<1>5. k + 1 <= m => /\ j < at[k + 2] /\ at[k + 2] \in 1..(n + 1)
                    /\ (text[k + 1] # "/" => at[k + 2] = j + 1)
                    /\ \A p \in j..(at[k + 2] - 1) : s[p] = text[k + 1]
  <2>1. k + 1 <= m => k + 1 \in 1..m /\ k + 2 \in 1..(m + 1) /\ (k + 1) + 1 = k + 2
    BY <1>1
  <2> QED BY <1>2, <2>1
<1>6. k + 2 <= m => /\ at[k + 2] < at[k + 3] /\ at[k + 3] \in 1..(n + 1)
                    /\ \A p \in at[k + 2]..(at[k + 3] - 1) : s[p] = text[k + 2]
  <2>1. k + 2 <= m => k + 2 \in 1..m /\ k + 3 \in 1..(m + 1) /\ (k + 2) + 1 = k + 3
    BY <1>1
  <2> QED BY <1>2, <2>1
<1>7. ~(k + 1 <= m) => j = n + 1
  <2>1. ~(k + 1 <= m) => k + 1 = m + 1
    BY <1>1
  <2> QED BY <1>2, <2>1
<1>8. ~(k + 2 <= m) /\ k + 1 <= m => at[k + 2] = n + 1
  <2>1. ~(k + 2 <= m) /\ k + 1 <= m => k + 2 = m + 1
    BY <1>1
  <2> QED BY <1>2, <2>1
<1> DEFINE h == at[k + 2]
           g == at[k + 3]
<1>9. /\ text[k] # "\\"
      /\ text[k] = "/" /\ k + 1 <= m => text[k + 1] # "/"
      /\ text[k] = "/" /\ k + 2 <= m => ~(text[k + 1] = "." /\ text[k + 2] = ".")
      /\ k + 1 <= m => text[k + 1] # "\\"
  <2>1. k + 1 <= m => k + 1 \in 1..m
    BY <1>1
  <2> QED BY <2>1 DEF IsCleanPath
<1> HIDE DEF i, j, h, g
<1>10. i \in 1..n /\ s[i] = text[k] /\ i + 1 \in 1..(n + 1)
  BY <1>1, <1>3, <1>4
<1>11. CASE text[k] # "/"
  <2>1. s[i] \notin Slashes
    BY <1>9, <1>10, <1>11 DEF Slashes
  <2> QED BY <1>4, <1>10, <1>11, <2>1 DEF i, j
<1>12. CASE text[k] = "/"
  <2>1. s[i] \in Slashes
    BY <1>10, <1>12 DEF Slashes
  <2>2. j > n \/ s[j] \notin Slashes
    <3>1. CASE k + 1 <= m
      <4>1. s[j] = text[k + 1]
        <5>1. h \in 1..(n + 1) /\ j < h /\ \A p \in j..(h - 1) : s[p] = text[k + 1]
          BY <1>5, <3>1 DEF h, j
        <5> QED BY <1>3, <5>1
      <4> QED BY <1>9, <1>12, <3>1, <4>1 DEF Slashes
    <3>2. CASE ~(k + 1 <= m)
      BY <1>1, <1>7, <3>2 DEF j
    <3> QED BY <3>1, <3>2
  <2>3. ASSUME NEW p \in (i + 1)..(j - 1) PROVE s[p] \in Slashes
    <3>1. p \in i..(j - 1)
      BY <1>3
    <3> QED BY <1>4, <1>12, <3>1 DEF Slashes
  <2>4. AfterSlashes(s, i + 1) = j
    <3>1. j \in (i + 1)..(n + 1)
      BY <1>1, <1>3
    <3> QED BY <1>1, <1>10, <2>2, <2>3, <3>1, SlashesEnd
  <2>5. ~(j < n /\ s[j] = "." /\ s[j + 1] = ".")
    <3> SUFFICES ASSUME j < n, s[j] = ".", s[j + 1] = "." PROVE FALSE
      OBVIOUS
    <3>1. k + 1 <= m
      BY <1>1, <1>3, <1>7 DEF j
    <3>2. h \in 1..(n + 1) /\ j < h /\ \A p \in j..(h - 1) : s[p] = text[k + 1]
      BY <1>5, <3>1 DEF h, j
    <3>3. text[k + 1] = "."
      BY <1>3, <3>2
    <3>4. h = j + 1
      BY <1>5, <3>1, <3>3 DEF h, j
    <3>5. k + 2 <= m
      <4>1. ~(k + 2 <= m) => h = n + 1
        BY <1>8, <3>1 DEF h
      <4> QED BY <1>1, <1>3, <3>4, <4>1
    <3>6. g \in 1..(n + 1) /\ h < g /\ \A p \in h..(g - 1) : s[p] = text[k + 2]
      BY <1>6, <3>5 DEF h, g
    <3>7. s[h] = text[k + 2]
      BY <3>2, <3>6
    <3> QED BY <1>9, <1>12, <3>3, <3>4, <3>5, <3>7
  <2>6. AfterDots(s, j) = j
    BY <1>1, <1>3, <2>5, DotsEnd
  <2> QED BY <1>10, <2>1, <2>4, <2>6 DEF i, j
<1> QED BY <1>11, <1>12

(* A clean path is what is left of a path that repeats its slashes. *)
LEMMA PathCleaned ==
  ASSUME NEW S, NEW s \in Seq(S), NEW T, NEW text \in Seq(T), NEW at,
         RepeatsSlashes(s, text, at), IsCleanPath(text)
  PROVE  remove_double_dots_and_double_slashes(s) = text
<1> DEFINE n == Len(s)
           write == [i \in 1..n |-> <<s[i]>>]
           next == [i \in 1..n |->
                      IF s[i] \in Slashes THEN AfterDots(s, AfterSlashes(s, i + 1)) ELSE i + 1]
<1>1. remove_double_dots_and_double_slashes(s) = Loop(n, write, next)[1]
  BY DEF remove_double_dots_and_double_slashes
<1>2. n \in Nat /\ write \in [1..n -> Seq(S)]
  OBVIOUS
<1>3. ASSUME NEW i \in 1..n PROVE next[i] \in (i + 1)..(n + 1)
  <2>1. CASE s[i] \in Slashes
    <3> DEFINE j == AfterSlashes(s, i + 1)
    <3>1. i + 1 \in 1..(n + 1)
      BY <1>2
    <3>2. j \in (i + 1)..(n + 1)
      BY <1>2, <3>1, SlashesEnd
    <3> HIDE DEF j
    <3>3. j \in 1..(n + 1)
      BY <3>2
    <3>4. AfterDots(s, j) \in j..(n + 1)
      BY <1>2, <3>3, DotsEnd
    <3>5. next[i] = AfterDots(s, j)
      BY <2>1 DEF j
    <3> QED BY <3>2, <3>4, <3>5
  <2>2. CASE s[i] \notin Slashes
    <3>1. next[i] = i + 1
      BY <2>2
    <3> QED BY <1>2, <3>1
  <2> QED BY <2>1, <2>2
<1>4. ASSUME NEW k \in 1..Len(text)
      PROVE  at[k] \in 1..n /\ write[at[k]] = <<text[k]>> /\ next[at[k]] = at[k + 1]
  BY AfterCharacter
<1>5. Reads(n, write, next, text, at)
  <2>1. at \in [1..(Len(text) + 1) -> 1..(n + 1)] /\ at[1] = 1 /\ at[Len(text) + 1] = n + 1
    BY DEF RepeatsSlashes, Pieces
  <2> HIDE DEF write, next
  <2> QED BY <1>4, <2>1 DEF Reads
<1>6. Loop(n, write, next)[1] = text
  <2> HIDE DEF n, write, next
  <2> QED BY <1>2, <1>3, <1>5, LoopReads
<1> QED BY <1>1, <1>6

-----------------------------------------------------------------------------
(* The URIs of the protocol, and what Route makes of them. *)

(* The parts of the protocol's URIs. *)
PathCharacters == {"/", "a", "p", "s", "r", "u", "n", "h", "i", "d", "e", "l", "_", "t"}

(* "/apps/", character by character. *)
LEMMA AppsText ==
  /\ APPS_URI \in Seq(PathCharacters) /\ Len(APPS_URI) = 6
  /\ APPS_URI[1] = "/" /\ APPS_URI[2] = "a" /\ APPS_URI[3] = "p" /\ APPS_URI[4] = "p"
  /\ APPS_URI[5] = "s" /\ APPS_URI[6] = "/"
BY DEF APPS_URI, PathCharacters

(* "/run". *)
LEMMA RunText ==
  /\ RUN_URI \in Seq(PathCharacters) /\ Len(RUN_URI) = 4
  /\ RUN_URI[1] = "/" /\ RUN_URI[2] = "r" /\ RUN_URI[3] = "u" /\ RUN_URI[4] = "n"
BY DEF RUN_URI, PathCharacters

(* "/hide". *)
LEMMA HideText ==
  /\ HIDE_URI \in Seq(PathCharacters) /\ Len(HIDE_URI) = 5
  /\ HIDE_URI[1] = "/" /\ HIDE_URI[2] = "h" /\ HIDE_URI[3] = "i" /\ HIDE_URI[4] = "d"
  /\ HIDE_URI[5] = "e"
BY DEF HIDE_URI, PathCharacters

(* "/dial_data". *)
LEMMA DataText ==
  /\ DIAL_DATA_URI \in Seq(PathCharacters) /\ Len(DIAL_DATA_URI) = 10
  /\ DIAL_DATA_URI[1] = "/" /\ DIAL_DATA_URI[2] = "d" /\ DIAL_DATA_URI[3] = "i"
  /\ DIAL_DATA_URI[4] = "a" /\ DIAL_DATA_URI[5] = "l" /\ DIAL_DATA_URI[6] = "_"
  /\ DIAL_DATA_URI[7] = "d" /\ DIAL_DATA_URI[8] = "a" /\ DIAL_DATA_URI[9] = "t"
  /\ DIAL_DATA_URI[10] = "a"
BY DEF DIAL_DATA_URI, PathCharacters

(* What may follow a name: nothing, or a slash and a word. *)
Follows(y) ==
  /\ y \in Seq(PathCharacters)
  /\ y # <<>> => y[1] = "/"
  /\ \A i \in 1..Len(y) : y[i] = "/" => i + 1 <= Len(y) /\ y[i + 1] # "/"

(* "/run" can follow a name. *)
LEMMA RunFollows == Follows(RUN_URI)
<1>1. \A i \in 1..4 : i = 1 \/ i = 2 \/ i = 3 \/ i = 4
  OBVIOUS
<1>2. \A i \in 1..4 : RUN_URI[i] = "/" => i = 1
  BY <1>1, RunText
<1> QED BY <1>2, RunText DEF Follows

(* "/hide" can. *)
LEMMA HideFollows == Follows(HIDE_URI)
<1>1. \A i \in 1..5 : i = 1 \/ i = 2 \/ i = 3 \/ i = 4 \/ i = 5
  OBVIOUS
<1>2. \A i \in 1..5 : HIDE_URI[i] = "/" => i = 1
  BY <1>1, HideText
<1> QED BY <1>2, HideText DEF Follows

(* "/dial_data" can. *)
LEMMA DataFollows == Follows(DIAL_DATA_URI)
<1>1. \A i \in 1..10 : i = 1 \/ i = 2 \/ i = 3 \/ i = 4 \/ i = 5 \/ i = 6 \/ i = 7 \/ i = 8
                       \/ i = 9 \/ i = 10
  OBVIOUS
<1>2. \A i \in 1..10 : DIAL_DATA_URI[i] = "/" => i = 1
  BY <1>1, DataText
<1>3. DIAL_DATA_URI[2] # "/"
  BY DataText
<1>4. DIAL_DATA_URI \in Seq(PathCharacters) /\ DIAL_DATA_URI[1] = "/" /\ Len(DIAL_DATA_URI) = 10
  BY DataText
<1> DEFINE y == DIAL_DATA_URI
<1> HIDE DEF y
<1>5. \A i \in 1..Len(y) : y[i] = "/" => i + 1 <= Len(y) /\ y[i + 1] # "/"
  BY <1>2, <1>3, <1>4 DEF y
<1> QED BY <1>4, <1>5 DEF Follows, y

(* Of two that can, the second can follow the first. *)
LEMMA BothFollow ==
  ASSUME NEW y, NEW z, Follows(y), Follows(z), y # <<>>
  PROVE  Follows(y \o z)
<1>1. /\ y \in Seq(PathCharacters) /\ z \in Seq(PathCharacters) /\ Len(y) \in Nat \ {0}
      /\ Len(z) \in Nat
  BY DEF Follows
<1>2. /\ y \o z \in Seq(PathCharacters) /\ Len(y \o z) = Len(y) + Len(z)
      /\ \A i \in 1..Len(y) : (y \o z)[i] = y[i]
      /\ \A i \in 1..Len(z) : (y \o z)[Len(y) + i] = z[i]
  BY <1>1
<1>3. /\ y[1] = "/"
      /\ \A i \in 1..Len(y) : y[i] = "/" => i + 1 <= Len(y) /\ y[i + 1] # "/"
      /\ \A i \in 1..Len(z) : z[i] = "/" => i + 1 <= Len(z) /\ z[i + 1] # "/"
  BY DEF Follows
<1> DEFINE t == y \o z
<1> HIDE DEF t
<1>4. ASSUME NEW i \in 1..Len(t), t[i] = "/" PROVE i + 1 <= Len(t) /\ t[i + 1] # "/"
  <2>1. CASE i \in 1..Len(y)
    <3>1. i + 1 <= Len(y) /\ y[i + 1] # "/"
      BY <1>2, <1>3, <1>4, <2>1 DEF t
    <3>2. i + 1 \in 1..Len(y)
      BY <1>1, <2>1, <3>1
    <3> QED BY <1>1, <1>2, <3>1, <3>2 DEF t
  <2>2. CASE i \notin 1..Len(y)
    <3> DEFINE j == i - Len(y)
    <3>1. j \in 1..Len(z) /\ i = Len(y) + j
      BY <1>1, <1>2, <2>2 DEF t
    <3> HIDE DEF j
    <3>2. j + 1 <= Len(z) /\ z[j + 1] # "/"
      BY <1>2, <1>3, <1>4, <3>1 DEF t
    <3>3. j + 1 \in 1..Len(z) /\ i + 1 = Len(y) + (j + 1)
      BY <1>1, <3>1, <3>2
    <3> QED BY <1>1, <1>2, <3>2, <3>3 DEF t
  <2> QED BY <2>1, <2>2
<1>5. t[1] = "/"
  BY <1>1, <1>2, <1>3 DEF t
<1> QED BY <1>2, <1>4, <1>5 DEF Follows, t

(* Whatever a form ends with can follow a name. *)
LEMMA SuffixFollows ==
  ASSUME NEW form \in {"run", "app", "hide", "data"}
  PROVE  Follows(Suffix(form))
<1>1. Follows(<<>>)
  BY DEF Follows
<1>2. Follows(RUN_URI \o HIDE_URI)
  <2>1. RUN_URI # <<>>
    <3>1. Len(<<>>) = 0
      OBVIOUS
    <3> QED BY <3>1, RunText
  <2> QED BY <2>1, RunFollows, HideFollows, BothFollow
<1>3. \/ Suffix(form) = RUN_URI \/ Suffix(form) = <<>>
      \/ Suffix(form) = RUN_URI \o HIDE_URI \/ Suffix(form) = DIAL_DATA_URI
  BY DEF Suffix
<1> QED BY <1>1, <1>2, <1>3, RunFollows, DataFollows

(* What is where in two texts that are joined. *)
IsJoined(t, a, b, n) ==
  /\ Len(t) = n + Len(b)
  /\ \A i \in 1..n : t[i] = a[i]
  /\ \A i \in 1..Len(b) : t[n + i] = b[i]

(* Two texts that are joined, character by character. *)
LEMMA Joined ==
  ASSUME NEW D, NEW a \in Seq(D), NEW b \in Seq(D), NEW n, n = Len(a)
  PROVE  a \o b \in Seq(D) /\ IsJoined(a \o b, a, b, n)
<1>1. /\ a \o b \in Seq(D) /\ Len(a \o b) = Len(a) + Len(b)
      /\ \A i \in 1..Len(a) : (a \o b)[i] = a[i]
      /\ \A i \in 1..Len(b) : (a \o b)[Len(a) + i] = b[i]
  OBVIOUS
<1> QED BY <1>1 DEF IsJoined

(* What is where in a part of a text. *)
IsPart(v, s, i, m) == Len(v) = m /\ \A k \in 1..m : v[k] = s[i - 1 + k]

(* A part of a text, character by character. *)
LEMMA PartRead ==
  ASSUME NEW D, NEW s \in Seq(D), NEW i \in Nat \ {0}, NEW m \in Nat, NEW j, j = i - 1 + m,
         j <= Len(s)
  PROVE  SubSeq(s, i, j) \in Seq(D) /\ IsPart(SubSeq(s, i, j), s, i, m)
<1> DEFINE v == SubSeq(s, i, j)
<1>1. \A k \in i..j : s[k] \in D
  OBVIOUS
<1>2. v \in Seq(D) /\ Len(v) = IF i <= j THEN j - i + 1 ELSE 0
  BY <1>1, SubSeqProperties
<1>3. Len(v) = m
  BY <1>2
<1>4. ASSUME NEW k \in 1..m PROVE v[k] = s[i - 1 + k]
  OBVIOUS
<1> QED BY <1>2, <1>3, <1>4 DEF IsPart

(* A URI of the protocol: the slash of "/apps/" before the name is the only *)
(* one but those of its beginning and its end.                             *)
Built(u, app, y) ==
  /\ Len(u) = 6 + Len(app) + Len(y)
  /\ \A i \in 1..6 : u[i] = APPS_URI[i]
  /\ \A i \in 1..Len(app) : u[6 + i] = app[i]
  /\ \A i \in 1..Len(y) : u[6 + Len(app) + i] = y[i]

(* A URI of the protocol, character by character. *)
LEMMA UriBuilt ==
  ASSUME NEW S, NEW app \in Seq(S), NEW y \in Seq(PathCharacters)
  PROVE  LET u == APPS_URI \o (app \o y)
         IN  Built(u, app, y) /\ u \in Seq(S \cup PathCharacters)
<1> DEFINE D == S \cup PathCharacters
           v == app \o y
           u == APPS_URI \o v
<1>1. APPS_URI \in Seq(D) /\ app \in Seq(D) /\ y \in Seq(D)
  BY AppsText
<1> HIDE DEF D
<1>2. /\ v \in Seq(D) /\ Len(v) = Len(app) + Len(y) /\ Len(app) \in Nat /\ Len(y) \in Nat
      /\ \A i \in 1..Len(app) : v[i] = app[i]
      /\ \A i \in 1..Len(y) : v[Len(app) + i] = y[i]
  BY <1>1
<1> HIDE DEF v
<1>3. /\ u \in Seq(D) /\ Len(u) = 6 + Len(v)
      /\ \A i \in 1..6 : u[i] = APPS_URI[i]
      /\ \A i \in 1..Len(v) : u[6 + i] = v[i]
  <2> DEFINE a == APPS_URI
  <2>1. a \in Seq(D) /\ Len(a) = 6
    BY <1>1, AppsText
  <2> HIDE DEF a
  <2>2. a \o v \in Seq(D) /\ IsJoined(a \o v, a, v, 6)
    BY <1>2, <2>1, Joined
  <2>3. a \o v \in Seq(D) /\ IsJoined(u, a, v, 6)
    BY <2>2 DEF a
  <2> QED BY <2>3 DEF a, IsJoined
<1> HIDE DEF u
<1>4. ASSUME NEW i \in 1..Len(app) PROVE u[6 + i] = app[i]
  <2>1. i \in 1..Len(v)
    BY <1>2
  <2> QED BY <1>2, <1>3, <2>1
<1>5. ASSUME NEW i \in 1..Len(y) PROVE u[6 + Len(app) + i] = y[i]
  <2>1. Len(app) + i \in 1..Len(v) /\ 6 + Len(app) + i = 6 + (Len(app) + i)
    BY <1>2
  <2> QED BY <1>2, <1>3, <2>1
<1>6. Len(u) = 6 + Len(app) + Len(y)
  BY <1>2, <1>3
<1>7. Built(u, app, y)
  BY <1>3, <1>4, <1>5, <1>6 DEF Built
<1> QED BY <1>3, <1>7 DEF u, v, D

(* The fixed parts of a URI have no dots and no backslashes. *)
LEMMA NoDotsInside ==
  ASSUME NEW c \in PathCharacters
  PROVE  c # "\\" /\ c # "."
BY DEF PathCharacters

(* Such a URI is a clean path. *)
LEMMA BuiltClean ==
  ASSUME NEW S, NEW app \in Seq(S), AppName(app), NEW y, Follows(y), NEW u, Built(u, app, y)
  PROVE  IsCleanPath(u)
<1> DEFINE q == Len(app)
           r == Len(y)
<1>1. q \in Nat /\ q >= 1 /\ \A i \in 1..q : app[i] \notin Slashes
  BY DEF AppName
<1>2. /\ y \in Seq(PathCharacters) /\ r \in Nat /\ (r >= 1 => y[1] = "/")
      /\ \A i \in 1..r : y[i] # "." /\ y[i] # "\\" /\ (y[i] = "/" => i + 1 <= r /\ y[i + 1] # "/")
  <2>1. y \in Seq(PathCharacters) /\ r \in Nat /\ (y # <<>> => y[1] = "/")
    BY DEF Follows
  <2>2. r >= 1 => y # <<>>
    OBVIOUS
  <2>3. \A i \in 1..r : y[i] \in PathCharacters
    BY <2>1
  <2>4. \A i \in 1..r : y[i] = "/" => i + 1 <= r /\ y[i + 1] # "/"
    BY DEF Follows
  <2> QED BY <2>1, <2>2, <2>3, <2>4, NoDotsInside
<1>3. /\ Len(u) = 6 + q + r
      /\ \A i \in 1..6 : u[i] = APPS_URI[i]
      /\ \A i \in 1..q : u[6 + i] = app[i]
      /\ \A i \in 1..r : u[6 + q + i] = y[i]
  BY DEF Built
<1>4. ~(q >= 2 /\ app[1] = "." /\ app[2] = ".")
  <2>1. ~StartsWith(app, <<".", ".">>)
    BY DEF AppName
  <2>2. Len(<<".", ".">>) = 2 /\ \A k \in 1..2 : <<".", ".">>[k] = "."
    OBVIOUS
  <2>3. ASSUME q >= 2, app[1] = ".", app[2] = "." PROVE FALSE
    <3>1. \A k \in 1..2 : k = 1 \/ k = 2
      OBVIOUS
    <3>2. 1 - 1 + 2 <= Len(app) /\ \A k \in 1..2 : app[1 - 1 + k] = "."
      BY <1>1, <2>3, <3>1
    <3>3. PartAt(app, 1, <<".", ".">>)
      BY <2>2, <3>2 DEF PartAt
    <3> QED BY <2>1, <3>3 DEF StartsWith
  <2> QED BY <2>3
<1>5. /\ u[1] = "/" /\ u[2] = "a" /\ u[3] = "p" /\ u[4] = "p" /\ u[5] = "s" /\ u[6] = "/"
  <2>1. 1 \in 1..6 /\ 2 \in 1..6 /\ 3 \in 1..6 /\ 4 \in 1..6 /\ 5 \in 1..6 /\ 6 \in 1..6
    OBVIOUS
  <2> QED BY <1>3, <2>1, AppsText
<1>6. u[7] = app[1] /\ (q >= 2 => u[8] = app[2]) /\ (q = 1 /\ r >= 1 => u[8] = "/")
  <2>1. 1 \in 1..q /\ (q >= 2 => 2 \in 1..q) /\ (r >= 1 => 1 \in 1..r)
    BY <1>1, <1>2
  <2>2. u[6 + 1] = app[1] /\ (q >= 2 => u[6 + 2] = app[2]) /\ (r >= 1 => u[6 + q + 1] = y[1])
    BY <1>3, <2>1
  <2>3. 6 + 1 = 7 /\ 6 + 2 = 8 /\ (q = 1 => 6 + q + 1 = 8)
    <3> HIDE DEF q
    <3> QED BY <1>1
  <2> QED BY <1>2, <2>2, <2>3
<1> HIDE DEF q, r
<1>7. ASSUME NEW k \in 1..Len(u)
      PROVE  /\ u[k] # "\\"
             /\ u[k] = "/" /\ k + 1 <= Len(u) => u[k + 1] # "/"
             /\ u[k] = "/" /\ k + 2 <= Len(u) => ~(u[k + 1] = "." /\ u[k + 2] = ".")
  <2>1. CASE k \in 1..5
    <3>1. k = 1 \/ k = 2 \/ k = 3 \/ k = 4 \/ k = 5
      BY <2>1
    <3> QED BY <1>5, <3>1
  <2>2. CASE k = 6
    <3>1. u[7] # "/"
      BY <1>1, <1>6 DEF Slashes
    <3>2. Len(u) >= 8 => ~(u[7] = "." /\ u[8] = ".")
      <4>1. CASE q >= 2
        BY <1>4, <1>6, <4>1
      <4>2. CASE q = 1
        BY <1>2, <1>3, <1>6, <4>2
      <4> QED BY <1>1, <4>1, <4>2
    <3> QED BY <1>5, <2>2, <3>1, <3>2
  <2>3. CASE k \in 7..(6 + q)
    <3>1. k - 6 \in 1..q /\ k = 6 + (k - 6)
      BY <1>1, <2>3
    <3>2. u[k] \notin Slashes
      BY <1>1, <1>3, <3>1
    <3> QED BY <3>2 DEF Slashes
  <2>4. CASE k > 6 + q
    <3> DEFINE j == k - (6 + q)
    <3>1. j \in 1..r /\ k = 6 + q + j /\ k + 1 = 6 + q + (j + 1)
      BY <1>1, <1>2, <1>3, <2>4
    <3> HIDE DEF j
    <3>2. u[k] = y[j] /\ y[j] # "\\"
      BY <1>2, <1>3, <3>1
    <3>3. u[k] = "/" => j + 1 \in 1..r /\ y[j + 1] # "/"
      <4>1. u[k] = "/" => j + 1 <= r /\ y[j + 1] # "/"
        BY <1>2, <3>1, <3>2
      <4>2. j + 1 <= r => j + 1 \in 1..r
        BY <1>2, <3>1
      <4> QED BY <4>1, <4>2
    <3>4. u[k] = "/" => u[k + 1] # "/" /\ u[k + 1] # "."
      BY <1>2, <1>3, <3>1, <3>3
    <3> QED BY <3>2, <3>4
  <2>5. k \in 1..5 \/ k = 6 \/ k \in 7..(6 + q) \/ k > 6 + q
    BY <1>1
  <2> QED BY <2>1, <2>2, <2>3, <2>4, <2>5
<1> QED BY <1>7 DEF IsCleanPath

(* The path of a request that names an application. *)
LEMMA PathNamed ==
  ASSUME NEW r \in Requests, Names(r)
  PROVE  /\ path(r.uri) = APPS_URI \o (r.app \o Suffix(r.form))
         /\ Built(path(r.uri), r.app, Suffix(r.form))
         /\ path(r.uri) \in Seq(STRING \cup PathCharacters)
<1> DEFINE y == Suffix(r.form)
           u == APPS_URI \o (r.app \o y)
           s == WithoutQuery(r.uri)
<1>1. r.uri \in Seq(STRING) /\ r.app \in Seq(STRING) /\ r.path \in Seq(STRING)
  BY RestAssumption DEF Text
<1>2. /\ r.form \in {"run", "app", "hide", "data"} /\ AppName(r.app)
      /\ RepeatsSlashes(r.path, u, r.start) /\ SpellsUri(s, r.path, r.at)
  BY DEF Names
<1>3. s \in Seq(STRING)
  BY <1>1, QueryCutOff
<1>4. Follows(y)
  BY <1>2, SuffixFollows
<1> HIDE DEF s, y
<1>5. y \in Seq(PathCharacters)
  BY <1>4 DEF Follows
<1>6. Built(u, r.app, y) /\ u \in Seq(STRING \cup PathCharacters)
  BY <1>1, <1>5, UriBuilt
<1> HIDE DEF u
<1>7. IsCleanPath(u)
  BY <1>1, <1>2, <1>4, <1>6, BuiltClean
<1>8. url_decode(s) = r.path
  BY <1>1, <1>2, <1>3, UriDecoded
<1>9. remove_double_dots_and_double_slashes(r.path) = u
  BY <1>1, <1>2, <1>6, <1>7, PathCleaned
<1>10. path(r.uri) = u
  BY <1>8, <1>9 DEF path, s
<1> QED BY <1>6, <1>10 DEF u, y

(* The name is between "/apps/" and what follows. *)
LEMMA NameInside ==
  ASSUME NEW S, NEW app \in Seq(S), Len(app) \in 1..NameMax, NEW y \in Seq(PathCharacters),
         NEW T, NEW u \in Seq(T), Built(u, app, y)
  PROVE  /\ SubSeq(u, 7, 6 + Len(app)) = app
         /\ \A others \in Nat : others = 6 + Len(y) => Name(u, others) = app
<1> DEFINE q == Len(app)
           v == SubSeq(u, 7, 6 + q)
<1>1. q \in Nat /\ q >= 1 /\ q <= NameMax /\ Len(y) \in Nat /\ NameMax \in Nat
  BY RestAssumption
<1>2. Len(u) = 6 + q + Len(y) /\ \A i \in 1..q : u[6 + i] = app[i]
  BY DEF Built
<1>3. v = app
  <2>1. app \in Seq(S) /\ q = Len(app)
    OBVIOUS
  <2> HIDE DEF q
  <2>2. 7 \in 1..Len(u) /\ 6 + q \in 7..Len(u)
    BY <1>1, <1>2
  <2>3. v \in Seq(T) /\ IsPart(v, u, 7, q)
    <3>1. 6 + q = 7 - 1 + q /\ 6 + q <= Len(u) /\ 7 \in Nat \ {0}
      BY <1>1, <1>2
    <3> QED BY <1>1, <3>1, PartRead
  <2> HIDE DEF v
  <2>4. Len(v) = q /\ \A i \in 1..q : v[i] = app[i]
    <3>1. \A i \in 1..q : 7 - 1 + i = 6 + i
      BY <1>1
    <3> QED BY <1>2, <2>3, <3>1 DEF IsPart
  <2>5. v \in Seq(S \cup T) /\ app \in Seq(S \cup T)
    BY <2>1, <2>3, SeqMonotonic
  <2> QED BY <2>1, <2>4, <2>5, SeqEqual
<1>4. ASSUME NEW others \in Nat, others = 6 + Len(y) PROVE Name(u, others) = app
  <2>1. Len(u) - others = q
    BY <1>1, <1>2, <1>4
  <2>2. Least(q, NameMax) = q
    BY <1>1 DEF Least
  <2>3. Name(u, others) = SubSeq(u, 6 + 1, 6 + Least(Len(u) - others, NameMax))
    BY AppsText DEF Name
  <2> HIDE DEF q
  <2>4. 6 + 1 = 7
    OBVIOUS
  <2>5. Name(u, others) = v
    BY <2>1, <2>2, <2>3, <2>4
  <2> QED BY <1>3, <2>5
<1> QED BY <1>3, <1>4

(* What the end of a URI is decides what it is not. *)
LEMMA NotAtEnd ==
  ASSUME NEW u, NEW part, NEW i, i = Len(u) - Len(part) + 1, Len(part) \in Nat \ {0},
         Len(u) \in Nat, Len(u) >= Len(part) => u[i] # part[1]
  PROVE  ~EndsWith(u, part)
<1> SUFFICES ASSUME Len(u) >= Len(part), PartAt(u, i, part) PROVE FALSE
  BY DEF EndsWith
<1>1. i \in Nat /\ i - 1 + 1 = i /\ 1 \in 1..Len(part)
  OBVIOUS
<1>2. \A k \in 1..Len(part) : u[i - 1 + k] = part[k]
  BY DEF PartAt
<1>3. u[i] = part[1]
  BY <1>1, <1>2
<1> QED BY <1>3

IsEnd(u, part, m) == Len(u) = m + Len(part) /\ \A k \in 1..Len(part) : u[m + k] = part[k]

(* What a text ends with, as the code tests it. *)
LEMMA AtEnd ==
  ASSUME NEW u, NEW part, NEW m \in Nat, Len(part) \in Nat, IsEnd(u, part, m)
  PROVE  EndsWith(u, part) /\ PartAt(u, m + 1, part)
<1>1. Len(u) - Len(part) + 1 = m + 1 /\ m + 1 - 1 + Len(part) <= Len(u) /\ Len(u) >= Len(part)
  BY DEF IsEnd
<1>2. ASSUME NEW k \in 1..Len(part) PROVE u[m + 1 - 1 + k] = part[k]
  <2>1. m + 1 - 1 + k = m + k
    OBVIOUS
  <2> QED BY <2>1 DEF IsEnd
<1>3. PartAt(u, m + 1, part)
  BY <1>1, <1>2 DEF PartAt
<1> QED BY <1>1, <1>3 DEF EndsWith

(* A name that is the whole rest of the URI, or does not reach its end. *)
LEMMA SlashAfterName ==
  ASSUME NEW S, NEW app \in Seq(S), NEW y \in Seq(PathCharacters), NEW T, NEW u \in Seq(T),
         Built(u, app, y), y # <<>>, Follows(y)
  PROVE  Places(From(u, 7), "/") # {}
<1> DEFINE q == Len(app)
           v == From(u, 7)
<1>1. q \in Nat /\ Len(y) \in Nat /\ Len(y) >= 1 /\ y[1] = "/"
  BY DEF Follows
<1>2. Len(u) = 6 + q + Len(y) /\ u[6 + q + 1] = "/"
  <2>1. 1 \in 1..Len(y)
    BY <1>1
  <2> QED BY <1>1, <2>1 DEF Built
<1>3. v = SubSeq(u, 7, Len(u))
  BY DEF From
<1> HIDE DEF q, v
<1>4. 7 \in 1..Len(u) /\ q + 1 \in 1..(Len(u) - 7 + 1) /\ 7 + (q + 1) - 1 = 6 + q + 1
  BY <1>1, <1>2
<1>5. Len(v) = Len(u) - 7 + 1 /\ \A i \in 1..(Len(u) - 7 + 1) : v[i] = u[7 + i - 1]
  BY <1>3, <1>4
<1>6. q + 1 \in 1..Len(v) /\ v[q + 1] = "/"
  BY <1>2, <1>4, <1>5
<1>7. q + 1 \in Places(v, "/")
  BY <1>6 DEF Places
<1> QED BY <1>7 DEF v

(* The lengths that Route adds up. *)
LEMMA Plus == 6 + 4 = 10 /\ 10 + 5 = 15 /\ 6 + 1 = 7 /\ Len(APPS_URI) = 6 /\ Len(RUN_URI) = 4
              /\ Len(HIDE_URI) = 5
BY AppsText, RunText, HideText

(* The cases of Route, with its lengths worked out. *)
LEMMA RouteCases ==
  ASSUME NEW uri, NEW u, u = path(uri)
  PROVE  Route(uri) =
           IF Len(u) > 10 /\ EndsWith(u, RUN_URI)
           THEN [form |-> "run", app |-> Name(u, 10)]
           ELSE IF Len(u) > 6 /\ StartsWith(u, APPS_URI) /\ Places(From(u, 7), "/") = {}
           THEN [form |-> "app", app |-> From(u, 7)]
           ELSE IF Len(u) > 15 /\ EndsWith(u, HIDE_URI)
           THEN [form |-> "hide", app |-> Name(u, 15)]
           ELSE IF Occurs(DIAL_DATA_URI, u)
           THEN [form |-> "data", app |-> parse_app_name(u)]
           ELSE [form |-> "none", app |-> <<>>]
<1> DEFINE Cases(apps, run, hide) ==
             IF Len(u) > run /\ EndsWith(u, RUN_URI)
             THEN [form |-> "run", app |-> Name(u, run)]
             ELSE IF Len(u) > apps /\ StartsWith(u, APPS_URI) /\ Places(From(u, apps + 1), "/") = {}
             THEN [form |-> "app", app |-> From(u, apps + 1)]
             ELSE IF Len(u) > hide /\ EndsWith(u, HIDE_URI)
             THEN [form |-> "hide", app |-> Name(u, hide)]
             ELSE IF Occurs(DIAL_DATA_URI, u)
             THEN [form |-> "data", app |-> parse_app_name(u)]
             ELSE [form |-> "none", app |-> <<>>]
<1>1. Route(uri) = Cases(Len(APPS_URI), Len(APPS_URI) + Len(RUN_URI),
                         Len(APPS_URI) + Len(RUN_URI) + Len(HIDE_URI))
  BY Zenon DEF Route
<1>2. Route(uri) = Cases(6, 10, 15)
  <2> HIDE DEF Cases
  <2> QED BY <1>1, Plus
<1> QED BY <1>2, Plus, Zenon

(* A URI that ends with "/run" after the name. *)
LEMMA RoutedRun ==
  ASSUME NEW S, NEW app \in Seq(S), AppName(app), NEW T, NEW uri, path(uri) \in Seq(T),
         Built(path(uri), app, RUN_URI)
  PROVE  Route(uri) = [form |-> "run", app |-> app]
<1> DEFINE u == path(uri)
           q == Len(app)
<1>1. q \in Nat /\ q >= 1 /\ q \in 1..NameMax /\ RUN_URI \in Seq(PathCharacters)
  BY RunText DEF AppName
<1>2. Len(u) = 6 + q + 4 /\ \A k \in 1..4 : u[6 + q + k] = RUN_URI[k]
  BY RunText DEF Built
<1>3. Name(u, 10) = app
  <2>1. 10 \in Nat /\ 10 = 6 + Len(RUN_URI)
    BY RunText
  <2> HIDE DEF u
  <2> QED BY <1>1, <2>1, NameInside DEF u
<1> HIDE DEF u, q
<1>4. Len(u) > 10 /\ EndsWith(u, RUN_URI)
  <2>1. 6 + q \in Nat /\ Len(RUN_URI) = 4 /\ Len(u) > 10
    BY <1>1, <1>2, RunText
  <2>2. IsEnd(u, RUN_URI, 6 + q)
    BY <1>2, <2>1 DEF IsEnd
  <2> QED BY <2>1, <2>2, AtEnd
<1> QED BY <1>3, <1>4, RouteCases DEF u

(* A URI that ends with the name. *)
LEMMA RoutedApp ==
  ASSUME NEW S, NEW app \in Seq(S), AppName(app), NEW T, NEW uri, path(uri) \in Seq(T),
         Built(path(uri), app, <<>>)
  PROVE  Route(uri) = [form |-> "app", app |-> app]
<1> DEFINE u == path(uri)
           q == Len(app)
<1>1. /\ q \in Nat /\ q >= 1 /\ q \in 1..NameMax /\ <<>> \in Seq(PathCharacters)
      /\ \A i \in 1..q : app[i] \notin Slashes
  BY DEF AppName
<1>2. Len(u) = 6 + q /\ (\A i \in 1..6 : u[i] = APPS_URI[i]) /\ \A i \in 1..q : u[6 + i] = app[i]
  <2>1. Len(<<>>) = 0
    OBVIOUS
  <2> QED BY <1>1, <2>1 DEF Built
<1>3. From(u, 7) = app
  <2>1. SubSeq(u, 7, 6 + q) = app
    BY <1>1, NameInside
  <2> QED BY <1>2, <2>1 DEF From
<1>4. Places(app, "/") = {}
  BY <1>1 DEF Places, Slashes
<1> HIDE DEF u
<1>5. ~(Len(u) > 10 /\ EndsWith(u, RUN_URI))
  <2> SUFFICES ASSUME Len(u) > 10 PROVE ~EndsWith(u, RUN_URI)
    OBVIOUS
  <2> DEFINE i == Len(u) - 4 + 1
  <2> HIDE DEF q
  <2>1. q - 3 \in 1..q /\ i = 6 + (q - 3)
    BY <1>1, <1>2
  <2>2. u[i] \notin Slashes
    BY <1>1, <1>2, <2>1 DEF q
  <2>3. u[i] # RUN_URI[1] /\ Len(RUN_URI) = 4
    BY <2>2, RunText DEF Slashes
  <2>4. Len(u) \in Nat
    BY <1>1, <1>2
  <2>5. i = Len(u) - Len(RUN_URI) + 1 /\ Len(RUN_URI) \in Nat \ {0}
    BY <2>3
  <2> HIDE DEF i
  <2> QED BY <2>3, <2>4, <2>5, NotAtEnd
<1>6. Len(u) > 6 /\ StartsWith(u, APPS_URI)
  <2>1. \A k \in 1..6 : 1 - 1 + k = k
    OBVIOUS
  <2>2. 1 - 1 + 6 <= Len(u) /\ Len(u) > 6
    BY <1>1, <1>2
  <2> QED BY <1>2, <2>1, <2>2, AppsText DEF StartsWith, PartAt
<1> QED BY <1>3, <1>4, <1>5, <1>6, RouteCases DEF u

(* Where a slash follows the name, the rest is not a name. *)
LEMMA NotApp ==
  ASSUME NEW S, NEW app \in Seq(S), NEW y, Follows(y), y # <<>>, NEW T, NEW u \in Seq(T),
         Built(u, app, y)
  PROVE  ~(Len(u) > 6 /\ StartsWith(u, APPS_URI) /\ Places(From(u, 7), "/") = {})
<1>1. y \in Seq(PathCharacters)
  BY DEF Follows
<1> QED BY <1>1, SlashAfterName

(* A URI that ends with "/run/hide" after the name. *)
LEMMA RoutedHide ==
  ASSUME NEW S, NEW app \in Seq(S), AppName(app), NEW T, NEW uri, path(uri) \in Seq(T),
         Built(path(uri), app, RUN_URI \o HIDE_URI)
  PROVE  Route(uri) = [form |-> "hide", app |-> app]
<1> DEFINE u == path(uri)
           q == Len(app)
           y == RUN_URI \o HIDE_URI
<1>1. q \in Nat /\ q >= 1 /\ q \in 1..NameMax
  BY DEF AppName
<1>2. y \in Seq(PathCharacters) /\ IsJoined(y, RUN_URI, HIDE_URI, 4)
  BY RunText, HideText, Joined
<1>3. Len(y) = 9 /\ \A k \in 1..5 : y[4 + k] = HIDE_URI[k]
  <2>1. Len(HIDE_URI) = 5
    BY HideText
  <2> HIDE DEF y
  <2>2. Len(y) = 4 + 5 /\ \A k \in 1..5 : y[4 + k] = HIDE_URI[k]
    BY <1>2, <2>1 DEF IsJoined
  <2> QED BY <2>2
<1>4. Follows(y) /\ y # <<>>
  <2>1. Follows(Suffix("hide"))
    BY SuffixFollows
  <2>2. Suffix("hide") = y
    BY DEF Suffix
  <2>3. Len(<<>>) = 0
    OBVIOUS
  <2>4. y # <<>>
    <3> HIDE DEF y
    <3>1. Len(y) # 0
      BY <1>3
    <3> QED BY <2>3, <3>1, Zenon
  <2> QED BY <2>1, <2>2, <2>4
<1> HIDE DEF y
<1>5. Len(u) = 6 + q + 9 /\ \A k \in 1..9 : u[6 + q + k] = y[k]
  BY <1>3 DEF Built, y
<1>6. Name(u, 15) = app
  <2>1. 15 \in Nat /\ 15 = 6 + Len(y)
    BY <1>3
  <2>2. Built(u, app, y)
    BY DEF y
  <2> HIDE DEF u
  <2> QED BY <1>1, <1>2, <2>1, <2>2, NameInside DEF u
<1>7. ~(Len(u) > 6 /\ StartsWith(u, APPS_URI) /\ Places(From(u, 7), "/") = {})
  BY <1>4, NotApp DEF y
<1> HIDE DEF u, q
<1>8. \A k \in 1..5 : u[10 + q + k] = HIDE_URI[k]
  <2> SUFFICES ASSUME NEW k \in 1..5 PROVE u[10 + q + k] = HIDE_URI[k]
    OBVIOUS
  <2>1. 4 + k \in 1..9 /\ 6 + q + (4 + k) = 10 + q + k
    BY <1>1
  <2> QED BY <1>3, <1>5, <2>1
<1>9. Len(u) > 15 /\ EndsWith(u, HIDE_URI)
  <2>1. 10 + q \in Nat /\ Len(HIDE_URI) = 5 /\ Len(u) > 15 /\ Len(u) = 10 + q + 5
    BY <1>1, <1>5, HideText
  <2>2. IsEnd(u, HIDE_URI, 10 + q)
    BY <1>8, <2>1 DEF IsEnd
  <2> QED BY <2>1, <2>2, AtEnd
<1>10. ~EndsWith(u, RUN_URI)
  <2> DEFINE i == 10 + q + 2
  <2>1. u[i] = HIDE_URI[2]
    BY <1>8
  <2>2. u[i] # RUN_URI[1] /\ Len(RUN_URI) = 4
    BY <2>1, HideText, RunText
  <2>3. Len(u) \in Nat /\ i = Len(u) - Len(RUN_URI) + 1 /\ Len(RUN_URI) \in Nat \ {0}
    BY <1>1, <1>5, <2>2
  <2> HIDE DEF i
  <2> QED BY <2>2, <2>3, NotAtEnd
<1> QED BY <1>6, <1>7, <1>9, <1>10, RouteCases DEF u

(* The last place of a character. *)
IsLast(s, n, c, m) ==
  n = Len(s) /\ m \in 1..n /\ s[m] = c /\ \A k \in 1..n : s[k] = c => k <= m

(* Where strrchr finds a character. *)
LEMMA LastIs ==
  ASSUME NEW s, NEW n \in Nat, NEW c, NEW m, IsLast(s, n, c, m)
  PROVE  LastOf(s, c) = m
<1> DEFINE E == Places(s, c) \cup {0}
           Is(x) == \A y \in E : x >= y
<1>1. LastOf(s, c) = CHOOSE x \in E : Is(x)
  BY DEF LastOf, Max
<1>2. m \in E /\ Is(m) /\ m \in Nat
  BY DEF Places, IsLast
<1>3. \A x \in E : Is(x) => x = m
  <2> SUFFICES ASSUME NEW x \in E, Is(x) PROVE x = m
    OBVIOUS
  <2>1. x >= m /\ m >= x /\ x \in Nat
    BY <1>2 DEF Places, IsLast
  <2> QED BY <1>2, <2>1
<1> HIDE DEF E, Is
<1> QED BY <1>1, <1>2, <1>3

(* The place of a text that occurs. *)
LEMMA OccursAt ==
  ASSUME NEW part, NEW s, NEW i \in 1..Len(s), PartAt(s, i, part)
  PROVE  Occurs(part, s)
BY DEF Occurs

(* The name before the last slash. *)
LEMMA NameBeforeSlash ==
  ASSUME NEW S, NEW app \in Seq(S), AppName(app), NEW T, NEW u \in Seq(T),
         Built(u, app, DIAL_DATA_URI)
  PROVE  parse_app_name(u) = app
<1> DEFINE q == Len(app)
           slash == 7 + q
           front == SubSeq(u, 1, slash - 1)
<1>1. q \in Nat /\ q >= 1 /\ q \in 1..NameMax /\ \A i \in 1..q : app[i] \notin Slashes
  BY DEF AppName
<1>2. /\ Len(u) = 6 + q + 10
      /\ \A k \in 1..6 : u[k] = APPS_URI[k]
      /\ \A k \in 1..q : u[6 + k] = app[k]
      /\ \A k \in 1..10 : u[6 + q + k] = DIAL_DATA_URI[k]
  <2>1. Len(DIAL_DATA_URI) = 10
    BY DataText
  <2> QED BY <2>1 DEF Built
<1>3. SubSeq(u, 7, 6 + q) = app
  BY <1>1, DataText, NameInside
<1> HIDE DEF q
<1>4. u[6] = "/" /\ \A k \in 1..q : u[6 + k] # "/"
  <2>1. 6 \in 1..6
    OBVIOUS
  <2>2. u[6] = "/"
    BY <1>2, <2>1, AppsText
  <2>3. \A k \in 1..q : u[6 + k] # "/"
    BY <1>1, <1>2 DEF Slashes
  <2> QED BY <2>2, <2>3
<1>5. u[6 + q + 1] = "/" /\ \A k \in 2..10 : u[6 + q + k] # "/"
  <2>1. DIAL_DATA_URI[1] = "/" /\ \A k \in 2..10 : DIAL_DATA_URI[k] # "/"
    <3>1. \A k \in 2..10 : k = 2 \/ k = 3 \/ k = 4 \/ k = 5 \/ k = 6 \/ k = 7 \/ k = 8
                           \/ k = 9 \/ k = 10
      OBVIOUS
    <3> QED BY <3>1, DataText
  <2>2. 1 \in 1..10 /\ \A k \in 2..10 : k \in 1..10
    OBVIOUS
  <2> QED BY <1>2, <2>1, <2>2
<1>6. LastOf(u, "/") = slash
  <2>1. Len(u) \in Nat /\ slash \in 1..Len(u) /\ slash = 6 + q + 1
    BY <1>1, <1>2
  <2>2. \A k \in 1..Len(u) : u[k] = "/" => k <= slash
    <3> SUFFICES ASSUME NEW k \in 1..Len(u), k > slash PROVE u[k] # "/"
      BY <2>1
    <3> DEFINE j == k - (6 + q)
    <3>1. j \in 2..10 /\ k = 6 + q + j
      BY <1>1, <1>2
    <3> HIDE DEF j
    <3> QED BY <1>5, <3>1
  <2> HIDE DEF slash
  <2>3. IsLast(u, Len(u), "/", slash)
    BY <1>5, <2>1, <2>2 DEF IsLast
  <2> QED BY <2>1, <2>3, LastIs
<1>7. Len(front) = 6 + q /\ \A k \in 1..(6 + q) : front[k] = u[k]
  <2>1. 6 + q \in Nat /\ slash - 1 = 1 - 1 + (6 + q) /\ slash - 1 <= Len(u) /\ 1 \in Nat \ {0}
    BY <1>1, <1>2
  <2>2. IsPart(front, u, 1, 6 + q)
    <3> HIDE DEF slash
    <3> QED BY <2>1, PartRead
  <2>3. \A k \in 1..(6 + q) : 1 - 1 + k = k
    BY <1>1
  <2> QED BY <2>2, <2>3 DEF IsPart
<1> HIDE DEF front
<1>8. LastOf(front, "/") = 6
  <2>1. 6 + q \in Nat /\ 6 \in 1..(6 + q) /\ front[6] = "/"
    BY <1>1, <1>4, <1>7
  <2>2. \A k \in 1..(6 + q) : front[k] = "/" => k <= 6
    <3> SUFFICES ASSUME NEW k \in 1..(6 + q), k > 6 PROVE front[k] # "/"
      BY <1>1
    <3>1. k - 6 \in 1..q /\ k = 6 + (k - 6)
      BY <1>1
    <3>2. u[k] # "/"
      BY <1>4, <3>1
    <3> QED BY <1>7, <3>2
  <2>3. IsLast(front, 6 + q, "/", 6)
    BY <1>7, <2>1, <2>2 DEF IsLast
  <2> QED BY <2>1, <2>3, LastIs
<1>9. ~(slash <= 1) /\ slash - 1 = 6 + q
  BY <1>1
<1> HIDE DEF slash
<1>10. parse_app_name(u) = SubSeq(u, 6 + 1, 6 + q)
  BY <1>6, <1>8, <1>9 DEF parse_app_name, front
<1> QED BY <1>3, <1>10

(* A URI that ends with "/dial_data" after the name. *)
LEMMA RoutedData ==
  ASSUME NEW S, NEW app \in Seq(S), AppName(app), NEW T, NEW uri, path(uri) \in Seq(T),
         Built(path(uri), app, DIAL_DATA_URI)
  PROVE  Route(uri) = [form |-> "data", app |-> app]
<1> DEFINE u == path(uri)
           q == Len(app)
<1>1. q \in Nat /\ q >= 1
  BY DEF AppName
<1>2. Len(u) = 6 + q + 10 /\ \A k \in 1..10 : u[6 + q + k] = DIAL_DATA_URI[k]
  <2>1. Len(DIAL_DATA_URI) = 10
    BY DataText
  <2> QED BY <2>1 DEF Built
<1>3. parse_app_name(u) = app
  BY NameBeforeSlash
<1>4. ~(Len(u) > 6 /\ StartsWith(u, APPS_URI) /\ Places(From(u, 7), "/") = {})
  <2>1. DIAL_DATA_URI # <<>>
    <3>1. Len(<<>>) = 0
      OBVIOUS
    <3>2. Len(DIAL_DATA_URI) = 10
      BY DataText
    <3>3. Len(DIAL_DATA_URI) # 0
      BY <3>2
    <3> QED BY <3>1, <3>3, Zenon
  <2> QED BY <2>1, DataFollows, NotApp
<1> HIDE DEF u, q
<1>5. Len(u) \in Nat
  BY <1>1, <1>2
<1>6. ~EndsWith(u, RUN_URI)
  <2> DEFINE i == 6 + q + 7
  <2>1. u[i] = DIAL_DATA_URI[7]
    BY <1>2
  <2>2. u[i] # RUN_URI[1] /\ Len(RUN_URI) = 4
    BY <2>1, DataText, RunText
  <2>3. i = Len(u) - Len(RUN_URI) + 1 /\ Len(RUN_URI) \in Nat \ {0}
    BY <1>1, <1>2, <2>2
  <2> HIDE DEF i
  <2> QED BY <1>5, <2>2, <2>3, NotAtEnd
<1>7. ~EndsWith(u, HIDE_URI)
  <2> DEFINE i == 6 + q + 6
  <2>1. u[i] = DIAL_DATA_URI[6]
    BY <1>2
  <2>2. u[i] # HIDE_URI[1] /\ Len(HIDE_URI) = 5
    BY <2>1, DataText, HideText
  <2>3. i = Len(u) - Len(HIDE_URI) + 1 /\ Len(HIDE_URI) \in Nat \ {0}
    BY <1>1, <1>2, <2>2
  <2> HIDE DEF i
  <2> QED BY <1>5, <2>2, <2>3, NotAtEnd
<1>8. Occurs(DIAL_DATA_URI, u)
  <2>1. 6 + q \in Nat /\ Len(DIAL_DATA_URI) = 10 /\ 6 + q + 1 \in 1..Len(u)
    <3>1. Len(DIAL_DATA_URI) = 10
      BY DataText
    <3>2. 6 + q \in Nat /\ 6 + q + 1 \in 1..Len(u)
      BY <1>1, <1>2
    <3> QED BY <3>1, <3>2
  <2>2. IsEnd(u, DIAL_DATA_URI, 6 + q)
    BY <1>2, <2>1 DEF IsEnd
  <2>3. PartAt(u, 6 + q + 1, DIAL_DATA_URI)
    BY <2>1, <2>2, AtEnd
  <2> QED BY <2>1, <2>3, OccursAt
<1> QED BY <1>3, <1>4, <1>6, <1>7, <1>8, RouteCases DEF u

(* A request that names an application is routed to it. *)
LEMMA Routed ==
  ASSUME NEW r \in Requests, Names(r)
  PROVE  Route(r.uri) = [form |-> r.form, app |-> r.app]
<1>1. r.app \in Seq(STRING) /\ AppName(r.app) /\ r.form \in {"run", "app", "hide", "data"}
  BY RestAssumption DEF Text, Names
<1>2. /\ Built(path(r.uri), r.app, Suffix(r.form))
      /\ path(r.uri) \in Seq(STRING \cup PathCharacters)
  BY PathNamed
<1>3. CASE r.form = "run"
  BY <1>1, <1>2, <1>3, RoutedRun DEF Suffix
<1>4. CASE r.form = "app"
  BY <1>1, <1>2, <1>4, RoutedApp DEF Suffix
<1>5. CASE r.form = "hide"
  BY <1>1, <1>2, <1>5, RoutedHide DEF Suffix
<1>6. CASE r.form = "data"
  BY <1>1, <1>2, <1>6, RoutedData DEF Suffix
<1> QED BY <1>1, <1>3, <1>4, <1>5, <1>6

(* Whatever applications there are and however a client spells a URI of   *)
(* the protocol, with escapes, repeated slashes and a query, handle_request *)
(* and request_handler take from it the form and the name that were meant. *)
THEOREM UriRouted == RestSpec => []RoutedAsWritten
<1>1. TypeOK => RoutedAsWritten
  BY Routed DEF RoutedAsWritten, TypeOK
<1> QED BY <1>1, HandlerIsCallback, TypeCorrect, PTL

-----------------------------------------------------------------------------
(* Origins: texts that are joined with separators. *)

(* Texts that are joined. *)
LEMMA FrontOfJoined ==
  ASSUME NEW D, NEW x \in Seq(D), NEW y \in Seq(D)
  PROVE  SubSeq(x \o y, 1, Len(x)) = x /\ StartsWith(x \o y, x)
<1>1. Len(x) \in Nat /\ IsJoined(x \o y, x, y, Len(x)) /\ x \o y \in Seq(D)
  BY Joined
<1> DEFINE t == x \o y
           n == Len(x)
<1>2. n \in Nat /\ n <= Len(t) /\ \A i \in 1..n : t[i] = x[i]
  BY <1>1 DEF IsJoined
<1>3. SubSeq(t, 1, n) \in Seq(D) /\ IsPart(SubSeq(t, 1, n), t, 1, n)
  <2>1. n = 1 - 1 + n /\ 1 \in Nat \ {0}
    BY <1>2
  <2> HIDE DEF t, n
  <2> QED BY <1>1, <1>2, <2>1, PartRead DEF t
<1> HIDE DEF t
<1>4. \A k \in 1..n : SubSeq(t, 1, n)[k] = x[k]
  <2>1. \A k \in 1..n : 1 - 1 + k = k
    OBVIOUS
  <2> QED BY <1>2, <1>3, <2>1 DEF IsPart
<1>5. SubSeq(t, 1, n) = x
  BY <1>3, <1>4, SeqEqual DEF IsPart
<1>6. StartsWith(t, x)
  BY <1>2 DEF StartsWith, PartAt
<1> QED BY <1>5, <1>6 DEF t

(* What follows the first of two texts is the second. *)
LEMMA RestOfJoined ==
  ASSUME NEW D, NEW x \in Seq(D), NEW y \in Seq(D)
  PROVE  From(x \o y, Len(x) + 1) = y
<1> DEFINE t == x \o y
           n == Len(x)
           size == Len(y)
           rest == SubSeq(t, n + 1, Len(t))
<1>1. n \in Nat /\ size \in Nat /\ IsJoined(t, x, y, n) /\ t \in Seq(D)
  BY Joined
<1>2. Len(t) = n + size /\ \A i \in 1..size : t[n + i] = y[i]
  BY <1>1 DEF IsJoined
<1> HIDE DEF t, n
<1>3. rest \in Seq(D) /\ IsPart(rest, t, n + 1, size)
  <2>1. n + 1 \in Nat \ {0} /\ Len(t) = n + 1 - 1 + size /\ Len(t) <= Len(t)
    BY <1>1, <1>2
  <2> HIDE DEF size
  <2> QED BY <1>1, <2>1, PartRead
<1> HIDE DEF rest
<1>4. Len(rest) = size /\ \A k \in 1..size : rest[k] = y[k]
  <2>1. \A k \in 1..size : n + 1 - 1 + k = n + k
    BY <1>1
  <2>0. IsPart(rest, t, n + 1, size)
    BY <1>3
  <2>2. Len(rest) = size /\ \A k \in 1..size : rest[k] = t[n + 1 - 1 + k]
    <3>1. Len(rest) = size
      BY <2>0 DEF IsPart
    <3>2. ASSUME NEW k \in 1..size PROVE rest[k] = t[n + 1 - 1 + k]
      <4> HIDE DEF size
      <4> QED BY <1>1, <2>0 DEF IsPart
    <3> QED BY <3>1, <3>2
  <2>3. \A k \in 1..size : t[n + 1 - 1 + k] = y[k]
    BY <1>2, <2>1
  <2> QED BY <2>2, <2>3
<1>5. rest = y
  BY <1>3, <1>4, SeqEqual
<1>6. From(t, n + 1) = rest
  BY DEF From, rest
<1> QED BY <1>5, <1>6 DEF t, n

(* Texts that are equal and begin alike end alike. *)
LEMMA CancelFront ==
  ASSUME NEW D, NEW x \in Seq(D), NEW y \in Seq(D), NEW z \in Seq(D), x \o y = x \o z
  PROVE  y = z
BY RestOfJoined

(* Of two texts another one starts with, the longer starts with the shorter. *)
LEMMA StartsCompare ==
  ASSUME NEW t, NEW a, NEW b, Len(a) \in Nat, Len(b) \in Nat, Len(a) <= Len(b),
         StartsWith(t, a), StartsWith(t, b)
  PROVE  StartsWith(b, a)
<1>1. \A k \in 1..Len(a) : 1 - 1 + k = k
  OBVIOUS
<1>2. \A k \in 1..Len(b) : 1 - 1 + k = k
  OBVIOUS
<1>3. \A k \in 1..Len(a) : t[k] = a[k]
  BY <1>1 DEF StartsWith, PartAt
<1>4. \A k \in 1..Len(b) : t[k] = b[k]
  BY <1>2 DEF StartsWith, PartAt
<1>5. \A k \in 1..Len(a) : b[k] = a[k]
  BY <1>3, <1>4
<1>6. 1 - 1 + Len(a) <= Len(b)
  OBVIOUS
<1> QED BY <1>1, <1>5, <1>6 DEF StartsWith, PartAt

(* A text, and after a separator another one. *)
LEMMA AfterText ==
  ASSUME NEW D, NEW c \in D, NEW y \in Seq(D)
  PROVE  /\ After(c, y) \in Seq(D)
         /\ y = <<>> => After(c, y) = <<>>
         /\ y # <<>> => /\ Len(After(c, y)) = 1 + Len(y) /\ After(c, y)[1] = c
                        /\ From(After(c, y), 2) = y
                        /\ \A i \in 1..Len(y) : After(c, y)[1 + i] = y[i]
<1>1. <<>> \in Seq(D) /\ <<c>> \in Seq(D) /\ Len(<<c>>) = 1 /\ <<c>>[1] = c
  OBVIOUS
<1>2. CASE y = <<>>
  BY <1>1, <1>2 DEF After
<1>3. CASE y # <<>>
  <2> DEFINE x == <<c>>
  <2>1. x \in Seq(D) /\ 1 = Len(x) /\ x[1] = c
    BY <1>1
  <2>2. After(c, y) = x \o y
    BY <1>3 DEF After
  <2> HIDE DEF x
  <2>3. x \o y \in Seq(D) /\ IsJoined(x \o y, x, y, 1)
    BY <2>1, Joined
  <2>4. From(x \o y, 2) = y
    <3>1. From(x \o y, Len(x) + 1) = y
      BY <2>1, RestOfJoined
    <3>2. Len(x) = 1
      BY <2>1
    <3>3. \A n \in Nat : n = 1 => n + 1 = 2
      OBVIOUS
    <3>4. Len(x) + 1 = 2
      BY <3>2, <3>3
    <3> QED BY <3>1, <3>4
  <2>5. 1 \in 1..1
    OBVIOUS
  <2> QED BY <1>3, <2>1, <2>2, <2>3, <2>4, <2>5 DEF IsJoined
<1> QED BY <1>2, <1>3

IsAfter(z, c, y) ==
  /\ y = <<>> => z = <<>>
  /\ y # <<>> => /\ Len(z) = 1 + Len(y) /\ z[1] = c
                 /\ \A i \in 1..Len(y) : z[1 + i] = y[i]

(* A text with its separator, in the form that later proofs use. *)
LEMMA AfterIs ==
  ASSUME NEW D, NEW c \in D, NEW y \in Seq(D)
  PROVE  IsAfter(After(c, y), c, y)
BY AfterText DEF IsAfter

(* Where the separator is. *)
IsSplit(t, x, c, y) ==
  /\ Len(x) \in Nat /\ Len(y) \in Nat
  /\ \A i \in 1..Len(x) : t[i] = x[i] /\ t[i] # c
  /\ y = <<>> => t = x /\ Len(t) = Len(x)
  /\ y # <<>> => Len(t) = Len(x) + 1 + Len(y) /\ t[Len(x) + 1] = c /\ Len(y) >= 1

(* A text with a separator, character by character. *)
LEMMA SplitText ==
  ASSUME NEW D, NEW c \in D, NEW x \in Seq(D), NEW y \in Seq(D), Without(x, {c}),
         NEW t, t = x \o After(c, y)
  PROVE  IsSplit(t, x, c, y) /\ t \in Seq(D)
<1> DEFINE z == After(c, y)
           n == Len(x)
<1>0. \A i \in 1..n : x[i] # c
  BY DEF Without
<1>9. t = x \o z
  OBVIOUS
<1>1. /\ z \in Seq(D) /\ (y = <<>> => z = <<>>)
      /\ y # <<>> => Len(z) = 1 + Len(y) /\ z[1] = c
  BY AfterText
<1> HIDE DEF z
<1>2. n \in Nat /\ t \in Seq(D) /\ IsJoined(t, x, z, n)
  BY <1>1, <1>9, Joined
<1>3. Len(t) = n + Len(z) /\ (\A i \in 1..n : t[i] = x[i]) /\ \A i \in 1..Len(z) : t[n + i] = z[i]
  BY <1>2 DEF IsJoined
<1>4. y = <<>> => t = x
  BY <1>1, <1>9
<1>5. Len(y) \in Nat /\ (y # <<>> => Len(y) >= 1)
  OBVIOUS
<1>6. y # <<>> => Len(t) = n + 1 + Len(y) /\ t[n + 1] = c
  <2> SUFFICES ASSUME y # <<>> PROVE Len(t) = n + 1 + Len(y) /\ t[n + 1] = c
    OBVIOUS
  <2>1. Len(z) = 1 + Len(y) /\ z[1] = c /\ 1 \in 1..Len(z)
    BY <1>1, <1>5
  <2> HIDE DEF n
  <2> QED BY <1>2, <1>3, <1>5, <2>1
<1> QED BY <1>0, <1>2, <1>3, <1>4, <1>5, <1>6 DEF IsSplit

(* A text splits in one way. *)
Splits(D, t, x, c, y) ==
  c \in D /\ x \in Seq(D) /\ y \in Seq(D) /\ Without(x, {c}) /\ t = x \o After(c, y)

(* It splits in one way at the first separator. *)
LEMMA OneSplit ==
  ASSUME NEW D, NEW t, NEW c, NEW x, NEW y, NEW v, NEW w, Splits(D, t, x, c, y), Splits(D, t, v, c, w)
  PROVE  x = v /\ y = w
<1>0. /\ c \in D /\ x \in Seq(D) /\ y \in Seq(D) /\ v \in Seq(D) /\ w \in Seq(D)
      /\ Without(x, {c}) /\ Without(v, {c}) /\ t = x \o After(c, y) /\ t = v \o After(c, w)
  BY DEF Splits
<1>1. IsSplit(t, x, c, y) /\ IsSplit(t, v, c, w)
  BY <1>0, SplitText
<1>2. After(c, y) \in Seq(D) /\ After(c, w) \in Seq(D)
  BY <1>0, AfterText
<1>3. Len(x) = Len(v) /\ (y = <<>> <=> w = <<>>)
  <2> DEFINE n == Len(x)
             m == Len(v)
  <2>1. /\ n \in Nat /\ m \in Nat /\ Len(y) \in Nat /\ Len(w) \in Nat
        /\ \A i \in 1..n : t[i] # c
        /\ \A i \in 1..m : t[i] # c
        /\ y = <<>> => Len(t) = n
        /\ y # <<>> => Len(t) = n + 1 + Len(y) /\ t[n + 1] = c
        /\ w = <<>> => Len(t) = m
        /\ w # <<>> => Len(t) = m + 1 + Len(w) /\ t[m + 1] = c
    BY <1>1 DEF IsSplit
  <2> HIDE DEF n, m
  <2>2. CASE y = <<>> /\ w = <<>>
    BY <2>1, <2>2 DEF n, m
  <2>3. CASE y = <<>> /\ w # <<>>
    <3>1. m + 1 \in 1..n
      BY <2>1, <2>3
    <3> QED BY <2>1, <2>3, <3>1
  <2>4. CASE y # <<>> /\ w = <<>>
    <3>1. n + 1 \in 1..m
      BY <2>1, <2>4
    <3> QED BY <2>1, <2>4, <3>1
  <2>5. CASE y # <<>> /\ w # <<>>
    <3>1. ~(n + 1 \in 1..m) /\ ~(m + 1 \in 1..n)
      BY <2>1, <2>5
    <3>2. n = m
      BY <2>1, <3>1
    <3> QED BY <2>5, <3>2 DEF n, m
  <2> QED BY <2>2, <2>3, <2>4, <2>5
<1>4. x = v
  <2>1. SubSeq(t, 1, Len(x)) = x /\ SubSeq(t, 1, Len(v)) = v
    BY <1>0, <1>2, FrontOfJoined
  <2> QED BY <1>3, <2>1
<1>5. After(c, y) = After(c, w)
  BY <1>0, <1>2, <1>4, CancelFront
<1>6. y = w
  <2>1. y # <<>> => From(After(c, y), 2) = y
    BY <1>0, AfterText
  <2>2. w # <<>> => From(After(c, w), 2) = w
    BY <1>0, AfterText
  <2> QED BY <1>3, <1>5, <2>1, <2>2
<1> QED BY <1>4, <1>6

-----------------------------------------------------------------------------
(* Lists of origins: their candidates stand between spaces. *)

(* Where a candidate ends. *)
IsSpaceAt(list, n, i, j) ==
  /\ j \in i..(n + 1) /\ (j > n \/ list[j] = Space)
  /\ \A k \in i..(j - 1) : list[k] # Space

(* Where the candidate that begins at a place ends. *)
LEMMA SpaceEnd ==
  ASSUME NEW list, NEW n \in Nat, n = Len(list), NEW i \in 1..(n + 1)
  PROVE  /\ IsSpaceAt(list, n, i, NextSpace(list, i))
         /\ \A j : IsSpaceAt(list, n, i, j) => NextSpace(list, i) = j
<1> DEFINE E == {j \in i..(n + 1) : j > n \/ list[j] = Space}
           e == NextSpace(list, i)
<1>1. e = Min(E)
  BY DEF NextSpace
<1>2. E \subseteq Nat /\ n + 1 \in E
  OBVIOUS
<1>3. e \in E /\ \A k \in E : e <= k
  <2> HIDE DEF E, e
  <2> QED BY <1>1, <1>2, MinIsLeast
<1> HIDE DEF e
<1>4. IsSpaceAt(list, n, i, e)
  <2>1. e \in i..(n + 1) /\ (e > n \/ list[e] = Space)
    BY <1>3
  <2>2. ASSUME NEW k \in i..(e - 1) PROVE list[k] # Space
    <3>1. k \in i..(n + 1) /\ ~(e <= k)
      BY <2>1
    <3> QED BY <1>3, <3>1
  <2> QED BY <2>1, <2>2 DEF IsSpaceAt
<1>5. ASSUME NEW j, IsSpaceAt(list, n, i, j) PROVE e = j
  <2>1. /\ j \in i..(n + 1) /\ (j > n \/ list[j] = Space)
        /\ \A k \in i..(j - 1) : list[k] # Space
    BY <1>5 DEF IsSpaceAt
  <2>2. e \in i..(n + 1) /\ (e > n \/ list[e] = Space)
    BY <1>4 DEF IsSpaceAt
  <2>3. j \in E
    BY <2>1
  <2>4. e <= j
    BY <1>3, <2>3
  <2>5. ~(e \in i..(j - 1))
    BY <2>1, <2>2
  <2> QED BY <2>1, <2>2, <2>4, <2>5
<1> QED BY <1>4, <1>5 DEF e

(* A text without spaces is one candidate. *)
LEMMA OneCandidate ==
  ASSUME NEW D, NEW y \in Seq(D), Without(y, {Space})
  PROVE  Candidates(y) = {y}
<1> DEFINE n == Len(y)
<1>1. n \in Nat /\ 1 \in 1..(n + 1) /\ \A k \in 1..n : y[k] # Space
  BY DEF Without
<1>2. Places(y, Space) = {}
  BY <1>1 DEF Places
<1>3. NextSpace(y, 1) = n + 1
  <2>1. IsSpaceAt(y, n, 1, n + 1)
    BY <1>1 DEF IsSpaceAt
  <2> QED BY <1>1, <2>1, SpaceEnd
<1>4. NextSpace(y, 1) - 1 = Len(y)
  BY <1>1, <1>3
<1>5. {1} \cup {j + 1 : j \in Places(y, Space)} = {1}
  BY <1>2
<1> HIDE DEF n
<1>6. Candidates(y) = {SubSeq(y, i, NextSpace(y, i) - 1) : i \in {1}}
  BY <1>5 DEF Candidates
<1>7. SubSeq(y, 1, NextSpace(y, 1) - 1) = y
  BY <1>4, SubSeqFull
<1> QED BY <1>6, <1>7, Zenon

(* Where the candidates of a text begin. *)
Starts(list) == {1} \cup {j + 1 : j \in Places(list, Space)}

IsMore(list, x, y) == Candidates(list) = Candidates(x) \cup {y}

(* A list with one more entry has one more candidate. *)
LEMMA MoreCandidates ==
  ASSUME NEW D, Space \in D, NEW x \in Seq(D), NEW y \in Seq(D), Without(y, {Space}),
         NEW list, list = x \o (<<Space>> \o y)
  PROVE  IsMore(list, x, y)
<1> DEFINE space == <<Space>>
           z == space \o y
           t == x \o z
           n == Len(x)
           size == Len(y)
<1>1. space \in Seq(D) /\ Len(space) = 1 /\ space[1] = Space
  OBVIOUS
<1> HIDE DEF space
<1>2. z \in Seq(D) /\ IsJoined(z, space, y, 1) /\ n \in Nat /\ size \in Nat
  <2>1. 1 = Len(space)
    BY <1>1
  <2>2. z \in Seq(D) /\ IsJoined(z, space, y, 1)
    BY <1>1, <2>1, Joined
  <2> QED BY <2>2
<1>3. Len(z) = 1 + size /\ z[1] = Space /\ \A k \in 1..size : z[1 + k] = y[k]
  <2>1. 1 \in 1..1
    OBVIOUS
  <2> QED BY <1>1, <1>2, <2>1 DEF IsJoined
<1> HIDE DEF z
<1>4. t \in Seq(D) /\ IsJoined(t, x, z, n)
  BY <1>2, Joined
<1>5. /\ Len(t) = n + (1 + size)
      /\ \A i \in 1..n : t[i] = x[i]
      /\ \A k \in 1..(1 + size) : t[n + k] = z[k]
  BY <1>3, <1>4 DEF IsJoined
<1> HIDE DEF t
<1>6. t[n + 1] = Space /\ \A k \in (n + 2)..Len(t) : t[k] # Space
  <2>1. 1 \in 1..(1 + size)
    BY <1>2
  <2>2. ASSUME NEW k \in (n + 2)..Len(t) PROVE t[k] # Space
    <3> DEFINE l == k - (n + 1)
    <3> HIDE DEF n, size
    <3>1. l \in 1..size /\ 1 + l \in 1..(1 + size) /\ k = n + (1 + l)
      BY <1>2, <1>5
    <3> HIDE DEF l
    <3>2. t[k] = z[1 + l]
      BY <1>5, <3>1
    <3>3. t[k] = y[l]
      BY <1>3, <3>1, <3>2
    <3> QED BY <3>1, <3>3 DEF Without, size
  <2> QED BY <1>3, <1>5, <2>1, <2>2
<1>7. Starts(x) \subseteq 1..(n + 1) /\ Starts(t) = Starts(x) \cup {n + 2}
  <2>1. Places(t, Space) = Places(x, Space) \cup {n + 1}
    <3>1. ASSUME NEW i \in Places(t, Space) PROVE i \in Places(x, Space) \cup {n + 1}
      <4>1. i \in 1..Len(t) /\ t[i] = Space
        BY DEF Places
      <4>2. i \notin (n + 2)..Len(t)
        BY <1>6, <4>1
      <4> HIDE DEF n, size
      <4>3. i \in 1..n \/ i = n + 1
        BY <1>2, <1>5, <4>1, <4>2
      <4> QED BY <1>5, <4>1, <4>3 DEF Places, n
    <3>2. ASSUME NEW i \in Places(x, Space) PROVE i \in Places(t, Space)
      <4>1. i \in 1..n /\ x[i] = Space
        BY DEF Places
      <4>2. i \in 1..Len(t)
        BY <1>2, <1>5, <4>1
      <4> QED BY <1>5, <4>1, <4>2 DEF Places
    <3>3. n + 1 \in Places(t, Space)
      <4>1. n + 1 \in 1..Len(t)
        BY <1>2, <1>5
      <4> QED BY <1>6, <4>1 DEF Places
    <3> QED BY <3>1, <3>2, <3>3
  <2>2. Places(x, Space) \subseteq 1..n
    BY DEF Places
  <2> HIDE DEF n
  <2>3. n + 1 + 1 = n + 2
    BY <1>2
  <2>4. Starts(x) \subseteq 1..(n + 1)
    <3>1. \A j \in 1..n : j + 1 \in 1..(n + 1)
      BY <1>2
    <3>2. 1 \in 1..(n + 1)
      BY <1>2
    <3> QED BY <2>2, <3>1, <3>2 DEF Starts
  <2>5. \A i : i \in Starts(t) <=> i \in Starts(x) \/ i = n + 1 + 1
    BY <2>1, Zenon DEF Starts
  <2> QED BY <2>3, <2>4, <2>5
<1>8. ASSUME NEW i \in Starts(x)
      PROVE  SubSeq(t, i, NextSpace(t, i) - 1) = SubSeq(x, i, NextSpace(x, i) - 1)
  <2> DEFINE e == NextSpace(x, i)
  <2>1. i \in 1..(n + 1)
    BY <1>7
  <2>2. IsSpaceAt(x, n, i, e)
    BY <1>2, <2>1, SpaceEnd
  <2> HIDE DEF e
  <2>3. /\ e \in i..(n + 1) /\ (e > n \/ x[e] = Space)
        /\ \A k \in i..(e - 1) : x[k] # Space
    BY <2>2 DEF IsSpaceAt
  <2>4. e \in i..(Len(t) + 1) /\ t[e] = Space
    <3> HIDE DEF n, size
    <3>1. e \in i..(Len(t) + 1)
      BY <1>2, <1>5, <2>1, <2>3
    <3>2. e = n + 1 \/ e \in 1..n
      BY <1>2, <2>1, <2>3
    <3>3. e \in 1..n => x[e] = Space
      BY <1>2, <2>3
    <3> QED BY <1>5, <1>6, <3>1, <3>2, <3>3
  <2>5. ASSUME NEW k \in i..(e - 1) PROVE t[k] # Space
    <3>1. k \in 1..n
      BY <1>2, <2>1, <2>3
    <3> QED BY <1>5, <2>3, <3>1
  <2>6. IsSpaceAt(t, Len(t), i, e)
    BY <2>4, <2>5 DEF IsSpaceAt
  <2>7. NextSpace(t, i) = e
    <3>1. Len(t) \in Nat /\ i \in 1..(Len(t) + 1)
      <4> HIDE DEF n, size
      <4> QED BY <1>2, <1>5, <2>1
    <3> QED BY <2>6, <3>1, SpaceEnd
  <2>8. SubSeq(t, i, e - 1) = SubSeq(x, i, e - 1)
    <3>1. CASE e - 1 < i
      <4>1. i \in Int /\ e - 1 \in Int
        BY <2>1, <2>3
      <4>2. SubSeq(t, i, e - 1) = <<>> /\ SubSeq(x, i, e - 1) = <<>>
        BY <3>1, <4>1, SubSeqEmpty
      <4> QED BY <4>2
    <3>2. CASE ~(e - 1 < i)
      <4>1. i \in 1..Len(x) /\ e - 1 \in 1..Len(x)
        BY <1>2, <2>1, <2>3, <3>2
      <4>2. SubSeq(x \o z, i, e - 1) = SubSeq(x, i, e - 1)
        BY <1>2, <4>1, SubSeqOfConcat1
      <4> QED BY <4>2 DEF t
    <3> QED BY <3>1, <3>2
  <2> QED BY <2>7, <2>8 DEF e
<1>9. SubSeq(t, n + 2, NextSpace(t, n + 2) - 1) = y
  <2> DEFINE l == Len(t)
  <2>1. l = n + (1 + size)
    BY <1>5
  <2>2. NextSpace(t, n + 2) = l + 1
    <3> HIDE DEF n, size
    <3>1. l \in Nat /\ n + 2 \in 1..(l + 1)
      BY <1>2, <2>1
    <3>2. IsSpaceAt(t, l, n + 2, l + 1)
      <4>1. l + 1 \in (n + 2)..(l + 1) /\ l + 1 > l
        BY <1>2, <2>1, <3>1
      <4>2. ASSUME NEW k \in (n + 2)..(l + 1 - 1) PROVE t[k] # Space
        <5>1. k \in (n + 2)..Len(t)
          BY <3>1
        <5> QED BY <1>6, <5>1
      <4> QED BY <4>1, <4>2 DEF IsSpaceAt
    <3> QED BY <3>1, <3>2, SpaceEnd
  <2>3. SubSeq(t, n + 2, Len(t)) = y
    <3> DEFINE front == x \o space
    <3>1. front \in Seq(D) /\ Len(front) = n + 1
      <4>1. front \in Seq(D) /\ IsJoined(front, x, space, n)
        BY <1>1, Joined
      <4> QED BY <1>1, <4>1 DEF IsJoined
    <3>2. t = front \o y
      BY <1>1, ConcatAssociative DEF t, z
    <3> HIDE DEF front
    <3>3. From(front \o y, Len(front) + 1) = y
      BY <3>1, RestOfJoined
    <3>4. Len(front) + 1 = n + 2
      <4> HIDE DEF n
      <4> QED BY <1>2, <3>1
    <3> QED BY <3>2, <3>3, <3>4 DEF From
  <2>4. l + 1 - 1 = Len(t)
    BY <1>2, <2>1
  <2> QED BY <2>2, <2>3, <2>4
<1> DEFINE Cut(s, i) == SubSeq(s, i, NextSpace(s, i) - 1)
<1>10. Candidates(t) = {Cut(t, i) : i \in Starts(t)}
  BY DEF Candidates, Starts
<1>11. Candidates(x) = {Cut(x, i) : i \in Starts(x)}
  BY DEF Candidates, Starts
<1>12. \A i \in Starts(x) : Cut(t, i) = Cut(x, i)
  BY <1>8
<1>13. Cut(t, n + 2) = y
  BY <1>9
<1> HIDE DEF Cut, n
<1>14. Candidates(t) = Candidates(x) \cup {y}
  BY <1>7, <1>10, <1>11, <1>12, <1>13
<1> QED BY <1>14 DEF t, z, space, IsMore

-----------------------------------------------------------------------------
(* Origins by their parts. *)

(* The characters of origins and their separators. *)
OriginCharacters == STRING \cup {".", ":", Space}

HostName(o) == o.label \o After(".", o.domain)
Host(o) == HostName(o) \o After(":", o.port)

(* The parts of an origin are texts. *)
LEMMA PartsText ==
  ASSUME NEW o \in Parts
  PROVE  /\ o.scheme \in Seq(OriginCharacters) /\ o.label \in Seq(OriginCharacters)
         /\ o.domain \in Seq(OriginCharacters) /\ o.port \in Seq(OriginCharacters)
         /\ "." \in OriginCharacters /\ ":" \in OriginCharacters /\ Space \in OriginCharacters
<1> DEFINE D == OriginCharacters
<1>1. o.scheme \in Text /\ o.label \in Text /\ o.domain \in Text /\ o.port \in Text
  BY DEF Parts
<1>2. STRING \subseteq D /\ "." \in D /\ ":" \in D /\ Space \in D
  BY DEF OriginCharacters
<1> HIDE DEF D
<1>3. \A x : x \in Text => x \in Seq(D)
  BY <1>2, SeqMonotonic DEF Text
<1> QED BY <1>1, <1>2, <1>3 DEF D

(* So are its host and the whole of it. *)
LEMMA WrittenText ==
  ASSUME NEW o \in Parts
  PROVE  /\ HostName(o) \in Seq(OriginCharacters)
         /\ After(":", o.port) \in Seq(OriginCharacters)
         /\ Host(o) \in Seq(OriginCharacters)
         /\ Written(o) \in Seq(OriginCharacters)
         /\ Written(o) = o.scheme \o Host(o)
<1> DEFINE D == OriginCharacters
           a == After(".", o.domain)
           b == After(":", o.port)
<1>1. /\ o.scheme \in Seq(D) /\ o.label \in Seq(D) /\ o.domain \in Seq(D) /\ o.port \in Seq(D)
      /\ "." \in D /\ ":" \in D
  BY PartsText
<1>2. a \in Seq(D) /\ b \in Seq(D)
  <2> HIDE DEF D
  <2> QED BY <1>1, AfterText
<1>3. Written(o) = o.scheme \o (o.label \o (a \o b))
  BY DEF Written
<1>4. HostName(o) = o.label \o a /\ Host(o) = HostName(o) \o b
  BY DEF HostName, Host
<1> HIDE DEF a, b, D
<1>5. (o.label \o a) \o b = o.label \o (a \o b)
  <2>1. \A x, y, z \in Seq(D) : (x \o y) \o z = x \o (y \o z)
    BY ConcatAssociative
  <2>2. o.label \in Seq(D) /\ a \in Seq(D) /\ b \in Seq(D)
    BY <1>1, <1>2
  <2> QED BY <2>1, <2>2, Zenon
<1>6. o.label \o a \in Seq(D)
  BY <1>1, <1>2
<1>7. (o.label \o a) \o b \in Seq(D)
  BY <1>2, <1>6
<1>8. o.scheme \o ((o.label \o a) \o b) \in Seq(D)
  BY <1>1, <1>7
<1> QED BY <1>2, <1>3, <1>4, <1>5, <1>6, <1>7, <1>8 DEF D, b

(* Characters that two texts do not have, these joined do not have. *)
LEMMA WithoutBoth ==
  ASSUME NEW D, NEW x \in Seq(D), NEW y \in Seq(D), NEW C, Without(x, C), Without(y, C)
  PROVE  Without(x \o y, C)
<1> DEFINE t == x \o y
           n == Len(x)
<1>1. n \in Nat /\ Len(y) \in Nat /\ IsJoined(t, x, y, n)
  BY Joined
<1> HIDE DEF t
<1>2. ASSUME NEW i \in 1..Len(t) PROVE t[i] \notin C
  <2>1. CASE i \in 1..n
    BY <1>1, <2>1 DEF IsJoined, Without
  <2>2. CASE i \notin 1..n
    <3> DEFINE j == i - n
    <3> HIDE DEF n
    <3>1. j \in 1..Len(y) /\ i = n + j
      BY <1>1, <2>2 DEF IsJoined
    <3> HIDE DEF j
    <3>2. t[i] = y[j]
      BY <1>1, <3>1 DEF IsJoined
    <3> QED BY <3>1, <3>2 DEF Without
  <2> QED BY <2>1, <2>2
<1> QED BY <1>2 DEF Without, t

(* Nor does a text with a separator that is none of them. *)
LEMMA WithoutAfter ==
  ASSUME NEW D, NEW c \in D, NEW y \in Seq(D), NEW C, c \notin C, Without(y, C)
  PROVE  Without(After(c, y), C)
<1>1. CASE y = <<>>
  BY <1>1 DEF After
<1>2. CASE y # <<>>
  <2>1. <<c>> \in Seq(D) /\ Without(<<c>>, C)
    BY DEF Without
  <2> QED BY <1>2, <2>1, WithoutBoth DEF After
<1> QED BY <1>1, <1>2

(* Nor has a text one of fewer characters. *)
LEMMA WithoutFewer ==
  ASSUME NEW x, NEW C, NEW B, B \subseteq C, Without(x, C)
  PROVE  Without(x, B)
BY DEF Without

(* Where an origin and its host can be split. *)
LEMMA HostWithout ==
  ASSUME NEW o \in Parts, IsOrigin(o)
  PROVE  Without(HostName(o), {":"}) /\ Without(o.label, {"."}) /\ Without(Host(o), {Space})
<1> DEFINE D == OriginCharacters
<1>1. /\ o.label \in Seq(D) /\ o.domain \in Seq(D) /\ o.port \in Seq(D)
      /\ "." \in D /\ ":" \in D /\ HostName(o) \in Seq(D) /\ After(":", o.port) \in Seq(D)
  BY PartsText, WrittenText
<1>2. After(".", o.domain) \in Seq(D)
  <2> HIDE DEF D
  <2> QED BY <1>1, AfterText
<1> HIDE DEF D
<1>3. /\ Without(o.label, {".", ":", Space}) /\ Without(o.domain, {":", Space})
      /\ Without(o.port, {".", ":", Space})
  BY DEF IsOrigin
<1>4. /\ Without(o.label, {"."}) /\ Without(o.label, {":", Space})
      /\ Without(o.port, {Space})
  BY <1>3, WithoutFewer
<1>5. "." # ":" /\ "." # Space /\ ":" # Space
  <2>1. "." # ":"
    OBVIOUS
  <2>2. "." # Space /\ ":" # Space
    BY Zenon DEF Space
  <2> QED BY <2>1, <2>2
<1>6. Without(After(".", o.domain), {":", Space})
  BY <1>1, <1>3, <1>5, WithoutAfter
<1>7. Without(HostName(o), {":", Space})
  BY <1>1, <1>2, <1>4, <1>6, WithoutBoth DEF HostName
<1>8. Without(After(":", o.port), {Space})
  BY <1>1, <1>4, <1>5, WithoutAfter
<1>9. Without(HostName(o), {":"}) /\ Without(HostName(o), {Space})
  BY <1>7, WithoutFewer
<1>10. Without(Host(o), {Space})
  BY <1>1, <1>8, <1>9, WithoutBoth DEF Host
<1> QED BY <1>4, <1>9, <1>10

(* An origin without spaces is one candidate. *)
LEMMA WrittenSpaceless ==
  ASSUME NEW o \in Parts, IsOrigin(o), Without(o.scheme, {Space})
  PROVE  Without(Written(o), {Space})
<1>1. /\ o.scheme \in Seq(OriginCharacters) /\ Host(o) \in Seq(OriginCharacters)
      /\ Written(o) = o.scheme \o Host(o)
  BY PartsText, WrittenText
<1>2. Without(Host(o), {Space})
  BY HostWithout
<1> QED BY <1>1, <1>2, WithoutBoth

(* What is written of a list up to each of its candidates. *)
IsWrittenUpTo(f, list) ==
  /\ f[0] = Written(list[1])
  /\ \A i \in 1..(Len(list) - 1) : f[i] = f[i - 1] \o (<<Space>> \o Written(list[i + 1]))
  /\ \A i \in 0..(Len(list) - 1) : f[i] \in Seq(OriginCharacters)

(* A list of origins is written one after the other. *)
LEMMA ListUnfolds ==
  ASSUME NEW list \in Seq(Parts), list # <<>>
  PROVE  \E f : IsWrittenUpTo(f, list) /\ WrittenList(list) = f[Len(list) - 1]
<1> DEFINE n == Len(list) - 1
           T == Seq(OriginCharacters)
           more == [i \in 1..n |-> <<Space>> \o Written(list[i + 1])]
           step == [i \in 1..n |-> [s \in T |-> s \o more[i]]]
           Is(f) == f = [i \in 0..n |-> IF i = 0 THEN Written(list[1]) ELSE f[i - 1] \o more[i]]
<1>0. /\ n \in Nat /\ 0 \in 0..n /\ n \in 0..n /\ 1 \in 1..Len(list)
      /\ \A i \in 1..n : i \in 0..n /\ i # 0 /\ i - 1 \in 0..n /\ i + 1 \in 1..Len(list)
      /\ \A i \in 0..n : i # 0 => i \in 1..n
  OBVIOUS
<1>1. Written(list[1]) \in T /\ \A i \in 1..n : more[i] \in T
  <2>1. \A i \in 1..Len(list) : Written(list[i]) \in T
    <3> SUFFICES ASSUME NEW i \in 1..Len(list) PROVE Written(list[i]) \in T
      OBVIOUS
    <3>1. list[i] \in Parts
      OBVIOUS
    <3> QED BY <3>1, WrittenText
  <2>2. <<Space>> \in T
    BY DEF OriginCharacters
  <2>3. ASSUME NEW i \in 1..n PROVE more[i] \in T
    <3>1. Written(list[i + 1]) \in T
      BY <1>0, <2>1
    <3> QED BY <2>2, <3>1
  <2> QED BY <1>0, <2>1, <2>3
<1> HIDE DEF more
<1>2. PICK f : Forward(f, n, T, Written(list[1]), step)
  <2>1. step \in [1..n -> [T -> T]]
    BY <1>1
  <2> HIDE DEF step, T, n
  <2> QED BY <1>0, <1>1, <2>1, ForwardRecursion
<1>3. f \in [0..n -> T] /\ f[0] = Written(list[1]) /\ \A i \in 1..n : f[i] = f[i - 1] \o more[i]
  <2>1. f \in [0..n -> T] /\ f[0] = Written(list[1]) /\ \A i \in 1..n : f[i] = step[i][f[i - 1]]
    BY <1>2 DEF Forward
  <2>2. ASSUME NEW i \in 1..n PROVE f[i] = f[i - 1] \o more[i]
    <3>1. f[i - 1] \in T
      BY <1>0, <2>1
    <3> QED BY <2>1, <3>1
  <2> QED BY <2>1, <2>2
<1>4. Is(f)
  <2> DEFINE g == [i \in 0..n |-> IF i = 0 THEN Written(list[1]) ELSE f[i - 1] \o more[i]]
  <2> HIDE DEF n
  <2>1. ASSUME NEW i \in 0..n PROVE f[i] = g[i]
    <3>1. CASE i = 0
      BY <1>0, <1>3, <3>1
    <3>2. CASE i # 0
      BY <1>0, <1>3, <3>2
    <3> QED BY <3>1, <3>2
  <2> QED BY <1>3, <2>1
<1>5. \E h : Is(h) /\ WrittenList(list) = h[n]
  <2> DEFINE Wrote(h) ==
               h = [i \in 0..n |-> IF i = 0 THEN Written(list[1])
                                   ELSE h[i - 1] \o (<<Space>> \o Written(list[i + 1]))]
             h == CHOOSE upto : Wrote(upto)
  <2>1. WrittenList(list) = h[n]
    BY DEF WrittenList
  <2>2. ASSUME NEW g PROVE Is(g) <=> Wrote(g)
    <3> DEFINE a == [i \in 0..n |-> IF i = 0 THEN Written(list[1]) ELSE g[i - 1] \o more[i]]
               b == [i \in 0..n |-> IF i = 0 THEN Written(list[1])
                                    ELSE g[i - 1] \o (<<Space>> \o Written(list[i + 1]))]
    <3>1. \A i \in 0..n : i # 0 => more[i] = <<Space>> \o Written(list[i + 1])
      BY <1>0 DEF more
    <3> HIDE DEF n
    <3>2. a = b
      BY <3>1
    <3> QED BY <3>2
  <2> HIDE DEF Is, Wrote
  <2>3. Wrote(h)
    BY <1>4, <2>2
  <2> HIDE DEF h
  <2> QED BY <2>1, <2>2, <2>3
<1>6. PICK h : Is(h) /\ WrittenList(list) = h[n]
  BY <1>5
<1>7. h = f
  <2> HIDE DEF n
  <2> DEFINE Same == {i \in 0..n : h[i] = f[i]}
  <2>1. \A i \in 0..n : h[i] = IF i = 0 THEN Written(list[1]) ELSE h[i - 1] \o more[i]
    BY <1>6
  <2>2. 0 \in Same
    BY <1>0, <1>3, <2>1
  <2>3. ASSUME NEW i \in 1..n, i - 1 \in Same PROVE i \in Same
    BY <1>0, <1>3, <2>1, <2>3
  <2> HIDE DEF Same
  <2>4. \A i \in 0..n : i \in Same
    BY <1>0, <2>2, <2>3, UpTo
  <2> QED BY <1>3, <1>6, <2>4 DEF Same
<1>8. IsWrittenUpTo(f, list)
  <2>1. \A i \in 1..n : more[i] = <<Space>> \o Written(list[i + 1])
    BY DEF more
  <2> QED BY <1>3, <2>1 DEF IsWrittenUpTo
<1> QED BY <1>6, <1>7, <1>8

(* The candidates of a list are those that were written. *)
LEMMA ListedCandidates ==
  ASSUME NEW list \in Seq(Parts), list # <<>>,
         \A i \in 1..Len(list) : Without(Written(list[i]), {Space})
  PROVE  Candidates(WrittenList(list)) = {Written(list[i]) : i \in 1..Len(list)}
<1>1. PICK f : IsWrittenUpTo(f, list) /\ WrittenList(list) = f[Len(list) - 1]
  BY ListUnfolds
<1> DEFINE n == Len(list) - 1
           Good == {k \in 0..n : Candidates(f[k]) = {Written(list[i]) : i \in 1..(k + 1)}}
<1>2. /\ n \in Nat /\ 0 \in 0..n /\ n \in 0..n /\ 1 \in 1..Len(list) /\ n + 1 = Len(list)
      /\ \A k \in 1..n : k \in 0..n /\ k - 1 \in 0..n /\ k + 1 \in 1..Len(list) /\ k - 1 + 1 = k
  OBVIOUS
<1>3. /\ f[0] = Written(list[1]) /\ WrittenList(list) = f[n]
      /\ \A k \in 1..n : f[k] = f[k - 1] \o (<<Space>> \o Written(list[k + 1]))
      /\ \A k \in 0..n : f[k] \in Seq(OriginCharacters)
  BY <1>1 DEF IsWrittenUpTo
<1>4. \A i \in 1..Len(list) : Written(list[i]) \in Seq(OriginCharacters)
  <2> SUFFICES ASSUME NEW i \in 1..Len(list) PROVE Written(list[i]) \in Seq(OriginCharacters)
    OBVIOUS
  <2>1. list[i] \in Parts
    OBVIOUS
  <2> QED BY <2>1, WrittenText
<1> HIDE DEF n
<1>5. 0 \in Good
  <2>1. Candidates(Written(list[1])) = {Written(list[1])}
    BY <1>2, <1>4, OneCandidate
  <2>2. 1..(0 + 1) = {1}
    OBVIOUS
  <2> QED BY <1>2, <1>3, <2>1, <2>2
<1>6. ASSUME NEW k \in 1..n, k - 1 \in Good PROVE k \in Good
  <2> DEFINE last == Written(list[k + 1])
  <2>1. Candidates(f[k - 1]) = {Written(list[i]) : i \in 1..k}
    BY <1>2, <1>6
  <2>2. Candidates(f[k]) = Candidates(f[k - 1]) \cup {last}
    <3>1. Space \in OriginCharacters
      BY DEF OriginCharacters
    <3>2. /\ f[k - 1] \in Seq(OriginCharacters) /\ last \in Seq(OriginCharacters)
          /\ Without(last, {Space}) /\ f[k] = f[k - 1] \o (<<Space>> \o last)
      BY <1>2, <1>3, <1>4
    <3> HIDE DEF last
    <3>3. IsMore(f[k], f[k - 1], last)
      BY <3>1, <3>2, MoreCandidates
    <3> QED BY <3>3 DEF IsMore
  <2>3. \A i : i \in 1..(k + 1) <=> i \in 1..k \/ i = k + 1
    OBVIOUS
  <2>4. Candidates(f[k]) = {Written(list[i]) : i \in 1..k} \cup {last}
    BY <2>1, <2>2
  <2>5. {Written(list[i]) : i \in 1..(k + 1)} = {Written(list[i]) : i \in 1..k} \cup {last}
    BY <2>3
  <2> QED BY <1>2, <2>4, <2>5
<1> HIDE DEF Good
<1>7. \A k \in 0..n : k \in Good
  BY <1>2, <1>5, <1>6, UpTo
<1> QED BY <1>2, <1>3, <1>7 DEF Good

(* Schemes are texts without spaces, and https is one. *)
LEMMA SchemesText ==
  /\ gHttpsProto \in Schemes /\ gHttpsProto \in Seq(OriginCharacters) /\ Len(gHttpsProto) = 8
  /\ \A s \in Schemes : s \in Seq(OriginCharacters) /\ Without(s, {Space})
<1>1. gHttpsProto \in Schemes /\ Schemes \subseteq Text /\ \A s \in Schemes : Without(s, {Space})
  BY ListsAssumption
<1>2. STRING \subseteq OriginCharacters
  BY DEF OriginCharacters
<1>3. \A s \in Schemes : s \in Seq(OriginCharacters)
  BY <1>1, <1>2, SeqMonotonic DEF Text
<1>4. Len(gHttpsProto) = 8
  BY DEF gHttpsProto
<1> QED BY <1>1, <1>3, <1>4

(* A text that starts with a scheme starts with no other. *)
LEMMA OneScheme ==
  ASSUME NEW s \in Schemes, NEW t \in Schemes, NEW x, StartsWith(x, s), StartsWith(x, t)
  PROVE  s = t
<1>1. s \in Seq(OriginCharacters) /\ t \in Seq(OriginCharacters)
  BY SchemesText
<1>2. Len(s) \in Nat /\ Len(t) \in Nat
  BY <1>1
<1>3. \A a \in Schemes : \A b \in Schemes \ {a} : ~StartsWith(b, a)
  BY ListsAssumption
<1>4. CASE Len(s) <= Len(t)
  <2>1. StartsWith(t, s)
    BY <1>2, <1>4, StartsCompare
  <2> QED BY <1>3, <2>1, Zenon
<1>5. CASE Len(t) <= Len(s)
  <2>1. StartsWith(s, t)
    BY <1>2, <1>5, StartsCompare
  <2> QED BY <1>3, <2>1, Zenon
<1> QED BY <1>2, <1>4, <1>5

(* The scheme an origin starts with is its own. *)
LEMMA SchemeFound ==
  ASSUME NEW o \in Parts, o.scheme \in Schemes, NEW s \in Schemes
  PROVE  StartsWith(Written(o), s) <=> o.scheme = s
<1>1. StartsWith(Written(o), o.scheme)
  <2> DEFINE front == o.scheme
             h == Host(o)
  <2>1. front \in Seq(OriginCharacters) /\ h \in Seq(OriginCharacters) /\ Written(o) = front \o h
    BY WrittenText, PartsText
  <2> HIDE DEF front, h
  <2>2. StartsWith(front \o h, front)
    BY <2>1, FrontOfJoined
  <2> QED BY <2>1, <2>2 DEF front
<1> QED BY <1>1, OneScheme

(* The parts of a host. *)
LEMMA ColonPlace ==
  ASSUME NEW o \in Parts, IsOrigin(o)
  PROVE  LastOf(Host(o), ":") = IF o.port = <<>> THEN 0 ELSE Len(HostName(o)) + 1
<1> DEFINE D == OriginCharacters
           name == HostName(o)
           colon == After(":", o.port)
           host == name \o colon
           n == Len(name)
<1>1. name \in Seq(D) /\ colon \in Seq(D) /\ o.port \in Seq(D) /\ ":" \in D
  BY PartsText, WrittenText
<1>2. \A i \in 1..n : name[i] # ":"
  BY HostWithout DEF Without
<1>3. \A i \in 1..Len(o.port) : o.port[i] # ":"
  BY DEF IsOrigin, Without
<1>4. Host(o) = host
  BY DEF Host
<1>5. IsAfter(colon, ":", o.port)
  BY <1>1, AfterIs
<1> HIDE DEF D, name, colon
<1>6. n \in Nat /\ IsJoined(host, name, colon, n) /\ host \in Seq(D)
  BY <1>1, Joined
<1>7. CASE o.port = <<>>
  <2>1. host = name
    BY <1>1, <1>5, <1>7 DEF IsAfter
  <2>2. Places(host, ":") \cup {0} = {0}
    BY <1>2, <2>1 DEF Places
  <2>3. Max({0}) = 0
    BY DEF Max
  <2> QED BY <1>4, <1>7, <2>2, <2>3 DEF LastOf
<1>8. CASE o.port # <<>>
  <2> DEFINE m == Len(o.port)
  <2>1. m \in Nat /\ Len(colon) = 1 + m /\ colon[1] = ":"
        /\ \A i \in 1..m : colon[1 + i] # ":"
    <3>1. m \in Nat
      BY <1>1
    <3>2. /\ Len(colon) = 1 + m /\ colon[1] = ":"
          /\ \A i \in 1..m : colon[1 + i] = o.port[i]
      BY <1>5, <1>8 DEF IsAfter
    <3>3. \A i \in 1..m : colon[1 + i] # ":"
      BY <1>3, <3>2
    <3> QED BY <3>1, <3>2, <3>3
  <2> HIDE DEF host, n, m
  <2>2. /\ Len(host) = n + (1 + m)
        /\ \A i \in 1..(1 + m) : host[n + i] = colon[i]
    BY <1>6, <2>1 DEF IsJoined
  <2>3. host[n + 1] = ":" /\ n + 1 \in 1..Len(host) /\ Len(host) \in Nat
    <3>1. 1 \in 1..(1 + m)
      BY <2>1
    <3> QED BY <1>6, <2>1, <2>2, <3>1
  <2>4. ASSUME NEW k \in 1..Len(host), k > n + 1 PROVE host[k] # ":"
    <3> DEFINE l == k - (n + 1)
    <3>1. l \in 1..m /\ 1 + l \in 1..(1 + m) /\ k = n + (1 + l)
      BY <1>6, <2>1, <2>2, <2>4
    <3> HIDE DEF l
    <3> QED BY <2>1, <2>2, <3>1
  <2>5. IsLast(host, Len(host), ":", n + 1)
    <3>1. \A k \in 1..Len(host) : host[k] = ":" => k <= n + 1
      BY <1>6, <2>3, <2>4
    <3> QED BY <2>3, <3>1 DEF IsLast
  <2>6. LastOf(host, ":") = n + 1
    BY <2>3, <2>5, LastIs
  <2> QED BY <1>4, <1>8, <2>6 DEF n, name
<1> QED BY <1>7, <1>8

(* The parts of a host that host_matches takes. *)
LEMMA HostParts ==
  ASSUME NEW o \in Parts, IsOrigin(o)
  PROVE  /\ WithoutPort(Host(o), LastOf(Host(o), ":")) = HostName(o)
         /\ o.port = <<>> => Host(o) = HostName(o)
         /\ o.port # <<>> => From(Host(o), LastOf(Host(o), ":")) = After(":", o.port)
<1> DEFINE colon == After(":", o.port)
<1>1. /\ HostName(o) \in Seq(OriginCharacters) /\ colon \in Seq(OriginCharacters)
      /\ Host(o) = HostName(o) \o colon
  BY WrittenText DEF Host
<1>2. LastOf(Host(o), ":") = IF o.port = <<>> THEN 0 ELSE Len(HostName(o)) + 1
  BY ColonPlace
<1>3. o.port = <<>> => colon = <<>>
  BY DEF After
<1> HIDE DEF colon
<1>4. o.port = <<>> => Host(o) = HostName(o)
  BY <1>1, <1>3
<1>5. From(Host(o), Len(HostName(o)) + 1) = colon
  BY <1>1, RestOfJoined
<1>6. SubSeq(Host(o), 1, Len(HostName(o))) = HostName(o)
  BY <1>1, FrontOfJoined
<1>7. Len(HostName(o)) \in Nat
  BY <1>1
<1>8. Len(HostName(o)) + 1 # 0 /\ Len(HostName(o)) + 1 - 1 = Len(HostName(o))
  BY <1>7
<1>9. WithoutPort(Host(o), LastOf(Host(o), ":")) = HostName(o)
  BY <1>2, <1>4, <1>6, <1>8 DEF WithoutPort
<1> QED BY <1>2, <1>4, <1>5, <1>9 DEF colon

(* What follows the first label: nothing with a dot, or a dot and more. *)
IsRest(r) ==
  /\ r \in Seq(OriginCharacters)
  /\ \/ Len(r) >= 2 /\ r[1] = "."
     \/ \A i \in 1..Len(r) : r[i] # "."

IsLabel(l) == l \in Seq(OriginCharacters) /\ l # <<>> /\ \A i \in 1..Len(l) : l[i] # "."

Dotted(r) == Len(r) >= 2 /\ r[1] = "."

(* The comparison of hosts that host_matches ends with. *)
SameHost(o, h) ==
  LET dot == FirstOf(o, ".")
  IN  /\ o # <<>> /\ h # <<>>
      /\ IF Len(h) > 2 /\ StartsWith(h, <<"*", ".">>)
         THEN Len(o) >= Len(h) /\ dot # 0 /\ From(o, dot) = From(h, 2)
         ELSE o = h

(* A host is not empty, and goes on after its first label. *)
LEMMA LabelText ==
  ASSUME NEW l, IsLabel(l), NEW r, IsRest(r), NEW t, t = l \o r
  PROVE  /\ Len(l) \in Nat /\ Len(l) >= 1 /\ Len(r) \in Nat /\ t \in Seq(OriginCharacters)
         /\ IsJoined(t, l, r, Len(l)) /\ t # <<>>
         /\ From(t, Len(l) + 1) = r
<1>1. /\ l \in Seq(OriginCharacters) /\ r \in Seq(OriginCharacters) /\ l # <<>>
  BY DEF IsLabel, IsRest
<1>2. Len(l) \in Nat /\ Len(l) >= 1 /\ Len(r) \in Nat
  BY <1>1
<1>3. t \in Seq(OriginCharacters) /\ IsJoined(t, l, r, Len(l))
  BY <1>1, Joined
<1>4. From(t, Len(l) + 1) = r
  BY <1>1, RestOfJoined
<1>5. Len(t) # 0
  BY <1>2, <1>3 DEF IsJoined
<1>6. Len(<<>>) = 0
  OBVIOUS
<1>7. t # <<>>
  BY <1>5, <1>6, Zenon
<1> QED BY <1>2, <1>3, <1>4, <1>7

(* The first dot is after the label. *)
LEMMA DotPlace ==
  ASSUME NEW l, IsLabel(l), NEW r, IsRest(r), NEW t, t = l \o r
  PROVE  FirstOf(t, ".") = IF Dotted(r) THEN Len(l) + 1 ELSE 0
<1> DEFINE n == Len(l)
<1>1. n \in Nat /\ n >= 1 /\ Len(r) \in Nat /\ IsJoined(t, l, r, n)
  BY LabelText
<1>2. \A i \in 1..n : l[i] # "."
  BY DEF IsLabel
<1> HIDE DEF n
<1>3. /\ Len(t) = n + Len(r)
      /\ \A i \in 1..n : t[i] # "."
      /\ \A i \in 1..Len(r) : t[n + i] = r[i]
  BY <1>1, <1>2 DEF IsJoined
<1>4. CASE Dotted(r)
  <2>1. 1 \in 1..Len(r) /\ r[1] = "." /\ n + 1 \in 1..Len(t)
    BY <1>1, <1>3, <1>4 DEF Dotted
  <2>2. n + 1 \in Places(t, ".")
    BY <1>3, <2>1 DEF Places
  <2>3. \A k \in Places(t, ".") : n + 1 <= k
    <3> SUFFICES ASSUME NEW k \in 1..Len(t), t[k] = "." PROVE n + 1 <= k
      BY DEF Places
    <3>1. k \notin 1..n
      BY <1>3
    <3> QED BY <1>1, <3>1
  <2>4. Places(t, ".") \subseteq Nat
    BY DEF Places
  <2>5. Min(Places(t, ".")) = n + 1
    BY <2>2, <2>3, <2>4, MinIs
  <2>6. Places(t, ".") # {}
    BY <2>2
  <2> QED BY <1>4, <2>5, <2>6 DEF FirstOf, n
<1>5. CASE ~Dotted(r)
  <2>1. \A i \in 1..Len(r) : r[i] # "."
    BY <1>5 DEF IsRest, Dotted
  <2>2. ASSUME NEW k \in 1..Len(t) PROVE t[k] # "."
    <3>1. CASE k \in 1..n
      BY <1>3, <3>1
    <3>2. CASE k \notin 1..n
      <4> DEFINE j == k - n
      <4>1. j \in 1..Len(r) /\ k = n + j
        BY <1>1, <1>3, <3>2
      <4> HIDE DEF j
      <4> QED BY <1>3, <2>1, <4>1
    <3> QED BY <3>1, <3>2
  <2>3. Places(t, ".") = {}
    BY <2>2 DEF Places
  <2> QED BY <1>5, <2>3 DEF FirstOf
<1> QED BY <1>4, <1>5

(* Which hosts of candidates are wildcards. *)
LEMMA Wildcard ==
  ASSUME NEW l, IsLabel(l), NEW r, IsRest(r), NEW t, t = l \o r
  PROVE  (Len(t) > 2 /\ StartsWith(t, <<"*", ".">>)) <=> (l = <<"*">> /\ Dotted(r))
<1> DEFINE n == Len(l)
<1>1. n \in Nat /\ n >= 1 /\ Len(r) \in Nat /\ IsJoined(t, l, r, n)
  BY LabelText
<1>2. (\A i \in 1..n : l[i] # ".") /\ l \in Seq(OriginCharacters)
  BY DEF IsLabel
<1>3. /\ Len(t) = n + Len(r)
      /\ \A i \in 1..n : t[i] = l[i]
      /\ \A i \in 1..Len(r) : t[n + i] = r[i]
  <2> HIDE DEF n
  <2> QED BY <1>1 DEF IsJoined
<1> DEFINE w == <<"*", ".">>
<1>4. Len(w) = 2 /\ w[1] = "*" /\ w[2] = "."
  OBVIOUS
<1> HIDE DEF w
<1>5. StartsWith(t, w) <=> 2 <= Len(t) /\ t[1] = "*" /\ t[2] = "."
  <2>1. \A k \in 1..2 : k = 1 \/ k = 2
    OBVIOUS
  <2>2. 1 \in 1..2 /\ 2 \in 1..2
    OBVIOUS
  <2>3. \A k \in 1..2 : 1 - 1 + k = k
    OBVIOUS
  <2>4. 1 - 1 + 2 = 2
    OBVIOUS
  <2> QED BY <1>4, <2>1, <2>2, <2>3, <2>4 DEF StartsWith, PartAt
<1>6. ASSUME Len(t) > 2, StartsWith(t, w) PROVE l = <<"*">> /\ Dotted(r)
  <2>1. 1 \in 1..n
    BY <1>1
  <2>2. l[1] = "*"
    BY <1>3, <1>5, <1>6, <2>1
  <2>3. n = 1
    <3>1. 2 \notin 1..n
      BY <1>2, <1>3, <1>5, <1>6
    <3> HIDE DEF n
    <3> QED BY <1>1, <3>1
  <2>4. l = <<"*">>
    <3> DEFINE D == OriginCharacters \cup {"*"}
               one == <<"*">>
    <3>1. l \in Seq(D) /\ one \in Seq(D) /\ Len(one) = 1 /\ one[1] = "*"
      BY <1>2
    <3> HIDE DEF D, one
    <3>2. \A k \in 1..1 : k = 1
      OBVIOUS
    <3>3. Len(l) = Len(one) /\ \A k \in 1..Len(l) : l[k] = one[k]
      BY <2>2, <2>3, <3>1, <3>2
    <3>4. l = one
      BY <3>1, <3>3, SeqEqual
    <3> QED BY <3>4 DEF one
  <2>5. Len(r) >= 2
    <3> HIDE DEF n
    <3> QED BY <1>1, <1>3, <1>6, <2>3
  <2>6. r[1] = "."
    <3>1. 1 \in 1..Len(r) /\ n + 1 = 2
      <4> HIDE DEF n
      <4> QED BY <1>1, <2>3, <2>5
    <3> QED BY <1>3, <1>5, <1>6, <3>1
  <2> QED BY <2>4, <2>5, <2>6 DEF Dotted
<1>7. ASSUME l = <<"*">>, Dotted(r) PROVE Len(t) > 2 /\ StartsWith(t, w)
  <2>1. n = 1 /\ l[1] = "*"
    BY <1>7
  <2>2. Len(r) >= 2 /\ r[1] = "."
    BY <1>7 DEF Dotted
  <2> HIDE DEF n
  <2>3. 1 \in 1..n /\ 1 \in 1..Len(r) /\ n + 1 = 2 /\ Len(t) > 2 /\ 2 <= Len(t)
    BY <1>1, <1>3, <2>1, <2>2
  <2>4. t[1] = "*" /\ t[2] = "."
    BY <1>3, <2>1, <2>2, <2>3
  <2> QED BY <1>5, <2>3, <2>4
<1> QED BY <1>6, <1>7 DEF w

IsHost(t, l, r) == IsLabel(l) /\ IsRest(r) /\ t = l \o r

(* What that comparison says, by labels and what follows them. *)
LEMMA HostCompare ==
  ASSUME NEW o, NEW a, NEW r, IsHost(o, a, r), NEW h, NEW b, NEW s, IsHost(h, b, s)
  PROVE  SameHost(o, h) <=> IF b = <<"*">> /\ Dotted(s) THEN r = s ELSE o = h
<1>1. /\ Len(a) \in Nat /\ Len(a) >= 1 /\ Len(r) \in Nat /\ IsJoined(o, a, r, Len(a))
      /\ o # <<>> /\ From(o, Len(a) + 1) = r
  BY LabelText DEF IsHost
<1>2. /\ Len(b) \in Nat /\ Len(s) \in Nat /\ IsJoined(h, b, s, Len(b))
      /\ h # <<>> /\ From(h, Len(b) + 1) = s
  BY LabelText DEF IsHost
<1>3. FirstOf(o, ".") = IF Dotted(r) THEN Len(a) + 1 ELSE 0
  BY DotPlace DEF IsHost
<1>4. (Len(h) > 2 /\ StartsWith(h, <<"*", ".">>)) <=> (b = <<"*">> /\ Dotted(s))
  BY Wildcard DEF IsHost
<1>5. CASE b = <<"*">> /\ Dotted(s)
  <2>1. SameHost(o, h) <=> Len(o) >= Len(h) /\ FirstOf(o, ".") # 0 /\ From(o, FirstOf(o, ".")) = From(h, 2)
    BY <1>1, <1>2, <1>4, <1>5 DEF SameHost
  <2>2. Len(b) = 1
    BY <1>5
  <2>3. From(h, 2) = s
    <3>1. Len(b) + 1 = 2
      BY <2>2
    <3> QED BY <1>2, <3>1
  <2>4. ASSUME r = s PROVE Len(o) >= Len(h)
    <3>1. Len(o) = Len(a) + Len(r) /\ Len(h) = 1 + Len(r)
      BY <1>1, <1>2, <2>2, <2>4 DEF IsJoined
    <3> QED BY <1>1, <3>1
  <2>5. Len(a) + 1 # 0
    BY <1>1
  <2>6. CASE Dotted(r)
    <3>1. FirstOf(o, ".") = Len(a) + 1
      BY <1>3, <2>6
    <3>2. SameHost(o, h) <=> r = s
      BY <1>1, <2>1, <2>3, <2>4, <2>5, <3>1
    <3> QED BY <1>5, <3>2
  <2>7. CASE ~Dotted(r)
    <3>1. FirstOf(o, ".") = 0
      BY <1>3, <2>7
    <3>2. r # s
      BY <1>5, <2>7
    <3> QED BY <1>5, <2>1, <3>1, <3>2
  <2> QED BY <2>6, <2>7
<1>6. CASE ~(b = <<"*">> /\ Dotted(s))
  BY <1>1, <1>2, <1>4, <1>6 DEF SameHost
<1> QED BY <1>5, <1>6

(* How a host splits after its first label, with its port and without. *)
LEMMA HostSplit ==
  ASSUME NEW o \in Parts, IsOrigin(o)
  PROVE  /\ IsLabel(o.label)
         /\ IsRest(After(".", o.domain))
         /\ IsRest(After(".", o.domain) \o After(":", o.port))
         /\ Dotted(After(".", o.domain)) <=> o.domain # <<>>
         /\ Dotted(After(".", o.domain) \o After(":", o.port)) <=> o.domain # <<>>
         /\ HostName(o) = o.label \o After(".", o.domain)
         /\ Host(o) = o.label \o (After(".", o.domain) \o After(":", o.port))
<1> DEFINE D == OriginCharacters
           d == After(".", o.domain)
           p == After(":", o.port)
           r == d \o p
<1>1. /\ o.label \in Seq(D) /\ o.domain \in Seq(D) /\ o.port \in Seq(D)
      /\ "." \in D /\ ":" \in D
  BY PartsText
<1>2. IsAfter(d, ".", o.domain) /\ IsAfter(p, ":", o.port) /\ d \in Seq(D) /\ p \in Seq(D)
  <2> HIDE DEF D
  <2> QED BY <1>1, AfterIs, AfterText
<1>3. IsLabel(o.label)
  BY <1>1 DEF IsOrigin, Without, IsLabel
<1>4. HostName(o) = o.label \o d /\ Host(o) = (o.label \o d) \o p
  BY DEF Host, HostName
<1> HIDE DEF D, d, p
<1>5. Host(o) = o.label \o r
  <2> DEFINE l == o.label
  <2>1. l \in Seq(D)
    BY <1>1
  <2> HIDE DEF l
  <2>2. (l \o d) \o p = l \o (d \o p)
    <3>1. \A x, y, z \in Seq(D) : (x \o y) \o z = x \o (y \o z)
      BY ConcatAssociative
    <3>2. d \in Seq(D) /\ p \in Seq(D)
      BY <1>2
    <3> QED BY <2>1, <3>1, <3>2, Zenon
  <2> QED BY <1>4, <2>2 DEF l
<1>6. Len(p) \in Nat /\ \A i \in 1..Len(p) : p[i] # "."
  <2>1. CASE o.port = <<>>
    <3>1. p = <<>>
      BY <1>2, <2>1 DEF IsAfter
    <3> QED BY <3>1
  <2>2. CASE o.port # <<>>
    <3>1. /\ Len(p) = 1 + Len(o.port) /\ p[1] = ":"
          /\ \A i \in 1..Len(o.port) : p[1 + i] = o.port[i]
      BY <1>2, <2>2 DEF IsAfter
    <3>2. \A i \in 1..Len(o.port) : o.port[i] # "."
      BY DEF IsOrigin, Without
    <3>3. Len(o.port) \in Nat
      BY <1>1
    <3>4. ASSUME NEW i \in 1..Len(p) PROVE p[i] # "."
      <4>1. CASE i = 1
        BY <3>1, <4>1
      <4>2. CASE i # 1
        <5>1. i - 1 \in 1..Len(o.port) /\ i = 1 + (i - 1)
          BY <3>1, <3>3, <4>2
        <5> QED BY <3>1, <3>2, <5>1
      <4> QED BY <4>1, <4>2
    <3> QED BY <3>1, <3>3, <3>4
  <2> QED BY <2>1, <2>2
<1>7. r \in Seq(D) /\ IsJoined(r, d, p, Len(d)) /\ Len(d) \in Nat
  BY <1>2, Joined
<1> HIDE DEF r
<1>8. CASE o.domain = <<>>
  <2>1. d = <<>>
    BY <1>2, <1>8 DEF IsAfter
  <2>2. Len(d) = 0
    BY <2>1
  <2>3. r = p
    BY <1>2, <2>1 DEF r
  <2>4. IsRest(d) /\ ~Dotted(d)
    BY <1>2, <2>2 DEF IsRest, Dotted, D
  <2>5. IsRest(r)
    BY <1>2, <1>6, <2>3 DEF IsRest, D
  <2>6. ~Dotted(r)
    <3>1. ASSUME Dotted(r) PROVE FALSE
      <4>1. Len(p) >= 2 /\ p[1] = "."
        BY <2>3, <3>1 DEF Dotted
      <4>2. 1 \in 1..Len(p)
        BY <1>6, <4>1
      <4> QED BY <1>6, <4>1, <4>2
    <3> QED BY <3>1
  <2> QED BY <1>3, <1>4, <1>5, <1>8, <2>4, <2>5, <2>6 DEF d, p, r
<1>9. CASE o.domain # <<>>
  <2>1. Len(d) = 1 + Len(o.domain) /\ d[1] = "."
    BY <1>2, <1>9 DEF IsAfter
  <2>2. Len(o.domain) \in Nat /\ Len(o.domain) >= 1
    BY <1>1, <1>9
  <2>3. Dotted(d)
    BY <2>1, <2>2 DEF Dotted
  <2>4. Len(r) = Len(d) + Len(p) /\ r[1] = d[1]
    <3>1. 1 \in 1..Len(d)
      BY <2>1, <2>2
    <3> QED BY <1>7, <3>1 DEF IsJoined
  <2>5. Dotted(r)
    BY <1>6, <2>1, <2>2, <2>4 DEF Dotted
  <2>6. IsRest(d) /\ IsRest(r)
    BY <1>2, <1>7, <2>3, <2>5 DEF IsRest, Dotted, D
  <2> QED BY <1>3, <1>4, <1>5, <1>9, <2>3, <2>5, <2>6 DEF d, p, r
<1> QED BY <1>8, <1>9

(* Rests that are equal. *)
LEMMA SameDomain ==
  ASSUME NEW o \in Parts, IsOrigin(o), NEW c \in Parts, IsOrigin(c)
  PROVE  /\ After(".", o.domain) = After(".", c.domain) => o.domain = c.domain
         /\ After(".", o.domain) \o After(":", o.port) = After(".", c.domain) \o After(":", c.port)
              => o.domain = c.domain /\ o.port = c.port
         /\ HostName(o) = HostName(c) => o.label = c.label /\ o.domain = c.domain
         /\ Host(o) = Host(c) => HostName(o) = HostName(c) /\ o.port = c.port
<1> DEFINE D == OriginCharacters
<1>1. /\ o.label \in Seq(D) /\ o.domain \in Seq(D) /\ o.port \in Seq(D) /\ HostName(o) \in Seq(D)
      /\ c.label \in Seq(D) /\ c.domain \in Seq(D) /\ c.port \in Seq(D) /\ HostName(c) \in Seq(D)
      /\ "." \in D /\ ":" \in D
  BY PartsText, WrittenText
<1>2. /\ Without(o.label, {"."}) /\ Without(c.label, {"."})
      /\ Without(HostName(o), {":"}) /\ Without(HostName(c), {":"})
  BY HostWithout
<1>3. /\ Without(After(".", o.domain), {":"}) /\ Without(After(".", c.domain), {":"})
      /\ After(".", o.domain) \in Seq(D) /\ After(".", c.domain) \in Seq(D)
  <2>1. Without(o.domain, {":"}) /\ Without(c.domain, {":"})
    BY WithoutFewer DEF IsOrigin
  <2>2. "." \notin {":"}
    OBVIOUS
  <2> HIDE DEF D
  <2> QED BY <1>1, <2>1, <2>2, WithoutAfter, AfterText
<1> HIDE DEF D
<1>4. ASSUME After(".", o.domain) = After(".", c.domain) PROVE o.domain = c.domain
  <2> DEFINE t == <<>> \o After(".", o.domain)
  <2>1. <<>> \in Seq(D) /\ Without(<<>>, {"."})
    BY DEF Without
  <2>2. Splits(D, t, <<>>, ".", o.domain) /\ Splits(D, t, <<>>, ".", c.domain)
    BY <1>1, <1>4, <2>1 DEF Splits
  <2> QED BY <2>2, OneSplit
<1>5. ASSUME NEW t, t = After(".", o.domain) \o After(":", o.port),
             t = After(".", c.domain) \o After(":", c.port)
      PROVE  o.domain = c.domain /\ o.port = c.port
  <2>1. Splits(D, t, After(".", o.domain), ":", o.port) /\ Splits(D, t, After(".", c.domain), ":", c.port)
    BY <1>1, <1>3, <1>5 DEF Splits
  <2>2. After(".", o.domain) = After(".", c.domain) /\ o.port = c.port
    BY <2>1, OneSplit
  <2> QED BY <1>4, <2>2
<1>6. ASSUME NEW t, t = HostName(o), t = HostName(c) PROVE o.label = c.label /\ o.domain = c.domain
  <2>1. Splits(D, t, o.label, ".", o.domain) /\ Splits(D, t, c.label, ".", c.domain)
    BY <1>1, <1>2, <1>6 DEF Splits, HostName
  <2> QED BY <2>1, OneSplit
<1>7. ASSUME NEW t, t = Host(o), t = Host(c) PROVE HostName(o) = HostName(c) /\ o.port = c.port
  <2>1. Splits(D, t, HostName(o), ":", o.port) /\ Splits(D, t, HostName(c), ":", c.port)
    BY <1>1, <1>2, <1>7 DEF Splits, Host
  <2> QED BY <2>1, OneSplit
<1> QED BY <1>4, <1>5, <1>6, <1>7

-----------------------------------------------------------------------------
(* What the two comparisons say of the parts. *)

(* Port 443, as it stands in a candidate. *)
LEMMA HttpsPort ==
  ASSUME NEW c \in Parts
  PROVE  After(":", c.port) = <<":", "4", "4", "3">> <=> c.port = <<"4", "4", "3">>
<1> DEFINE D == OriginCharacters \cup {"4", "3"}
           p == <<"4", "4", "3">>
           q == <<":", "4", "4", "3">>
<1>1. p \in Seq(D) /\ p # <<>> /\ ":" \in D
  <2>1. p \in Seq(D) /\ Len(p) = 3
    OBVIOUS
  <2>2. ":" \in D
    BY DEF OriginCharacters
  <2>3. p # <<>>
    <3>1. Len(p) # Len(<<>>)
      BY <2>1
    <3> QED BY <3>1, Zenon
  <2> QED BY <2>1, <2>2, <2>3
<1>2. q = <<":">> \o p
  OBVIOUS
<1>3. c.port \in Seq(D)
  BY PartsText, SeqMonotonic
<1>4. After(":", p) = q
  <2> HIDE DEF p, q
  <2> QED BY <1>1, <1>2 DEF After
<1> HIDE DEF p, q
<1>5. ASSUME After(":", c.port) = q PROVE c.port = p
  <2> DEFINE none == <<>>
             t == none \o q
  <2>1. none \in Seq(D) /\ Without(none, {":"})
    BY DEF Without
  <2>2. Splits(D, t, none, ":", p) /\ Splits(D, t, none, ":", c.port)
    BY <1>1, <1>3, <1>4, <1>5, <2>1 DEF Splits
  <2> QED BY <2>2, OneSplit
<1> QED BY <1>4, <1>5 DEF p, q

(* The comparison of two hosts, with their ports and without. *)
LEMMA NamesCompare ==
  ASSUME NEW o \in Parts, IsOrigin(o), NEW c \in Parts, IsOrigin(c)
  PROVE  SameHost(HostName(o), HostName(c)) <=>
           /\ c.domain = o.domain
           /\ c.label = o.label \/ (c.label = <<"*">> /\ c.domain # <<>>)
<1> DEFINE r == After(".", o.domain)
           s == After(".", c.domain)
<1>1. /\ IsLabel(o.label) /\ IsRest(r) /\ HostName(o) = o.label \o r
      /\ IsLabel(c.label) /\ IsRest(s) /\ HostName(c) = c.label \o s
      /\ Dotted(s) <=> c.domain # <<>>
  BY HostSplit
<1>2. r = s => o.domain = c.domain
  BY SameDomain
<1>3. o.domain = c.domain => r = s
  OBVIOUS
<1> HIDE DEF r, s
<1>4. SameHost(HostName(o), HostName(c)) <=>
        IF c.label = <<"*">> /\ Dotted(s) THEN r = s ELSE HostName(o) = HostName(c)
  <2>1. IsHost(HostName(o), o.label, r) /\ IsHost(HostName(c), c.label, s)
    BY <1>1 DEF IsHost
  <2> QED BY <2>1, HostCompare
<1>5. HostName(o) = HostName(c) <=> o.label = c.label /\ o.domain = c.domain
  <2>1. HostName(o) = HostName(c) => o.label = c.label /\ o.domain = c.domain
    BY SameDomain
  <2>2. ASSUME o.label = c.label, o.domain = c.domain PROVE HostName(o) = HostName(c)
    BY <1>1, <1>3, <2>2
  <2> QED BY <2>1, <2>2
<1>6. CASE c.label = <<"*">> /\ c.domain # <<>>
  BY <1>1, <1>2, <1>3, <1>4, <1>6
<1>7. CASE ~(c.label = <<"*">> /\ c.domain # <<>>)
  <2>1. SameHost(HostName(o), HostName(c)) <=> HostName(o) = HostName(c)
    BY <1>1, <1>4, <1>7
  <2> QED BY <1>5, <1>7, <2>1
<1> QED BY <1>6, <1>7

(* The comparison of two hosts with their ports. *)
LEMMA HostsCompare ==
  ASSUME NEW o \in Parts, IsOrigin(o), NEW c \in Parts, IsOrigin(c)
  PROVE  SameHost(Host(o), Host(c)) <=>
           /\ c.port = o.port /\ c.domain = o.domain
           /\ c.label = o.label \/ (c.label = <<"*">> /\ c.domain # <<>>)
<1> DEFINE r == After(".", o.domain) \o After(":", o.port)
           s == After(".", c.domain) \o After(":", c.port)
<1>1. /\ IsLabel(o.label) /\ IsRest(r) /\ Host(o) = o.label \o r
      /\ IsLabel(c.label) /\ IsRest(s) /\ Host(c) = c.label \o s
      /\ Dotted(s) <=> c.domain # <<>>
  BY HostSplit
<1>2. r = s => o.domain = c.domain /\ o.port = c.port
  BY SameDomain
<1>3. o.domain = c.domain => (o.port = c.port => r = s)
  OBVIOUS
<1> HIDE DEF r, s
<1>4. SameHost(Host(o), Host(c)) <=>
        IF c.label = <<"*">> /\ Dotted(s) THEN r = s ELSE Host(o) = Host(c)
  <2>1. IsHost(Host(o), o.label, r) /\ IsHost(Host(c), c.label, s)
    BY <1>1 DEF IsHost
  <2> QED BY <2>1, HostCompare
<1>5. Host(o) = Host(c) <=> o.label = c.label /\ o.domain = c.domain /\ o.port = c.port
  <2>1. Host(o) = Host(c) => o.label = c.label /\ o.domain = c.domain /\ o.port = c.port
    BY SameDomain
  <2>2. ASSUME o.label = c.label, o.domain = c.domain, o.port = c.port PROVE Host(o) = Host(c)
    BY <1>1, <1>3, <2>2
  <2> QED BY <2>1, <2>2
<1>6. CASE c.label = <<"*">> /\ c.domain # <<>>
  BY <1>1, <1>2, <1>3, <1>4, <1>6
<1>7. CASE ~(c.label = <<"*">> /\ c.domain # <<>>)
  <2>1. SameHost(Host(o), Host(c)) <=> Host(o) = Host(c)
    BY <1>1, <1>4, <1>7
  <2> QED BY <1>5, <1>7, <2>1
<1> QED BY <1>6, <1>7

(* The host of an https origin is what follows the scheme. *)
LEMMA HostFollows ==
  ASSUME NEW o \in Parts, o.scheme = gHttpsProto
  PROVE  From(Written(o), Len(gHttpsProto) + 1) = Host(o)
BY WrittenText, PartsText, RestOfJoined

(* What is compared of the hosts. *)
Compared(o, c) ==
  LET origin_host == Host(o)
      host == Host(c)
      origin_colon == LastOf(origin_host, ":")
      host_colon == LastOf(host, ":")
  IN  << IF host_colon = 0 THEN WithoutPort(origin_host, origin_colon) ELSE origin_host,
         IF /\ host_colon # 0 /\ From(host, host_colon) = <<":", "4", "4", "3">>
            /\ origin_colon = 0
         THEN WithoutPort(host, host_colon) ELSE host >>

(* The ports are compared unless the candidate has none, or has 443 and    *)
(* the origin has none.                                                    *)
LEMMA WhatIsCompared ==
  ASSUME NEW o \in Parts, IsOrigin(o), NEW c \in Parts, IsOrigin(c)
  PROVE  Compared(o, c) =
           IF c.port = <<>> \/ (c.port = <<"4", "4", "3">> /\ o.port = <<>>)
           THEN <<HostName(o), HostName(c)>> ELSE <<Host(o), Host(c)>>
<1> DEFINE p == <<"4", "4", "3">>
           q == <<":", "4", "4", "3">>
<1>1. /\ WithoutPort(Host(o), LastOf(Host(o), ":")) = HostName(o)
      /\ o.port = <<>> => Host(o) = HostName(o)
  BY HostParts
<1>2. /\ WithoutPort(Host(c), LastOf(Host(c), ":")) = HostName(c)
      /\ c.port = <<>> => Host(c) = HostName(c)
      /\ c.port # <<>> => From(Host(c), LastOf(Host(c), ":")) = After(":", c.port)
  BY HostParts
<1>3. (LastOf(Host(c), ":") = 0 <=> c.port = <<>>) /\ (LastOf(Host(o), ":") = 0 <=> o.port = <<>>)
  <2>1. HostName(o) \in Seq(OriginCharacters) /\ HostName(c) \in Seq(OriginCharacters)
    BY WrittenText
  <2>2. Len(HostName(o)) + 1 # 0 /\ Len(HostName(c)) + 1 # 0
    BY <2>1
  <2> QED BY <2>2, ColonPlace
<1>4. After(":", c.port) = q <=> c.port = p
  BY HttpsPort
<1>5. p # <<>>
  <2>1. Len(p) # Len(<<>>)
    OBVIOUS
  <2> QED BY <2>1, Zenon
<1>6. Compared(o, c) =
        << IF LastOf(Host(c), ":") = 0 THEN WithoutPort(Host(o), LastOf(Host(o), ":")) ELSE Host(o),
           IF /\ LastOf(Host(c), ":") # 0 /\ From(Host(c), LastOf(Host(c), ":")) = q
              /\ LastOf(Host(o), ":") = 0
           THEN WithoutPort(Host(c), LastOf(Host(c), ":")) ELSE Host(c) >>
  BY Zenon DEF Compared, q
<1> HIDE DEF p, q
<1>7. CASE c.port = <<>>
  BY <1>1, <1>2, <1>3, <1>6, <1>7
<1>8. CASE c.port = p /\ o.port = <<>>
  BY <1>1, <1>2, <1>3, <1>4, <1>5, <1>6, <1>8 DEF p
<1>9. CASE c.port # <<>> /\ ~(c.port = p /\ o.port = <<>>)
  BY <1>2, <1>3, <1>4, <1>6, <1>9 DEF p
<1> QED BY <1>7, <1>8, <1>9

(* Of an https origin, the comparison says what its parts say. *)
LEMMA HostsMatch ==
  ASSUME NEW o \in Parts, IsOrigin(o), o.scheme = gHttpsProto,
         NEW c \in Parts, IsOrigin(c), c.scheme \in Schemes
  PROVE  host_matches(Written(o), Written(c)) <=> Covers(c, o)
<1>1. gHttpsProto \in Schemes
  BY SchemesText
<1>2. StartsWith(Written(o), gHttpsProto) /\ (StartsWith(Written(c), gHttpsProto) <=> c.scheme = gHttpsProto)
  BY <1>1, SchemeFound
<1>3. CASE c.scheme # gHttpsProto
  BY <1>2, <1>3 DEF host_matches, Covers
<1>4. CASE c.scheme = gHttpsProto
  <2>1. /\ From(Written(o), Len(gHttpsProto) + 1) = Host(o)
        /\ From(Written(c), Len(gHttpsProto) + 1) = Host(c)
    BY <1>4, HostFollows
  <2>2. host_matches(Written(o), Written(c)) <=> SameHost(Compared(o, c)[1], Compared(o, c)[2])
    BY <1>2, <1>4, <2>1 DEF host_matches, SameHost, Compared
  <2>3. Covers(c, o) <=>
          /\ c.port \in {<<>>, o.port} \/ (c.port = <<"4", "4", "3">> /\ o.port = <<>>)
          /\ c.domain = o.domain
          /\ c.label = o.label \/ (c.label = <<"*">> /\ c.domain # <<>>)
    BY <1>4 DEF Covers
  <2>4. CASE c.port = <<>> \/ (c.port = <<"4", "4", "3">> /\ o.port = <<>>)
    <3>1. SameHost(HostName(o), HostName(c)) <=> Covers(c, o)
      BY <2>3, <2>4, NamesCompare
    <3>2. Compared(o, c) = <<HostName(o), HostName(c)>>
      BY <2>4, WhatIsCompared
    <3> QED BY <2>2, <3>1, <3>2
  <2>5. CASE ~(c.port = <<>> \/ (c.port = <<"4", "4", "3">> /\ o.port = <<>>))
    <3>1. SameHost(Host(o), Host(c)) <=> Covers(c, o)
      BY <2>3, <2>5, HostsCompare
    <3>2. Compared(o, c) = <<Host(o), Host(c)>>
      BY <2>5, WhatIsCompared
    <3> QED BY <2>2, <3>1, <3>2
  <2> QED BY <2>4, <2>5
<1> QED BY <1>3, <1>4

(* What is written of an origin: its scheme, and then a host that is not empty. *)
LEMMA WrittenParts ==
  ASSUME NEW o \in Parts, IsOrigin(o)
  PROVE  /\ Len(o.scheme) \in Nat /\ Len(Host(o)) \in Nat /\ Len(Host(o)) >= 1
         /\ IsJoined(Written(o), o.scheme, Host(o), Len(o.scheme))
         /\ SubSeq(Written(o), 1, Len(o.scheme)) = o.scheme
         /\ StartsWith(Written(o), o.scheme)
<1> DEFINE D == OriginCharacters
           r == After(".", o.domain) \o After(":", o.port)
<1>1. /\ o.scheme \in Seq(D) /\ Host(o) \in Seq(D) /\ Written(o) = o.scheme \o Host(o)
  BY PartsText, WrittenText
<1>2. IsLabel(o.label) /\ IsRest(r) /\ Host(o) = o.label \o r
  BY HostSplit
<1> HIDE DEF r
<1>3. Host(o) # <<>>
  BY <1>2, LabelText
<1> HIDE DEF D
<1>4. Len(Host(o)) \in Nat /\ Len(Host(o)) >= 1 /\ Len(o.scheme) \in Nat
  BY <1>1, <1>3
<1>5. IsJoined(Written(o), o.scheme, Host(o), Len(o.scheme))
  BY <1>1, Joined
<1>6. SubSeq(Written(o), 1, Len(o.scheme)) = o.scheme /\ StartsWith(Written(o), o.scheme)
  BY <1>1, FrontOfJoined
<1> QED BY <1>4, <1>5, <1>6

(* A host whose parts have no "*" has none. *)
LEMMA HostStarless ==
  ASSUME NEW c \in Parts, Without(c.label, {"*"}), Without(c.domain, {"*"}), Without(c.port, {"*"})
  PROVE  Without(Host(c), {"*"})
<1> DEFINE D == OriginCharacters
           d == After(".", c.domain)
           p == After(":", c.port)
<1>1. /\ c.label \in Seq(D) /\ c.domain \in Seq(D) /\ c.port \in Seq(D) /\ "." \in D /\ ":" \in D
      /\ HostName(c) \in Seq(D) /\ p \in Seq(D)
  BY PartsText, WrittenText
<1>2. HostName(c) = c.label \o d /\ Host(c) = HostName(c) \o p
  BY DEF HostName, Host
<1>3. "." \notin {"*"} /\ ":" \notin {"*"}
  OBVIOUS
<1> HIDE DEF D
<1>4. d \in Seq(D) /\ Without(d, {"*"}) /\ Without(p, {"*"})
  BY <1>1, <1>3, AfterText, WithoutAfter
<1> HIDE DEF d, p
<1>5. Without(HostName(c), {"*"})
  BY <1>1, <1>2, <1>4, WithoutBoth
<1>6. Without(HostName(c) \o p, {"*"})
  <2> DEFINE h == HostName(c)
  <2>1. h \in Seq(D) /\ Without(h, {"*"}) /\ p \in Seq(D)
    BY <1>1, <1>5 DEF p
  <2> HIDE DEF h
  <2>2. Without(h \o p, {"*"})
    BY <1>4, <2>1, WithoutBoth
  <2> QED BY <2>2 DEF h
<1> QED BY <1>2, <1>6

(* A text that starts with the beginning of another one, starts with what  *)
(* this beginning starts with.                                             *)
LEMMA BeginningStarts ==
  ASSUME NEW D, NEW t \in Seq(D), NEW w \in Seq(D), NEW s \in Seq(D), NEW n \in Nat,
         Len(s) <= n, n <= Len(w), StartsWith(w, s), StartsWith(t, SubSeq(w, 1, n))
  PROVE  StartsWith(t, s)
<1> DEFINE b == SubSeq(w, 1, n)
<1>1. b \in Seq(D) /\ IsPart(b, w, 1, n)
  <2>1. n = 1 - 1 + n /\ 1 \in Nat \ {0}
    OBVIOUS
  <2> QED BY <2>1, PartRead
<1> HIDE DEF b
<1>2. \A k \in 1..n : 1 - 1 + k = k
  OBVIOUS
<1>3. Len(b) = n /\ \A k \in 1..n : b[k] = w[k]
  BY <1>1, <1>2 DEF IsPart
<1>4. n <= Len(t) /\ \A k \in 1..n : t[k] = b[k]
  <2>1. 1 - 1 + n <= Len(t) /\ \A k \in 1..n : t[1 - 1 + k] = b[k]
    BY <1>3 DEF StartsWith, PartAt, b
  <2> QED BY <1>2, <2>1
<1>5. Len(s) \in Nat /\ \A k \in 1..Len(s) : 1 - 1 + k = k /\ k \in 1..n
  OBVIOUS
<1>6. \A k \in 1..Len(s) : w[k] = s[k]
  BY <1>5 DEF StartsWith, PartAt
<1>7. 1 - 1 + Len(s) <= Len(t)
  BY <1>4, <1>5
<1>8. \A k \in 1..Len(s) : t[1 - 1 + k] = s[k]
  BY <1>3, <1>4, <1>5, <1>6
<1> QED BY <1>7, <1>8 DEF StartsWith, PartAt

(* No scheme is empty. *)
LEMMA SchemeNotEmpty ==
  ASSUME NEW s \in Schemes
  PROVE  Len(s) \in Nat /\ Len(s) >= 1
<1>1. s \in Seq(OriginCharacters) /\ gHttpsProto \in Schemes /\ Len(gHttpsProto) = 8
  BY SchemesText
<1>2. Len(s) \in Nat
  BY <1>1
<1>3. ASSUME Len(s) = 0 PROVE FALSE
  <2>1. s # gHttpsProto
    BY <1>1, <1>3
  <2>2. 1 - 1 + Len(s) <= Len(gHttpsProto) /\ \A k \in 1..Len(s) : FALSE
    BY <1>1, <1>3
  <2>3. StartsWith(gHttpsProto, s)
    BY <2>2 DEF StartsWith, PartAt
  <2>4. \A a \in Schemes : \A b \in Schemes \ {a} : ~StartsWith(b, a)
    BY ListsAssumption
  <2> QED BY <1>1, <2>1, <2>3, <2>4, Zenon
<1> QED BY <1>2, <1>3

(* Of another origin, the comparison says what its parts say. *)
LEMMA OriginsMatch ==
  ASSUME NEW o \in Parts, IsOrigin(o), o.scheme \in Schemes, o.scheme # gHttpsProto,
         NEW c \in Parts, IsCandidate(c), c.scheme \in Schemes
  PROVE  origin_matches(Written(o), Written(c)) <=> Covers(c, o)
<1> DEFINE w == Written(c)
           t == Written(o)
           n == Len(w)
           m == Len(c.scheme)
           k == Len(Host(c))
<1>1. /\ m \in Nat /\ k \in Nat /\ k >= 1 /\ m >= 1
      /\ IsJoined(w, c.scheme, Host(c), m)
      /\ SubSeq(w, 1, m) = c.scheme
      /\ StartsWith(w, c.scheme) /\ IsOrigin(c)
  BY WrittenParts, SchemeNotEmpty DEF IsCandidate
<1>2. w \in Seq(OriginCharacters) /\ t \in Seq(OriginCharacters) /\ c.scheme \in Seq(OriginCharacters)
  BY WrittenText, PartsText
<1>3. (StartsWith(t, c.scheme) <=> o.scheme = c.scheme) /\ gHttpsProto \in Schemes
  BY SchemeFound, SchemesText
<1>4. Len(t) \in Nat /\ Len(t) >= Len(o.scheme) + 1
  <2>1. /\ Len(o.scheme) \in Nat /\ Len(Host(o)) \in Nat /\ Len(Host(o)) >= 1
        /\ IsJoined(t, o.scheme, Host(o), Len(o.scheme))
    BY WrittenParts
  <2>2. Len(t) = Len(o.scheme) + Len(Host(o))
    BY <2>1 DEF IsJoined
  <2> QED BY <2>1, <2>2
<1>5. origin_matches(t, w) <=>
        IF n > 1 /\ w[n] = "*" THEN Len(t) >= n /\ StartsWith(t, SubSeq(w, 1, n - 1)) ELSE t = w
  BY DEF origin_matches
<1>6. n = m + k /\ \A i \in 1..k : w[m + i] = Host(c)[i]
  <2> HIDE DEF w, m, k
  <2> QED BY <1>1 DEF IsJoined, n, k
<1> HIDE DEF w, t, n, m, k
<1>7. CASE c.scheme = gHttpsProto
  <2>1. ~Covers(c, o) /\ ~StartsWith(t, c.scheme)
    BY <1>3, <1>7 DEF Covers
  <2>2. t # w
    BY <1>1, <2>1
  <2>3. ~StartsWith(t, SubSeq(w, 1, n - 1))
    <3> DEFINE j == n - 1
    <3>1. j \in Nat /\ Len(c.scheme) <= j /\ j <= Len(w)
      BY <1>1, <1>6 DEF m, n
    <3> HIDE DEF j
    <3>2. ~StartsWith(t, SubSeq(w, 1, j))
      BY <1>1, <1>2, <2>1, <3>1, BeginningStarts
    <3> QED BY <3>2 DEF j
  <2> QED BY <1>5, <2>1, <2>2, <2>3 DEF w, t
<1>8. CASE c.scheme # gHttpsProto /\ c.label = <<"*">> /\ c.domain = <<>> /\ c.port = <<>>
  <2>1. Covers(c, o) <=> c.scheme = o.scheme
    BY <1>8 DEF Covers
  <2>2. Host(c) = <<"*">>
    <3>1. After(".", c.domain) = <<>> /\ After(":", c.port) = <<>>
      BY <1>8 DEF After
    <3> DEFINE one == <<"*">>
    <3>2. one \in Seq({"*"})
      OBVIOUS
    <3>3. Host(c) = (one \o <<>>) \o <<>>
      BY <1>8, <3>1 DEF Host, HostName
    <3> HIDE DEF one
    <3>4. (one \o <<>>) \o <<>> = one
      BY <3>2, ConcatEmptySeq
    <3> QED BY <3>3, <3>4 DEF one
  <2>3. k = 1 /\ Host(c)[1] = "*"
    BY <2>2 DEF k
  <2>4. n = m + 1 /\ n > 1 /\ w[n] = "*" /\ n - 1 = m
    <3>1. n = m + 1 /\ 1 \in 1..k
      BY <1>6, <2>3
    <3> QED BY <1>1, <1>6, <2>3, <3>1
  <2>5. origin_matches(t, w) <=> Len(t) >= n /\ StartsWith(t, c.scheme)
    BY <1>1, <1>5, <2>4
  <2>6. ASSUME c.scheme = o.scheme PROVE Len(t) >= n
    BY <1>4, <2>4, <2>6 DEF m
  <2> QED BY <1>3, <2>1, <2>5, <2>6 DEF w, t
<1>9. CASE /\ c.scheme # gHttpsProto
           /\ Without(c.label, {"*"}) /\ Without(c.domain, {"*"}) /\ Without(c.port, {"*"})
  <2>1. w[n] # "*"
    <3>1. \A i \in 1..k : Host(c)[i] # "*"
      BY <1>9, HostStarless DEF Without, k
    <3>2. k \in 1..k
      BY <1>1
    <3> QED BY <1>6, <3>1, <3>2
  <2>2. origin_matches(t, w) <=> t = w
    BY <1>5, <2>1
  <2>3. c.label # <<"*">>
    <3>1. ASSUME c.label = <<"*">> PROVE FALSE
      <4>1. Len(c.label) = 1 /\ c.label[1] = "*"
        BY <3>1
      <4> QED BY <1>9, <4>1 DEF Without
    <3> QED BY <3>1
  <2>4. Covers(c, o) <=> c.scheme = o.scheme /\ c.label = o.label /\ c.domain = o.domain /\ c.port = o.port
    BY <1>9, <2>3 DEF Covers
  <2>5. c.label = o.label /\ c.domain = o.domain /\ c.port = o.port => Host(c) = Host(o)
    BY DEF Host, HostName
  <2>6. w = c.scheme \o Host(c) /\ t = o.scheme \o Host(o)
    BY WrittenText DEF w, t
  <2>7. ASSUME t = w
        PROVE  c.scheme = o.scheme /\ c.label = o.label /\ c.domain = o.domain /\ c.port = o.port
    <3>1. c.scheme = o.scheme
      BY <1>1, <1>3, <2>7
    <3>2. Host(c) = Host(o)
      <4> DEFINE x == c.scheme
                 y == Host(c)
                 z == Host(o)
      <4>1. /\ x \in Seq(OriginCharacters) /\ y \in Seq(OriginCharacters) /\ z \in Seq(OriginCharacters)
            /\ x \o y = x \o z
        BY <2>6, <2>7, <3>1, PartsText, WrittenText
      <4> HIDE DEF x, y, z
      <4>2. y = z
        BY <4>1, CancelFront
      <4> QED BY <4>2 DEF y, z
    <3> QED BY <1>1, <3>1, <3>2, SameDomain
  <2> QED BY <2>2, <2>4, <2>5, <2>6, <2>7 DEF w, t
<1> QED BY <1>7, <1>8, <1>9 DEF IsCandidate

(* A written list admits the origins that one of its candidates covers. *)
LEMMA ListAdmits ==
  ASSUME NEW list \in Seq(Parts), list # <<>>,
         \A i \in 1..Len(list) : list[i].scheme \in Schemes /\ IsCandidate(list[i]),
         NEW o \in Parts, IsOrigin(o), o.scheme \in Schemes
  PROVE  is_uri_in_list(Written(o), WrittenList(list)) <=> \E i \in 1..Len(list) : Covers(list[i], o)
<1>1. \A i \in 1..Len(list) : Without(Written(list[i]), {Space})
  <2> SUFFICES ASSUME NEW i \in 1..Len(list) PROVE Without(Written(list[i]), {Space})
    OBVIOUS
  <2>1. list[i] \in Parts /\ IsOrigin(list[i]) /\ list[i].scheme \in Schemes
    BY DEF IsCandidate
  <2>2. Without(list[i].scheme, {Space})
    BY <2>1, SchemesText
  <2> QED BY <2>1, <2>2, WrittenSpaceless
<1>2. Candidates(WrittenList(list)) = {Written(list[i]) : i \in 1..Len(list)}
  BY <1>1, ListedCandidates
<1>3. StartsWith(Written(o), gHttpsProto) <=> o.scheme = gHttpsProto
  BY SchemesText, SchemeFound
<1>4. is_uri_in_list(Written(o), WrittenList(list)) <=>
        \E i \in 1..Len(list) :
          IF StartsWith(Written(o), gHttpsProto) THEN host_matches(Written(o), Written(list[i]))
          ELSE origin_matches(Written(o), Written(list[i]))
  BY <1>2 DEF is_uri_in_list
<1>5. ASSUME NEW i \in 1..Len(list)
      PROVE  (IF StartsWith(Written(o), gHttpsProto) THEN host_matches(Written(o), Written(list[i]))
              ELSE origin_matches(Written(o), Written(list[i]))) <=> Covers(list[i], o)
  <2>1. list[i] \in Parts /\ IsCandidate(list[i]) /\ IsOrigin(list[i]) /\ list[i].scheme \in Schemes
    BY DEF IsCandidate
  <2>2. CASE o.scheme = gHttpsProto
    <3>1. host_matches(Written(o), Written(list[i])) <=> Covers(list[i], o)
      BY <2>1, <2>2, HostsMatch
    <3> QED BY <1>3, <2>2, <3>1
  <2>3. CASE o.scheme # gHttpsProto
    <3>1. origin_matches(Written(o), Written(list[i])) <=> Covers(list[i], o)
      BY <2>1, <2>3, OriginsMatch
    <3> QED BY <1>3, <2>3, <3>1
  <2> QED BY <2>2, <2>3
<1> QED BY <1>4, <1>5

(* Once an origin is admitted, it is not refused later. *)
LEMMA HandlerAnswers ==
  ASSUME NEW form, NEW method
  PROVE  Handler(form, method) # "refused"
<1>1. Handler(form, method) \in {"stop", "start", "status", "hide", "data_body", "data_query", "501"}
  BY Zenon DEF Handler
<1> QED BY <1>1

(* Requests whose origin is checked as their application's list says. *)
LEMMA Checked ==
  ASSUME NEW r \in Requests, Names(r), SaysOrigin(r), r.form = "data" => r.local
  PROVE  Outcome(r) = "refused" <=>
           /\ r.origin # <<>>
           /\ \/ r.app \notin DOMAIN Lists
              \/ Lists[r.app] # <<>>
                 /\ \A i \in 1..Len(Lists[r.app]) : ~Covers(Lists[r.app][i], r.from)
<1>1. Route(r.uri) = [form |-> r.form, app |-> r.app]
  BY Routed
<1>2. r.form # "none"
  BY DEF Names
<1>3. Outcome(r) = "refused" <=> ~is_allowed_origin(r, r.app)
  <2>1. Route(r.uri).form = r.form /\ Route(r.uri).app = r.app
    BY <1>1
  <2>2. CASE ~is_allowed_origin(r, r.app)
    <3>1. Outcome(r) = "refused"
      BY <1>2, <2>1, <2>2 DEF Outcome
    <3> QED BY <2>2, <3>1
  <2>3. CASE is_allowed_origin(r, r.app)
    <3>1. Outcome(r) = IF r.method = "OPTIONS" THEN "204" ELSE Handler(r.form, r.method)
      BY <1>2, <2>1, <2>3, Zenon DEF Outcome
    <3>2. "204" # "refused"
      OBVIOUS
    <3> QED BY <2>3, <3>1, <3>2, HandlerAnswers
  <2> QED BY <2>2, <2>3
<1>4. CASE r.origin = <<>>
  BY <1>3, <1>4 DEF is_allowed_origin
<1>5. CASE r.origin # <<>> /\ r.app \notin DOMAIN Lists
  BY <1>3, <1>5 DEF is_allowed_origin
<1>6. CASE r.origin # <<>> /\ r.app \in DOMAIN Lists /\ Lists[r.app] = <<>>
  BY <1>3, <1>6 DEF is_allowed_origin
<1>7. CASE r.origin # <<>> /\ r.app \in DOMAIN Lists /\ Lists[r.app] # <<>>
  <2> DEFINE list == Lists[r.app]
  <2>1. /\ list \in Seq(Parts) /\ list # <<>>
        /\ \A i \in 1..Len(list) : list[i].scheme \in Schemes /\ IsCandidate(list[i])
    BY <1>7, ListsAssumption
  <2>2. r.from \in Parts /\ IsOrigin(r.from) /\ r.from.scheme \in Schemes /\ r.origin = Written(r.from)
    BY <1>7, RestAssumption DEF SaysOrigin
  <2>3. is_allowed_origin(r, r.app) <=> is_uri_in_list(Written(r.from), WrittenList(list))
    BY <1>7, <2>2 DEF is_allowed_origin
  <2> HIDE DEF list
  <2>4. is_uri_in_list(Written(r.from), WrittenList(list)) <=> \E i \in 1..Len(list) : Covers(list[i], r.from)
    BY <2>1, <2>2, ListAdmits
  <2> QED BY <1>3, <1>7, <2>3, <2>4 DEF list
<1> QED BY <1>4, <1>5, <1>6, <1>7

(* Whatever lists are registered, request_handler refuses an origin exactly *)
(* if the application's list does not cover it, by its parts.              *)
THEOREM OriginChecked == RestSpec => []OriginAsListed
<1>1. TypeOK => OriginAsListed
  <2> SUFFICES ASSUME TypeOK PROVE OriginAsListed
    OBVIOUS
  <2>1. req \in Requests
    BY DEF TypeOK
  <2> QED BY <2>1, Checked DEF OriginAsListed
<1> QED BY <1>1, HandlerIsCallback, TypeCorrect, PTL
=============================================================================
