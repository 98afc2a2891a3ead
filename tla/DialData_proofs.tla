-------------------------- MODULE DialData_proofs --------------------------
(* Theorems about DialData, for all keys, values and bounds. *)
EXTENDS DialData, Induction_proofs

Readable == {<<w>> : w \in Words} \X (Words \cup {Empty})

(* A list whose keys are one word each. *)
Plain(list) == \A i \in 1..Len(list) : Len(list[i][1]) = 1

(* The two words of a pair with such a key. *)
First(p) == Truncated(p[1])[1]
Second(p) == Truncated(<<p[2]>>)[1]

(* The words are those of the first n pairs of a plain list. *)
Holds(words, list, n) ==
  /\ Len(words) = 2 * n
  /\ \A i \in 1..n : words[2 * i - 1] = First(list[i]) /\ words[2 * i] = Second(list[i])

-----------------------------------------------------------------------------
(* The invariant. *)

(* While a request is stored, the list is the one it was parsed into. *)
Replaced == place \in {"open", "print"} => dial_data = latest

(* Opening the file has emptied it.  The lines in the buffer are those of  *)
(* the pairs that have been printed.                                       *)
Opened ==
  /\ place = "open" => file = before
  /\ place = "print" => file = <<>>

Printed ==
  place = "print" =>
    \E n \in 0..Len(latest) :
      /\ unprinted = SubSeq(latest, n + 1, Len(latest))
      /\ buffer = Lines(latest)[n]
      /\ Plain(latest) => Holds(buffer, latest, n)

(* What was acknowledged is in the file ... *)
Acknowledged ==
  place \in {"idle", "down"} /\ ~torn /\ Plain(latest) => Holds(file, latest, Len(latest))

(* ... and in memory. *)
IInv ==
  /\ TypeOK /\ Replaced /\ Opened /\ Printed /\ Acknowledged
  /\ FileIsOldOrPart /\ PlainPairsSurvive

-----------------------------------------------------------------------------
(* The operators. *)

LEMMA KeyWords ==
  ASSUME NEW p \in Pairs
  PROVE  /\ p[1] \in Keys /\ p[2] \in Values
         /\ p[1] # <<>> /\ p[1] \in Seq(ToSet(p[1]))
BY WordsAssumption DEF Pairs

(* A word is cut to a word, which is not cut again. *)
LEMMA TruncatedWord ==
  ASSUME NEW w
  PROVE  /\ Truncated(<<w>>) = <<Truncated(<<w>>)[1]>>
         /\ Truncated(Truncated(<<w>>)) = Truncated(<<w>>)
<1>1. CASE Short(w)
  BY <1>1 DEF Truncated, Short
<1>2. CASE ~Short(w)
  <2> DEFINE c == Cut[<<w>>]
  <2>1. <<w>> \in DOMAIN Cut /\ Len(<<w>>) = 1
    BY <1>2 DEF Short
  <2>2. c \in Seq(ToSet(c)) /\ Len(c) = 1 /\ \A v \in ToSet(c) : Short(v)
    BY <2>1, WordsAssumption
  <2>3. Truncated(<<w>>) = c
    BY <2>1 DEF Truncated
  <2> HIDE DEF c
  <2>4. c = <<c[1]>> /\ c[1] \in ToSet(c)
    BY <2>2
  <2>5. c \notin DOMAIN Cut
    BY <2>2, <2>4 DEF Short
  <2> QED
    BY <2>3, <2>4, <2>5 DEF Truncated
<1> QED
  BY <1>1, <1>2

(* A short word of a value, or of the beginning of a text that is cut. *)
LEMMA ShortWords ==
  ASSUME NEW w, Short(w),
         w \in Values \/ w \in UNION {ToSet(Cut[t]) : t \in DOMAIN Cut}
  PROVE  w \in Words
<1> DEFINE K == UNION {ToSet(k) : k \in Keys}
           C == UNION {ToSet(Cut[t]) : t \in DOMAIN Cut}
<1>1. w \in Known
  <2>1. Known = (K \cup Values) \cup C
    BY DEF Known
  <2>2. w \in Values \/ w \in C
    OBVIOUS
  <2> HIDE DEF K, C
  <2> QED
    BY <2>1, <2>2
<1> QED
  BY <1>1 DEF Words

(* What is printed of a key or of a value consists of short words. *)
LEMMA TruncatedShort ==
  ASSUME NEW text \in Keys \cup {<<v>> : v \in Values}
  PROVE  Truncated(text) \in Seq(Words)
<1>1. CASE text \in DOMAIN Cut
  <2> DEFINE c == Cut[text]
  <2>1. c \in Seq(ToSet(c)) /\ \A w \in ToSet(c) : Short(w)
    BY <1>1, WordsAssumption
  <2>2. ToSet(c) \subseteq Words
    <3>1. ToSet(c) \in {ToSet(Cut[t]) : t \in DOMAIN Cut}
      BY <1>1
    <3> HIDE DEF c
    <3>2. \A w \in ToSet(c) : w \in UNION {ToSet(Cut[t]) : t \in DOMAIN Cut}
      BY <3>1, Zenon
    <3> QED
      BY <2>1, <3>2, ShortWords
  <2>3. Truncated(text) = c
    BY <1>1 DEF Truncated
  <2> HIDE DEF c
  <2> QED
    BY <2>1, <2>2, <2>3
<1>2. CASE text \notin DOMAIN Cut /\ text \in Keys
  <2>1. text \in Seq(ToSet(text)) /\ \A w \in ToSet(text) : Short(w)
    BY <1>2, WordsAssumption
  <2>2. ToSet(text) \subseteq Words
    BY <1>2, <2>1 DEF Words, Known
  <2> QED
    BY <1>2, <2>1, <2>2 DEF Truncated
<1>3. CASE text \notin DOMAIN Cut /\ text \notin Keys
  <2>1. PICK v \in Values : text = <<v>>
    BY <1>3
  <2>2. Short(v)
    BY <1>3, <2>1 DEF Short
  <2>3. v \in Words
    BY <2>2, ShortWords
  <2> QED
    BY <1>3, <2>1, <2>3 DEF Truncated
<1> QED
  BY <1>1, <1>2, <1>3

LEMMA LineOfWords ==
  ASSUME NEW p \in Pairs
  PROVE  Line(p) \in Seq(Words)
<1>1. p[1] \in Keys /\ p[2] \in Values
  BY KeyWords
<1>2. Truncated(p[1]) \in Seq(Words) /\ Truncated(<<p[2]>>) \in Seq(Words)
  BY <1>1, TruncatedShort
<1> QED
  BY <1>2 DEF Line

(* The lines of a list, one after another. *)
LEMMA LinesUnfold ==
  ASSUME NEW list \in Seq(Pairs)
  PROVE  /\ Lines(list)[0] = <<>>
         /\ \A n \in 1..Len(list) : Lines(list)[n] = Lines(list)[n - 1] \o Line(list[n])
<1> DEFINE N == Len(list)
           S == Seq(Words)
           step == [i \in 1..N |-> [s \in S |-> s \o Line(list[i])]]
           Is(f) == f = [n \in 0..N |-> IF n = 0 THEN <<>> ELSE f[n - 1] \o Line(list[n])]
<1>1. N \in Nat /\ <<>> \in S
  OBVIOUS
<1>2. \A i \in 1..N : Line(list[i]) \in S
  <2> TAKE i \in 1..N
  <2>1. list[i] \in Pairs
    BY <1>1
  <2> QED BY <2>1, LineOfWords
<1>3. step \in [1..N -> [S -> S]]
  BY <1>2
<1>4. PICK f : Forward(f, N, S, <<>>, step)
  <2> HIDE DEF step, S, N
  <2> QED BY <1>1, <1>3, ForwardRecursion
<1>5. \A i \in 1..N : f[i] = f[i - 1] \o Line(list[i])
  <2> TAKE i \in 1..N
  <2>1. i - 1 \in 0..N
    BY <1>1
  <2>2. f[i - 1] \in S
    BY <1>4, <2>1 DEF Forward
  <2> QED BY <1>4, <2>2 DEF Forward
<1>6. Is(f)
  <2> HIDE DEF N, S
  <2> DEFINE g == [n \in 0..N |-> IF n = 0 THEN <<>> ELSE f[n - 1] \o Line(list[n])]
  <2>1. ASSUME NEW n \in 0..N PROVE f[n] = g[n]
    <3>1. CASE n = 0
      BY <1>4, <3>1 DEF Forward
    <3>2. CASE n # 0
      <4>1. n \in 1..N
        BY <1>1, <3>2
      <4> QED BY <1>5, <3>2, <4>1
    <3> QED BY <3>1, <3>2
  <2> QED BY <1>4, <2>1 DEF Forward
<1>7. Lines(list) = CHOOSE upto : Is(upto)
  BY DEF Lines
<1> HIDE DEF Is
<1>8. Is(Lines(list))
  BY <1>6, <1>7
<1>9. \A n \in 0..N : Lines(list)[n] = IF n = 0 THEN <<>> ELSE Lines(list)[n - 1] \o Line(list[n])
  <2> DEFINE L == Lines(list)
  <2>1. Is(L)
    BY <1>8
  <2> HIDE DEF L, N
  <2>2. \A n \in 0..N : L[n] = IF n = 0 THEN <<>> ELSE L[n - 1] \o Line(list[n])
    BY <2>1 DEF Is
  <2> QED BY <2>2 DEF L
<1>10. 0 \in 0..N /\ \A n \in 1..N : n \in 0..N /\ n # 0
  BY <1>1
<1> QED BY <1>9, <1>10

(* The line of a pair with a plain key. *)
LEMMA PlainLine ==
  ASSUME NEW p, p[1] = <<p[1][1]>>
  PROVE  Line(p) = Append(<<First(p)>>, Second(p))
<1>1. Truncated(p[1]) = <<First(p)>>
  BY TruncatedWord DEF First
<1>2. Truncated(<<p[2]>>) = <<Second(p)>>
  BY TruncatedWord DEF Second
<1>3. Line(p) = <<First(p)>> \o <<Second(p)>>
  BY <1>1, <1>2 DEF Line
<1>4. \A a, b : <<a>> \o <<b>> = Append(<<a>>, b)
  OBVIOUS
<1> QED
  BY <1>3, <1>4

(* A key with one word is that word. *)
LEMMA PlainKey ==
  ASSUME NEW p \in Pairs, Len(p[1]) = 1
  PROVE  p[1] = <<p[1][1]>>
BY KeyWords

(* One more pair is printed. *)
LEMMA HoldsMore ==
  ASSUME NEW S, NEW words \in Seq(S), NEW list, NEW n \in Nat, Holds(words, list, n),
         First(list[n + 1]) \in S, Second(list[n + 1]) \in S,
         list[n + 1][1] = <<list[n + 1][1][1]>>
  PROVE  Holds(words \o Line(list[n + 1]), list, n + 1)
<1> DEFINE a == First(list[n + 1])
           b == Second(list[n + 1])
<1>1. Line(list[n + 1]) = Append(<<a>>, b)
  BY PlainLine
<1>2. a \in S /\ b \in S
  OBVIOUS
<1> HIDE DEF a, b
<1>3. /\ Append(<<a>>, b) \in Seq(S) /\ Len(Append(<<a>>, b)) = 2
      /\ Append(<<a>>, b)[1] = a /\ Append(<<a>>, b)[2] = b
  BY <1>2
<1> DEFINE more == words \o Append(<<a>>, b)
<1>4. Len(words) = 2 * n
  BY DEF Holds
<1>5. Len(more) = 2 * (n + 1)
  BY <1>3, <1>4
<1>6. \A i \in 1..2 * n : more[i] = words[i]
  BY <1>3, <1>4
<1>7. more[2 * n + 1] = a /\ more[2 * n + 2] = b
  BY <1>3, <1>4
<1> HIDE DEF more
<1>8. ASSUME NEW i \in 1..n + 1
      PROVE  more[2 * i - 1] = First(list[i]) /\ more[2 * i] = Second(list[i])
  <2>1. CASE i = n + 1
    <3>1. 2 * i - 1 = 2 * n + 1 /\ 2 * i = 2 * n + 2
      BY <2>1
    <3> QED
      BY <1>7, <2>1, <3>1 DEF a, b
  <2>2. CASE i # n + 1
    <3>1. i \in 1..n /\ 2 * i - 1 \in 1..2 * n /\ 2 * i \in 1..2 * n
      BY <2>2
    <3> QED
      BY <1>6, <3>1 DEF Holds
  <2> QED
    BY <2>1, <2>2
<1> QED
  BY <1>1, <1>5, <1>8 DEF Holds, more

LEMMA RequestList ==
  ASSUME NEW pairs \in Requests
  PROVE  parse_params(pairs) \in Seq(Pairs)
<1>1. PICK n \in 0..MaxPairs : pairs \in [1..n -> Pairs]
  BY DEF Requests
<1>2. pairs \in Seq(Pairs) /\ Len(pairs) = n /\ n \in Nat
  BY <1>1, BoundsAssumption
<1>3. \A i \in 1..n : (n - i) + 1 \in 1..n
  BY <1>2
<1>4. \A i \in 1..n : pairs[(n - i) + 1] \in Pairs
  BY <1>1, <1>3
<1>5. Reverse(pairs) = [i \in 1..n |-> pairs[(n - i) + 1]]
  BY <1>2 DEF Reverse
<1> QED
  BY <1>2, <1>4, <1>5 DEF parse_params

(* What retrieve_dial_data reads, pair by pair. *)
ValueAt(i) ==
  IF 2 * i <= Len(file) THEN file[2 * i]
  ELSE IF i > 1 THEN file[2 * i - 2] ELSE Empty

Count == (Len(file) + 1) \div 2

LEMMA Retrieved ==
  ASSUME file \in Seq(Words)
  PROVE  /\ retrieve_dial_data \in Seq(Readable)
         /\ Len(retrieve_dial_data) = Count
         /\ \A i \in 1..Count :
              retrieve_dial_data[i] =
                <<<<file[2 * (Count - i + 1) - 1]>>, ValueAt(Count - i + 1)>>
<1> DEFINE read == [i \in 1..Count |-> <<<<file[2 * i - 1]>>, ValueAt(i)>>]
<1>1. Len(file) \in Nat /\ Count \in Nat
  BY DEF Count
<1>2. \A i \in 1..Count : <<<<file[2 * i - 1]>>, ValueAt(i)>> \in Readable
  <2> TAKE i \in 1..Count
  <2>1. 2 * i - 1 \in 1..Len(file)
    BY <1>1 DEF Count
  <2>2. file[2 * i - 1] \in Words
    BY <2>1
  <2>3. i > 1 => 2 * i - 2 \in 1..Len(file)
    BY <2>1
  <2>4. 2 * i <= Len(file) => 2 * i \in 1..Len(file)
    BY <1>1
  <2>5. ValueAt(i) \in Words \cup {Empty}
    BY <2>3, <2>4 DEF ValueAt
  <2> QED
    BY <2>2, <2>5 DEF Readable
<1>3. read \in Seq(Readable) /\ Len(read) = Count
  BY <1>1, <1>2
<1>4. retrieve_dial_data = Reverse(read)
  BY DEF retrieve_dial_data, Count, ValueAt
<1> HIDE DEF read
<1>5. Reverse(read) = [i \in 1..Count |-> read[(Count - i) + 1]]
  BY <1>3 DEF Reverse
<1>6. \A i \in 1..Count : (Count - i) + 1 \in 1..Count
  BY <1>1
<1>7. \A i \in 1..Count : read[(Count - i) + 1] \in Readable
  BY <1>3, <1>6
<1>8. Reverse(read) \in Seq(Readable) /\ Len(Reverse(read)) = Count
  BY <1>1, <1>5, <1>7
<1>9. \A i \in 1..Count :
        Reverse(read)[i] =
          <<<<file[2 * (Count - i + 1) - 1]>>, ValueAt(Count - i + 1)>>
  BY <1>5, <1>6 DEF read
<1> QED
  BY <1>4, <1>8, <1>9

(* A file that holds a plain list is read back as that list, truncated and *)
(* in the opposite order.                                                  *)
LEMMA PlainBack ==
  ASSUME file \in Seq(Words), NEW list \in Seq(Pairs), Plain(list),
         Holds(file, list, Len(list))
  PROVE  Stored(retrieve_dial_data) = Reverse(Stored(list))
<1> DEFINE n == Len(list)
           back == retrieve_dial_data
<1>1. n \in Nat /\ Len(file) = 2 * n
  BY DEF Holds
<1>2. Count = n
  BY <1>1 DEF Count
<1>3. Len(back) = n
  BY <1>2, Retrieved
<1>4. ASSUME NEW i \in 1..n
      PROVE  Line(back[i]) = Line(list[(n - i) + 1])
  <2> DEFINE j == (n - i) + 1
  <2>1. j \in 1..n /\ 2 * j <= Len(file)
    BY <1>1
  <2>2. back[i] = <<<<file[2 * j - 1]>>, file[2 * j]>>
    <3>1. back[i] = <<<<file[2 * (Count - i + 1) - 1]>>, ValueAt(Count - i + 1)>>
      BY <1>2, Retrieved
    <3>2. Count - i + 1 = j
      BY <1>1, <1>2
    <3> QED
      BY <2>1, <3>1, <3>2 DEF ValueAt
  <2>3. file[2 * j - 1] = First(list[j]) /\ file[2 * j] = Second(list[j])
    BY <2>1 DEF Holds
  <2> HIDE DEF j
  <2>4. back[i][1] = <<First(list[j])>> /\ back[i][2] = Second(list[j])
    BY <2>2, <2>3
  <2>5. back[i][1] = <<back[i][1][1]>>
    BY <2>4
  <2>p. list[j] \in Pairs /\ list[j][1] = <<list[j][1][1]>>
    BY <2>1, PlainKey DEF Plain
  <2>6. First(back[i]) = First(list[j]) /\ Second(back[i]) = Second(list[j])
    <3>1. Truncated(list[j][1]) = <<First(list[j])>>
      BY <2>p, TruncatedWord DEF First
    <3>2. Truncated(<<First(list[j])>>) = <<First(list[j])>>
      BY <2>p, <3>1, TruncatedWord
    <3>3. Truncated(<<Second(list[j])>>) = <<Second(list[j])>>
      BY TruncatedWord DEF Second
    <3>4. First(back[i]) = First(list[j])
      BY <2>4, <3>2 DEF First
    <3>5. Second(back[i]) = Second(list[j])
      BY <2>4, <3>3 DEF Second
    <3> QED
      BY <3>4, <3>5
  <2>7. Line(back[i]) = Append(<<First(back[i])>>, Second(back[i]))
    BY <2>5, PlainLine
  <2>8. Line(list[j]) = Append(<<First(list[j])>>, Second(list[j]))
    BY <2>p, PlainLine
  <2>9. Line(back[i]) = Line(list[j])
    BY <2>6, <2>7, <2>8
  <2> QED
    BY <2>9 DEF j
<1> HIDE DEF back
<1>5. Stored(back) = [i \in 1..n |-> Line(list[(n - i) + 1])]
  BY <1>3, <1>4 DEF Stored
<1>6. Len(Stored(list)) = n
  <2>1. \A i \in 1..n : list[i] \in Pairs
    BY <1>1
  <2>2. \A i \in 1..n : Line(list[i]) \in Seq(Words)
    BY <2>1, LineOfWords
  <2>3. [i \in 1..n |-> Line(list[i])] \in Seq(Seq(Words))
    BY <1>1, <2>2
  <2> QED
    BY <1>1, <2>3 DEF Stored
<1>7. Reverse(Stored(list)) = [i \in 1..n |-> Line(list[(n - i) + 1])]
  <2>1. Reverse(Stored(list)) = [i \in 1..n |-> Stored(list)[(n - i) + 1]]
    BY <1>6 DEF Reverse
  <2>2. \A i \in 1..n : (n - i) + 1 \in 1..n
    BY <1>1
  <2>3. \A i \in 1..n : Stored(list)[(n - i) + 1] = Line(list[(n - i) + 1])
    BY <2>2 DEF Stored
  <2> QED
    BY <2>1, <2>3
<1> QED
  BY <1>5, <1>7 DEF back

-----------------------------------------------------------------------------
(* The invariant holds at first and after every step. *)

LEMMA FileKept ==
  ASSUME FileIsOldOrPart, UNCHANGED <<file, latest, before>>
  PROVE  FileIsOldOrPart'
BY DEF FileIsOldOrPart

LEMMA InitHolds == Init => IInv
<1> SUFFICES ASSUME Init PROVE IInv
  OBVIOUS
<1>1. TypeOK
  <2>1. /\ <<>> \in Seq(Words) /\ <<>> \in Seq(Pairs)
        /\ <<>> \in Seq(Pairs \cup ({<<w>> : w \in Words} \X (Words \cup {Empty})))
    OBVIOUS
  <2>2. 0 \in 0..MaxPosts
    BY BoundsAssumption
  <2> QED
    BY <2>1, <2>2 DEF Init, TypeOK
<1>2. Holds(<<>>, <<>>, 0) /\ Len(<<>>) = 0
  BY DEF Holds
<1>3. Kept
  BY DEF Init, Kept, Stored
<1>4. FileIsOldOrPart
  BY DEF Init, FileIsOldOrPart
<1> QED
  BY <1>1, <1>2, <1>3, <1>4
  DEF Init, IInv, Replaced, Opened, Printed, Acknowledged, PlainPairsSurvive

LEMMA PostHolds ==
  ASSUME IInv, NEW pairs \in Requests, Post(pairs)
  PROVE  IInv'
<1>1. parse_params(pairs) \in Seq(Pairs)
  BY RequestList
<1>2. TypeOK'
  <2>1. parse_params(pairs) \in Seq(Pairs \cup ({<<w>> : w \in Words} \X (Words \cup {Empty})))
    BY <1>1
  <2>2. posts + 1 \in 0..MaxPosts
    BY BoundsAssumption DEF IInv, TypeOK, Post
  <2> QED
    BY <1>1, <2>1, <2>2 DEF IInv, TypeOK, Post
<1>3. FileIsOldOrPart'
  BY DEF Post, FileIsOldOrPart
<1> QED
  BY <1>2, <1>3 DEF IInv, Post, Replaced, Opened, Printed, Acknowledged, PlainPairsSurvive

LEMMA OpenHolds ==
  ASSUME IInv, Open
  PROVE  IInv'
<1>1. TypeOK'
  BY DEF IInv, TypeOK, Open, history
<1>2. dial_data = latest /\ latest \in Seq(Pairs)
  BY DEF IInv, TypeOK, Open, Replaced
<1>3. Printed'
  <2>1. latest = SubSeq(latest, 0 + 1, Len(latest)) /\ 0 \in 0..Len(latest)
    BY <1>2
  <2>2. Holds(<<>>, latest, 0)
    BY DEF Holds
  <2>3. Lines(latest)[0] = <<>>
    BY <1>2, LinesUnfold
  <2> QED
    BY <1>2, <2>1, <2>2, <2>3 DEF Open, Printed, history
<1>4. FileIsOldOrPart'
  <2>1. Lines(latest)[0] = <<>>
    BY <1>2, LinesUnfold
  <2>2. 0 \in 0..Len(latest)
    BY <1>2
  <2> QED
    BY <2>1, <2>2 DEF Open, FileIsOldOrPart, history
<1> QED
  BY <1>1, <1>2, <1>3, <1>4
  DEF IInv, Open, Replaced, Opened, Acknowledged, PlainPairsSurvive, history

LEMMA OpenFailsHolds ==
  ASSUME IInv, OpenFails
  PROVE  IInv'
<1>1. TypeOK'
  BY DEF IInv, TypeOK, OpenFails, history
<1>2. FileIsOldOrPart'
  BY FileKept DEF IInv, OpenFails, history
<1> QED
  BY <1>1, <1>2
  DEF IInv, OpenFails, Replaced, Opened, Printed, Acknowledged, PlainPairsSurvive, history

LEMMA PrintLineHolds ==
  ASSUME IInv, PrintLine
  PROVE  IInv'
<1>1. PICK n \in 0..Len(latest) :
        /\ unprinted = SubSeq(latest, n + 1, Len(latest))
        /\ buffer = Lines(latest)[n]
        /\ Plain(latest) => Holds(buffer, latest, n)
  BY DEF IInv, Printed, PrintLine
<1>2. latest \in Seq(Pairs) /\ buffer \in Seq(Words) /\ Len(latest) \in Nat
  BY DEF IInv, TypeOK
<1>3. n + 1 \in 1..Len(latest) /\ n \in Nat
  BY <1>1, <1>2 DEF PrintLine
<1>4. Head(unprinted) = latest[n + 1] /\ latest[n + 1] \in Pairs
  BY <1>1, <1>2, <1>3
<1>5. Tail(unprinted) = SubSeq(latest, n + 2, Len(latest))
  BY <1>1, <1>2, <1>3
<1>6. Line(latest[n + 1]) \in Seq(Words)
  BY <1>4, LineOfWords
<1>7. TypeOK'
  <2>1. buffer \o Line(latest[n + 1]) \in Seq(Words)
    BY <1>2, <1>6
  <2>2. Tail(unprinted) \in Seq(Pairs \cup ({<<w>> : w \in Words} \X (Words \cup {Empty})))
    BY DEF IInv, TypeOK, PrintLine
  <2> QED
    BY <1>4, <2>1, <2>2 DEF IInv, TypeOK, PrintLine, history
<1>8. Printed'
  <2>1. ASSUME Plain(latest)
        PROVE  Holds(buffer \o Line(latest[n + 1]), latest, n + 1)
    <3>1. latest[n + 1][1] = <<latest[n + 1][1][1]>>
      BY <1>3, <1>4, <2>1, PlainKey DEF Plain
    <3>2. Holds(buffer, latest, n)
      BY <1>1, <2>1
    <3>a. /\ Truncated(latest[n + 1][1]) \in Seq(Words)
          /\ Truncated(<<latest[n + 1][2]>>) \in Seq(Words)
      BY <1>4, KeyWords, TruncatedShort
    <3>3. First(latest[n + 1]) \in Words
      <4>1. Truncated(latest[n + 1][1]) = <<First(latest[n + 1])>>
        BY <3>1, TruncatedWord DEF First
      <4> QED
        BY <3>a, <4>1
    <3>4. Second(latest[n + 1]) \in Words
      <4> DEFINE s == Truncated(<<latest[n + 1][2]>>)
      <4>1. s = <<s[1]>>
        BY TruncatedWord
      <4>2. s \in Seq(Words)
        BY <3>a
      <4> HIDE DEF s
      <4>3. s[1] \in Words
        BY <4>1, <4>2
      <4> QED
        BY <4>3 DEF s, Second
    <3> QED
      BY <1>2, <1>3, <3>1, <3>2, <3>3, <3>4, HoldsMore
  <2>2. n + 1 \in 0..Len(latest) /\ (n + 1) + 1 = n + 2 /\ (n + 1) - 1 = n
    BY <1>2, <1>3
  <2>3. buffer \o Line(latest[n + 1]) = Lines(latest)[n + 1]
    BY <1>1, <1>2, <1>3, <2>2, LinesUnfold
  <2> QED
    BY <1>4, <1>5, <2>1, <2>2, <2>3 DEF Printed, PrintLine, history
<1>9. FileIsOldOrPart'
  BY FileKept DEF IInv, PrintLine, history
<1> QED
  BY <1>7, <1>8, <1>9
  DEF IInv, PrintLine, Replaced, Opened, Acknowledged, PlainPairsSurvive, history

LEMMA CloseHolds ==
  ASSUME IInv, Close
  PROVE  IInv'
<1>1. TypeOK'
  BY DEF IInv, TypeOK, Close, history
<1>2. PICK n \in 0..Len(latest) :
        /\ unprinted = SubSeq(latest, n + 1, Len(latest))
        /\ buffer = Lines(latest)[n]
        /\ Plain(latest) => Holds(buffer, latest, n)
  BY DEF IInv, Printed, Close
<1>3. n = Len(latest)
  <2>1. latest \in Seq(Pairs) /\ Len(latest) \in Nat
    BY DEF IInv, TypeOK
  <2> DEFINE rest == SubSeq(latest, n + 1, Len(latest))
  <2>2. Len(rest) = Len(latest) - n
    BY <2>1
  <2>3. rest = <<>>
    BY <1>2 DEF Close
  <2> HIDE DEF rest
  <2>4. Len(rest) = 0
    BY <2>3
  <2> QED
    BY <2>1, <2>2, <2>4
<1>4. Acknowledged'
  BY <1>2, <1>3 DEF Acknowledged, Close, history
<1>5. Kept'
  BY DEF IInv, Replaced, Close, history, Kept
<1>6. FileIsOldOrPart'
  BY <1>2 DEF Close, FileIsOldOrPart, history
<1> QED
  BY <1>1, <1>4, <1>5, <1>6
  DEF IInv, Close, Replaced, Opened, Printed, PlainPairsSurvive, history

LEMMA KillHolds ==
  ASSUME IInv, Kill
  PROVE  IInv'
<1>1. TypeOK'
  BY DEF IInv, TypeOK, Kill, history
<1>2. FileIsOldOrPart'
  BY FileKept DEF IInv, Kill, history
<1> QED
  BY <1>1, <1>2
  DEF IInv, TypeOK, Kill, Replaced, Opened, Printed, Acknowledged, PlainPairsSurvive, history

LEMMA ExitHolds ==
  ASSUME IInv, Exit
  PROVE  IInv'
<1>1. TypeOK'
  BY DEF IInv, TypeOK, Exit, history
<1>2. FileIsOldOrPart'
  BY FileKept DEF IInv, Exit, Printed, FileIsOldOrPart, history
<1> QED
  BY <1>1, <1>2
  DEF IInv, TypeOK, Exit, Replaced, Opened, Printed, Acknowledged, PlainPairsSurvive, history

LEMMA RegisterHolds ==
  ASSUME IInv, Register
  PROVE  IInv'
<1>1. file \in Seq(Words) /\ latest \in Seq(Pairs)
  BY DEF IInv, TypeOK
<1>2. TypeOK'
  <2>1. retrieve_dial_data \in Seq(Pairs \cup ({<<w>> : w \in Words} \X (Words \cup {Empty})))
    BY <1>1, Retrieved DEF Readable
  <2> QED
    BY <2>1 DEF IInv, TypeOK, Register, history
<1>3. Acknowledged'
  BY DEF IInv, Acknowledged, Register, history
<1>4. ASSUME ~torn, Plain(latest)
      PROVE  Kept'
  <2>1. Holds(file, latest, Len(latest))
    BY <1>4 DEF IInv, Acknowledged, Register
  <2>2. Stored(retrieve_dial_data) = Reverse(Stored(latest))
    BY <1>1, <1>4, <2>1, PlainBack
  <2> QED
    BY <2>2 DEF Kept, Register, history
<1>5. PlainPairsSurvive'
  BY <1>4 DEF PlainPairsSurvive, Plain, Register, history
<1>6. FileIsOldOrPart'
  BY FileKept DEF IInv, Register, history
<1> QED
  BY <1>2, <1>3, <1>5, <1>6 DEF IInv, Register, Replaced, Opened, Printed

LEMMA StepHolds == IInv /\ [Next]_vars => IInv'
<1> SUFFICES ASSUME IInv, [Next]_vars
             PROVE  IInv'
  OBVIOUS
<1>1. CASE UNCHANGED vars
  <2>1. FileIsOldOrPart'
    BY <1>1, FileKept DEF IInv, vars
  <2> QED
    BY <1>1, <2>1
    DEF IInv, TypeOK, Replaced, Opened, Printed, Acknowledged, PlainPairsSurvive, Kept, vars
<1>2. CASE \E pairs \in Requests : Post(pairs)
  BY <1>2, PostHolds
<1>3. CASE Open
  BY <1>3, OpenHolds
<1>4. CASE OpenFails
  BY <1>4, OpenFailsHolds
<1>5. CASE PrintLine
  BY <1>5, PrintLineHolds
<1>6. CASE Close
  BY <1>6, CloseHolds
<1>7. CASE Kill
  BY <1>7, KillHolds
<1>8. CASE Exit
  BY <1>8, ExitHolds
<1>9. CASE Register
  BY <1>9, RegisterHolds
<1> QED
  BY <1>1, <1>2, <1>3, <1>4, <1>5, <1>6, <1>7, <1>8, <1>9 DEF Next

LEMMA Invariance == Spec => []IInv
  BY InitHolds, StepHolds, PTL DEF Spec

-----------------------------------------------------------------------------
(* Every variable keeps its type; in particular no word that is stored is  *)
(* longer than what retrieve_dial_data reads at once.                      *)
THEOREM TypeCorrect == Spec => []TypeOK
<1>1. IInv => TypeOK
  BY DEF IInv
<1> QED
  BY <1>1, Invariance, PTL

(* Acknowledged pairs without spaces in their keys survive any number of   *)
(* restarts, kills and exits at any step, for any keys, values and         *)
(* requests of any size.                                                   *)
THEOREM PlainPairsDurable == Spec => []PlainPairsSurvive
<1>1. IInv => PlainPairsSurvive
  BY DEF IInv
<1> QED
  BY <1>1, Invariance, PTL

(* However the process ends, the file holds what it held before the latest *)
(* request or whole lines of that request from its first on, for requests  *)
(* of any size.                                                            *)
THEOREM FileNeverMixed == Spec => []FileIsOldOrPart
<1>1. IInv => FileIsOldOrPart
  BY DEF IInv
<1> QED
  BY <1>1, Invariance, PTL
=============================================================================
