------------------------------ MODULE UrlText ------------------------------
(***************************************************************************)
(* The text functions a request goes through: decoding and cleaning of the *)
(* URI in src/mongoose.c, and src/url_lib.c.  A text is a sequence of      *)
(* characters, each a string of length one.                                *)
(***************************************************************************)
EXTENDS Integers, Sequences, FiniteSetsExt

Text == Seq(STRING)

From(s, i) == SubSeq(s, i, Len(s))
PartAt(s, i, part) ==                              \* part stands at place i
  i - 1 + Len(part) <= Len(s) /\ \A k \in 1..Len(part) : s[i - 1 + k] = part[k]
StartsWith(s, prefix) == PartAt(s, 1, prefix)
EndsWith(s, suffix) == Len(s) >= Len(suffix) /\ PartAt(s, Len(s) - Len(suffix) + 1, suffix)
Occurs(part, s) == \E i \in 1..Len(s) : PartAt(s, i, part)

(* strchr and strrchr: the first and the last place of a character, or 0.  *)
Places(s, c) == {i \in 1..Len(s) : s[i] = c}
FirstOf(s, c) == IF Places(s, c) = {} THEN 0 ELSE Min(Places(s, c))
LastOf(s, c) == Max(Places(s, c) \cup {0})

(* A loop over a text of n characters: at each place it comes to it writes *)
(* a text and goes on at a later place.  What it writes from each place on.*)
Loop(n, write, next) ==
  LET rest[i \in 1..(n + 1)] == IF i > n THEN <<>> ELSE write[i] \o rest[next[i]]
  IN  rest

(* The characters 32..95 and 97..126, and the digits of hexadecimals. *)
Signs == " !\"#$%&'()*+,-./0123456789:;<=>?@ABCDEFGHIJKLMNOPQRSTUVWXYZ[\\]^_"
Letters == "abcdefghijklmnopqrstuvwxyz{|}~"
Digits == "0123456789abcdef"
Capitals == "0123456789ABCDEF"
Character(table, i) == SubSeq(table, i, i)

IsDigit(c, d) == c \in {Character(Digits, d + 1), Character(Capitals, d + 1)}
Hex(c) == CHOOSE d \in 0..15 : IsDigit(c, d)
IsHex(c) == \E d \in 0..15 : IsDigit(c, d)

(* A "%" with two hexadecimal digits, and the character they stand for.    *)
IsEscape(s, i) == i + 2 <= Len(s) /\ s[i] = "%" /\ IsHex(s[i + 1]) /\ IsHex(s[i + 2])

Escaped(s, i) ==
  LET code == 16 * Hex(s[i + 1]) + Hex(s[i + 2])
  IN  IF code <= 95 THEN Character(Signs, code - 31) ELSE Character(Letters, code - 96)

-----------------------------------------------------------------------------
(* url_decode of mongoose.c, for a URI: what is no escape stays as it is.  *)

url_decode_short(s) ==                            \* mutant of url_decode
  LET escape(i) == i + 2 < Len(s) /\ IsEscape(s, i)
  IN  Loop(Len(s), [i \in 1..Len(s) |-> <<IF escape(i) THEN Escaped(s, i) ELSE s[i]>>],
                   [i \in 1..Len(s) |-> IF escape(i) THEN i + 3 ELSE i + 1])[1]

url_decode(s) ==
  Loop(Len(s), [i \in 1..Len(s) |-> <<IF IsEscape(s, i) THEN Escaped(s, i) ELSE s[i]>>],
               [i \in 1..Len(s) |-> IF IsEscape(s, i) THEN i + 3 ELSE i + 1])[1]

(* After a slash, the slashes that follow are left out, then the pairs of  *)
(* dots that follow these.                                                 *)
Slashes == {"/", "\\"}

AfterSlashes(s, i) == Min({j \in i..(Len(s) + 1) : j > Len(s) \/ s[j] \notin Slashes})

AfterDots(s, i) ==
  LET pair(j) == j < Len(s) /\ s[j] = "." /\ s[j + 1] = "."
  IN  Min({j \in i..(Len(s) + 1) : (\E k \in 0..Len(s) : j = i + 2 * k) /\ ~pair(j)})

remove_double_dots_and_double_slashes(s) ==
  Loop(Len(s), [i \in 1..Len(s) |-> <<s[i]>>],
               [i \in 1..Len(s) |->
                  IF s[i] \in Slashes THEN AfterDots(s, AfterSlashes(s, i + 1)) ELSE i + 1])[1]

(* handle_request: the query is cut off, then the path decoded and cleaned. *)
WithoutQuery(uri) ==
  LET q == FirstOf(uri, "?") IN IF q = 0 THEN uri ELSE SubSeq(uri, 1, q - 1)

path(uri) == remove_double_dots_and_double_slashes(url_decode(WithoutQuery(uri)))

-----------------------------------------------------------------------------
(* url_lib.c.                                                              *)

(* A "%" without two hexadecimal digits ends the text. *)
urldecode(src, max_size) ==
  LET n == Len(src)
      write == [i \in 1..n |-> CASE src[i] = "+" -> <<" ">>
                                 [] src[i] = "%" -> IF IsEscape(src, i) THEN <<Escaped(src, i)>>
                                                    ELSE <<>>
                                 [] OTHER -> <<src[i]>>]
      next == [i \in 1..n |-> CASE src[i] = "%" -> IF IsEscape(src, i) THEN i + 3 ELSE n + 1
                                [] OTHER -> i + 1]
      dst == Loop(n, write, next)[1]
  IN  SubSeq(dst, 1, Min({Len(dst), max_size}))

Entity(c) ==
  CASE c = "&" -> <<"&", "a", "m", "p", ";">>
    [] c = "\"" -> <<"&", "q", "u", "o", "t", ";">>
    [] c = "'" -> <<"&", "a", "p", "o", "s", ";">>
    [] c = "<" -> <<"&", "l", "t", ";">>
    [] c = ">" -> <<"&", "g", "t", ";">>
    [] OTHER -> <<c>>

xmlencode_cut(src, max_size) ==                   \* mutant of xmlencode
  LET dst[i \in 0..Len(src)] ==
        IF i = 0 THEN <<>>
        ELSE LET all == dst[i - 1] \o Entity(src[i])
             IN  SubSeq(all, 1, Min({Len(all), max_size}))
  IN  dst[Len(src)]

(* An entity that would reach max_size is left out, and the characters     *)
(* after it still come.                                                    *)
Encoded(dst, c, max_size) ==
  LET e == Entity(c)
  IN  IF Len(dst) >= max_size \/ (e # <<c>> /\ Len(dst) + Len(e) >= max_size)
      THEN dst ELSE dst \o e

xmlencode(src, max_size) ==
  LET dst[i \in 0..Len(src)] == IF i = 0 THEN <<>> ELSE Encoded(dst[i - 1], src[i], max_size)
  IN  dst[Len(src)]

(* The name before the last slash. *)
parse_app_name(uri) ==
  LET slash == LastOf(uri, "/")
      begin == LastOf(SubSeq(uri, 1, slash - 1), "/") + 1
  IN  IF slash <= 1 THEN <<"u", "n", "k", "n", "o", "w", "n">>
      ELSE SubSeq(uri, begin, slash - 1)
-----------------------------------------------------------------------------
(* What texts mean, without loops.                                         *)

(* The characters of a text begin at places of s, in their order.          *)
Pieces(s, text, at) ==
  /\ at \in [1..(Len(text) + 1) -> 1..(Len(s) + 1)]
  /\ at[1] = 1 /\ at[Len(text) + 1] = Len(s) + 1

EscapeOf(c, s, i, next) == IsEscape(s, i) /\ Escaped(s, i) = c /\ next = i + 3
Itself(c, s, i, next) == s[i] = c /\ next = i + 1

(* A character of a URI is itself or an escape. *)
SpellsUri(s, text, at) ==
  /\ Pieces(s, text, at)
  /\ \A k \in 1..Len(text) :
       \/ EscapeOf(text[k], s, at[k], at[k + 1])
       \/ ~IsEscape(s, at[k]) /\ Itself(text[k], s, at[k], at[k + 1])

(* In form data, a space is a "+", and a "%" or a "+" is never itself. *)
SpellsData(s, text, at) ==
  /\ Pieces(s, text, at)
  /\ \A k \in 1..Len(text) :
       \/ EscapeOf(text[k], s, at[k], at[k + 1])
       \/ text[k] = " " /\ Itself("+", s, at[k], at[k + 1])
       \/ text[k] \notin {"%", "+"} /\ Itself(text[k], s, at[k], at[k + 1])

(* A slash may be repeated. *)
RepeatsSlashes(s, text, at) ==
  /\ Pieces(s, text, at)
  /\ \A k \in 1..Len(text) :
       /\ at[k] < at[k + 1] /\ (text[k] # "/" => at[k + 1] = at[k] + 1)
       /\ \A i \in at[k]..(at[k + 1] - 1) : s[i] = text[k]

(* A text in XML, and the entities in it.                                  *)
Meant(plain) ==
  LET upto[n \in 0..Len(plain)] == IF n = 0 THEN <<>> ELSE upto[n - 1] \o Entity(plain[n])
  IN  upto[Len(plain)]

Entities == {Entity(c) : c \in {"&", "\"", "'", "<", ">"}}
=============================================================================
