------------------------------ MODULE DialData ------------------------------
(***************************************************************************)
(* The DIAL data of one application: handle_dial_data (src/dial_server.c), *)
(* parse_params (src/url_lib.c), store_dial_data and retrieve_dial_data    *)
(* (src/dial_data.c), with crashes and restarts.  ds->mux makes handlers   *)
(* and registrations exclude each other, so that one place is enough.      *)
(*                                                                         *)
(* The file is the sequence of words that fscanf reads from it.  A line    *)
(* goes to the buffer of the stream in one step.  A request fits in the    *)
(* buffer, which therefore reaches the file when the stream is closed, or  *)
(* when another thread calls exit(1).  A key is a sequence of words; a     *)
(* value ends at the first space and is one word.                          *)
(***************************************************************************)
EXTENDS Naturals, Sequences, SequencesExt

CONSTANTS
  Keys,       \* keys that requests have, each a sequence of words
  Values,     \* values that requests have, each a word
  Cut,        \* for each key or value of more than DIAL_KEY_OR_VALUE_MAX_LEN
              \* characters, a sequence of words, the words of its beginning
  Empty,      \* no word
  MaxPairs,   \* bound: pairs in one request
  MaxPosts    \* bound: requests in one behaviour

Short(w) == <<w>> \notin DOMAIN Cut

ASSUME WordsAssumption ==
  /\ \A k \in Keys : k # <<>> /\ k \in Seq(ToSet(k))
  /\ \A k \in Keys \ DOMAIN Cut : \A w \in ToSet(k) : Short(w)
  /\ \A text \in DOMAIN Cut :
       /\ Cut[text] # <<>> /\ Cut[text] \in Seq(ToSet(Cut[text]))
       /\ \A w \in ToSet(Cut[text]) : Short(w)
       /\ Len(text) = 1 => Len(Cut[text]) = 1
ASSUME BoundsAssumption == MaxPairs \in Nat /\ MaxPosts \in Nat

VARIABLES
  dial_data,   \* app->dial_data, the list in memory
  file,        \* the words in the application's file
  buffer,      \* the words in the stream's buffer
  unprinted,   \* what store_dial_data has still to print
  place,       \* where the handler is; "down" when there is no process
  posts,       \* requests so far
  latest,      \* history: the list the latest request was parsed into
  before,      \* history: the file before that request
  torn         \* history: the process died before it was answered

vars == <<dial_data, file, buffer, unprinted, place, posts, latest, before, torn>>

history == <<latest, before>>

Pairs == Keys \X Values
Requests == UNION {[1..n -> Pairs] : n \in 0..MaxPairs}

(* Each pair is pushed on the front of the list. *)
parse_params(pairs) == Reverse(pairs)

TruncatedNot(text) == text                           \* mutant of Truncated
Truncated(text) == IF text \in DOMAIN Cut THEN Cut[text] ELSE text

(* The words of the line that is printed for a pair. *)
LineSwapped(p) == Truncated(<<p[2]>>) \o Truncated(p[1])   \* mutant of Line

Line(p) == Truncated(p[1]) \o Truncated(<<p[2]>>)

(* retrieve_dial_data reads the words two by two and pushes each pair on   *)
(* the front; a word without a partner keeps the value read before it.     *)
retrieve_dial_data ==
  LET n == Len(file)
      value(i) == IF 2 * i <= n THEN file[2 * i]
                  ELSE IF i > 1 THEN file[2 * i - 2] ELSE Empty
  IN  Reverse([i \in 1..((n + 1) \div 2) |-> <<<<file[2 * i - 1]>>, value(i)>>])

Init ==
  /\ dial_data = <<>> /\ file = <<>> /\ buffer = <<>> /\ unprinted = <<>>
  /\ place = "idle"
  /\ posts = 0
  /\ latest = <<>> /\ before = <<>> /\ torn = FALSE

-----------------------------------------------------------------------------
(* handle_dial_data replaces the list and stores it in the file.           *)

Post(pairs) ==
  /\ place = "idle" /\ posts < MaxPosts
  /\ dial_data' = parse_params(pairs)
  /\ place' = "open"
  /\ posts' = posts + 1
  /\ latest' = parse_params(pairs) /\ before' = file /\ torn' = FALSE
  /\ UNCHANGED <<file, buffer, unprinted>>

OpenAppends ==                                       \* mutant of Open
  /\ place = "open"
  /\ buffer' = file
  /\ unprinted' = dial_data
  /\ place' = "print"
  /\ UNCHANGED <<dial_data, file, posts, history, torn>>

(* fopen(filename, "w") *)
Open ==
  /\ place = "open"
  /\ file' = <<>>
  /\ buffer' = <<>>
  /\ unprinted' = dial_data
  /\ place' = "print"
  /\ UNCHANGED <<dial_data, posts, history, torn>>

(* The file cannot be opened, and the program exits. *)
OpenFails ==
  /\ place = "open"
  /\ place' = "down" /\ torn' = TRUE
  /\ UNCHANGED <<dial_data, file, buffer, unprinted, posts, history>>

PrintLine ==
  /\ place = "print" /\ unprinted # <<>>
  /\ buffer' = buffer \o Line(Head(unprinted))
  /\ unprinted' = Tail(unprinted)
  /\ UNCHANGED <<dial_data, file, place, posts, history, torn>>

(* fclose, and the reply *)
Close ==
  /\ place = "print" /\ unprinted = <<>>
  /\ file' = buffer
  /\ place' = "idle"
  /\ UNCHANGED <<dial_data, buffer, unprinted, posts, history, torn>>

-----------------------------------------------------------------------------
(* The process is killed: what is in the buffer is lost. *)
Kill ==
  /\ place # "down"
  /\ place' = "down" /\ torn' = (torn \/ place # "idle")
  /\ UNCHANGED <<dial_data, file, buffer, unprinted, posts, history>>

(* Another thread calls exit(1), which flushes the stream. *)
Exit ==
  /\ place # "down"
  /\ file' = IF place = "print" THEN buffer ELSE file
  /\ place' = "down" /\ torn' = (torn \/ place # "idle")
  /\ UNCHANGED <<dial_data, buffer, unprinted, posts, history>>

(* DIAL_register_app, in a new process or after DIAL_unregister_app. *)
Register ==
  /\ place \in {"down", "idle"}
  /\ dial_data' = retrieve_dial_data
  /\ place' = "idle"
  /\ UNCHANGED <<file, buffer, unprinted, posts, history, torn>>

Next ==
  \/ \E pairs \in Requests : Post(pairs)
  \/ Open \/ OpenFails \/ PrintLine \/ Close
  \/ Kill \/ Exit \/ Register

Spec == Init /\ [][Next]_vars

-----------------------------------------------------------------------------
(* Properties.                                                             *)

Known ==
  (UNION {ToSet(k) : k \in Keys}) \cup Values
    \cup (UNION {ToSet(Cut[t]) : t \in DOMAIN Cut})
Words == {w \in Known : Short(w)}

(* Every variable keeps its type; no word in the file is longer than what  *)
(* retrieve_dial_data reads at once.                                       *)
TypeOK ==
  /\ file \in Seq(Words) /\ before \in Seq(Words) /\ buffer \in Seq(Words)
  /\ latest \in Seq(Pairs)
  /\ unprinted \in Seq(Pairs \cup ({<<w>> : w \in Words} \X (Words \cup {Empty})))
  /\ dial_data \in Seq(Pairs \cup ({<<w>> : w \in Words} \X (Words \cup {Empty})))
  /\ place \in {"idle", "open", "print", "down"}
  /\ posts \in 0..MaxPosts
  /\ torn \in BOOLEAN

(* The words of the first n lines, for each n. *)
Lines(list) ==
  LET upto[n \in 0..Len(list)] == IF n = 0 THEN <<>> ELSE upto[n - 1] \o Line(list[n])
  IN  upto

(* However the process ends, the file holds what it held before the latest *)
(* request or the first lines of what that request wrote: never both, and  *)
(* never pairs of two requests.                                            *)
FileIsOldOrPart ==
  file = before \/ \E n \in 0..Len(latest) : file = Lines(latest)[n]

(* What is in memory, as the file would hold it. *)
Stored(list) == [i \in 1..Len(list) |-> Line(list[i])]

Kept == Stored(dial_data) \in {Stored(latest), Reverse(Stored(latest))}

(* Pairs that were acknowledged are there after any number of restarts, in *)
(* one of two orders and truncated, if no key has a space.                 *)
PlainPairsSurvive ==
  place = "idle" /\ ~torn /\ (\A i \in 1..Len(latest) : Len(latest[i][1]) = 1)
    => Kept

(* "The DIAL data key and value values cannot contain any spaces"          *)
(* (dial_data.h:50): so whatever was acknowledged survives.                *)
PairsSurvive == place = "idle" /\ ~torn => Kept
=============================================================================
