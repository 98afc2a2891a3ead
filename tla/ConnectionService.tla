------------------------- MODULE ConnectionService -------------------------
(***************************************************************************)
(* What the embedded web server (mongoose.c) promises its user, without    *)
(* threads, mutexes or condition variables: connections are accepted into  *)
(* a bounded first-in first-out queue, each one that is taken from it is   *)
(* served once, and when mg_stop has stopped the server no connection is   *)
(* being served and none ever will be.  WorkerPool implements this         *)
(* specification.                                                          *)
(***************************************************************************)
EXTENDS Naturals, Sequences, FiniteSets

CONSTANTS
  Conns,        \* the client connections
  Capacity,     \* how many accepted connections can be waiting
  Parallelism   \* how many connections can be served at the same time

VARIABLES
  phase,      \* "open", "stopping" (mg_stop was called) or "stopped"
  pending,    \* accepted connections not served yet, oldest first
  inService,  \* the connections being served
  finished    \* the connections that were served and closed

vars == <<phase, pending, inService, finished>>

Waiting == {pending[i] : i \in 1..Len(pending)}

Init ==
  /\ phase = "open"
  /\ pending = <<>>
  /\ inService = {}
  /\ finished = {}

(* A connection enters the queue; it never was in the server before. *)
Admit(c) ==
  /\ phase # "stopped"
  /\ Len(pending) < Capacity
  /\ c \notin Waiting \cup inService \cup finished
  /\ pending' = Append(pending, c)
  /\ UNCHANGED <<phase, inService, finished>>

(* The oldest waiting connection starts being served. *)
Dispatch ==
  /\ phase # "stopped"
  /\ pending # <<>>
  /\ Cardinality(inService) < Parallelism
  /\ inService' = inService \cup {Head(pending)}
  /\ pending' = Tail(pending)
  /\ UNCHANGED <<phase, finished>>

Complete(c) ==
  /\ c \in inService
  /\ inService' = inService \ {c}
  /\ finished' = finished \cup {c}
  /\ UNCHANGED <<phase, pending>>

RequestStop ==
  /\ phase = "open"
  /\ phase' = "stopping"
  /\ UNCHANGED <<pending, inService, finished>>

(* What is still waiting at this point is never served. *)
Halt ==
  /\ phase = "stopping"
  /\ inService = {}
  /\ phase' = "stopped"
  /\ UNCHANGED <<pending, inService, finished>>

Next ==
  \/ \E c \in Conns : Admit(c) \/ Complete(c)
  \/ Dispatch
  \/ RequestStop
  \/ Halt

Spec == Init /\ [][Next]_vars
=============================================================================
