----------------------------- MODULE WorkerPool -----------------------------
(***************************************************************************)
(* The thread pool of the embedded web server, src/mongoose.c: the caller  *)
(* of mg_start and mg_stop, the master thread that accepts connections and *)
(* puts them in the ring buffer of struct mg_context, and the worker       *)
(* threads that take them out and serve them.                              *)
(*                                                                         *)
(* A critical section (ctx->mutex held) is one step, except in             *)
(* consume_socket, where stop_flag, which mg_stop writes without the       *)
(* mutex, is tested before pthread_cond_wait releases it: there the test   *)
(* and the wait are two steps.  A thread that waits on a condition         *)
(* variable is in a wait state; a signal moves one such thread to the test *)
(* that follows its wait, a broadcast all of them.  Locking and signalling *)
(* a default mutex and condition variable do not fail.                     *)
(***************************************************************************)
EXTENDS Integers, FiniteSets

CONSTANTS
  Workers,          \* the worker threads mg_start tries to create (NUM_THREADS)
  QSize,            \* ARRAY_SIZE(ctx->queue)
  Conns,            \* the connections clients make, numbered as they arrive
  NoConn,           \* no connection (an unused struct socket)
  SpuriousWakeups   \* whether pthread_cond_wait may return without a signal

ASSUME QSizeAssumption == QSize \in Nat \ {0}
ASSUME WorkersAssumption == IsFiniteSet(Workers)
ASSUME ConnsAssumption == Conns \subseteq Nat
ASSUME NoConnAssumption == NoConn \notin Conns
ASSUME SpuriousAssumption == SpuriousWakeups \in BOOLEAN

VARIABLES
  stop_flag,    \* 0 serving, 1 stop requested, 2 the master has finished
  queue,        \* the ring buffer of accepted sockets
  sq_head,      \* where the master puts the next one
  sq_tail,      \* where a worker takes the next one
  num_threads,  \* the workers the master will wait for
  caller,       \* where the thread that calls mg_start and mg_stop is
  master,       \* where master_thread is
  accepted,     \* the connection master_thread has accepted and not queued
  worker,       \* where each worker_thread is
  client,       \* conn->client of each worker while it serves
  backlog,      \* connections not accepted yet
  closed        \* connections served and closed

vars == <<stop_flag, queue, sq_head, sq_tail, num_threads, caller, master,
          accepted, worker, client, backlog, closed>>

pool == <<stop_flag, queue, sq_head, sq_tail, num_threads>>
conns == <<accepted, client, backlog, closed>>

Slot(i) == i % QSize

(* The slots of the ring buffer that hold a connection. *)
Window == {Slot(i) : i \in sq_tail..(sq_head - 1)}
Queued == {queue[s] : s \in Window}

Empty == sq_head = sq_tail
Full == sq_head - sq_tail >= QSize

(* Only a worker between its test and its wait keeps the mutex. *)
MutexFree == \A w \in Workers : worker[w] # "park"

(* Threads that were created and have not announced their exit. *)
Live == {w \in Workers : worker[w] \in {"loop", "park", "wait", "serve", "quit"}}

Init ==
  /\ stop_flag = 0
  /\ queue = [s \in 0..(QSize - 1) |-> NoConn]
  /\ sq_head = 0 /\ sq_tail = 0
  /\ num_threads = 0
  /\ caller = "spawn"
  /\ master = "loop"
  /\ accepted = NoConn
  /\ worker = [w \in Workers |-> "unborn"]
  /\ client = [w \in Workers |-> NoConn]
  /\ backlog = Conns
  /\ closed = {}

-----------------------------------------------------------------------------
(* Condition variables.  A signal without a waiter is lost.                *)

(* pthread_cond_signal(&ctx->sq_full) *)
SignalQueuedLost == UNCHANGED worker                 \* mutant of SignalQueued
SignalQueued ==
  LET idle == {w \in Workers : worker[w] = "wait"}
  IN  \/ \E w \in idle : worker' = [worker EXCEPT ![w] = "loop"]
      \/ idle = {} /\ UNCHANGED worker

(* pthread_cond_broadcast(&ctx->sq_full) *)
BroadcastWakesOne == SignalQueued                    \* mutant of BroadcastQueued
BroadcastQueued ==
  worker' = [w \in Workers |-> IF worker[w] = "wait" THEN "loop" ELSE worker[w]]

(* pthread_cond_signal(&ctx->sq_empty): only the master waits for room *)
SignalRoomLost == UNCHANGED master                   \* mutant of SignalRoom
SignalRoom == master' = IF master = "wait_room" THEN "produce" ELSE master

(* pthread_cond_signal(&ctx->cond): only the master waits for exits *)
SignalExit == master' = IF master = "wait_exit" THEN "join" ELSE master

-----------------------------------------------------------------------------
(* mg_start and mg_stop.  mg_start creates the master first and counts     *)
(* each worker only after it has been created and may already be running.  *)

SpawnWorker(w) ==
  /\ caller = "spawn" /\ worker[w] = "unborn"
  /\ worker' = [worker EXCEPT ![w] = "loop"]
  /\ caller' = "count"
  /\ UNCHANGED <<pool, master, conns>>

SpawnFailsCounted(w) ==                              \* mutant of SpawnFails
  /\ caller = "spawn" /\ worker[w] = "unborn"
  /\ worker' = [worker EXCEPT ![w] = "failed"]
  /\ caller' = "count"
  /\ UNCHANGED <<pool, master, conns>>

SpawnFails(w) ==
  /\ caller = "spawn" /\ worker[w] = "unborn"
  /\ worker' = [worker EXCEPT ![w] = "failed"]
  /\ UNCHANGED <<pool, caller, master, conns>>

CountWorker ==
  /\ caller = "count"
  /\ num_threads' = num_threads + 1
  /\ caller' = "spawn"
  /\ UNCHANGED <<stop_flag, queue, sq_head, sq_tail, master, worker, conns>>

StartReturns ==
  /\ caller = "spawn"
  /\ \A w \in Workers : worker[w] # "unborn"
  /\ caller' = "serving"
  /\ UNCHANGED <<pool, master, worker, conns>>

StopCall ==
  /\ caller = "serving"
  /\ stop_flag' = 1
  /\ caller' = "stopping"
  /\ UNCHANGED <<queue, sq_head, sq_tail, num_threads, master, worker, conns>>

(* mg_stop stops polling, frees the context and returns. *)
StopReturns ==
  /\ caller = "stopping" /\ stop_flag = 2
  /\ caller' = "returned"
  /\ UNCHANGED <<pool, master, worker, conns>>

-----------------------------------------------------------------------------
(* master_thread and produce_socket.                                       *)

MasterLoop ==
  /\ master = "loop"
  /\ master' = IF stop_flag = 0 THEN "accept" ELSE "broadcast"
  /\ UNCHANGED <<pool, caller, worker, conns>>

(* accept() takes the connection that has waited longest. *)
Accept(c) ==
  /\ master = "accept" /\ c \in backlog /\ \A d \in backlog : c <= d
  /\ accepted' = c
  /\ backlog' = backlog \ {c}
  /\ master' = "produce"
  /\ UNCHANGED <<pool, caller, worker, client, closed>>

(* accept() gives up: SO_RCVTIMEO of the listening socket, or an error. *)
AcceptTimeout ==
  /\ master = "accept"
  /\ master' = "loop"
  /\ UNCHANGED <<pool, caller, worker, conns>>

(* The queue is full: release the mutex and wait for room. *)
ProduceWait ==
  /\ master = "produce" /\ MutexFree /\ Full
  /\ master' = "wait_room"
  /\ UNCHANGED <<pool, caller, worker, conns>>

Produce ==
  /\ master = "produce" /\ MutexFree /\ ~Full
  /\ queue' = [queue EXCEPT ![Slot(sq_head)] = accepted]
  /\ sq_head' = sq_head + 1
  /\ accepted' = NoConn
  /\ SignalQueued
  /\ master' = "loop"
  /\ UNCHANGED <<stop_flag, sq_tail, num_threads, caller, client, backlog, closed>>

(* The listening socket is closed, then idle workers are woken; the mutex  *)
(* is not taken for either.                                                *)
Broadcast ==
  /\ master = "broadcast"
  /\ BroadcastQueued
  /\ master' = "join"
  /\ UNCHANGED <<pool, caller, conns>>

JoinWait ==
  /\ master = "join" /\ MutexFree /\ num_threads > 0
  /\ master' = "wait_exit"
  /\ UNCHANGED <<pool, caller, worker, conns>>

JoinDoneEarly ==                                     \* mutant of JoinDone
  /\ master = "join" /\ MutexFree
  /\ stop_flag' = 2
  /\ master' = "done"
  /\ UNCHANGED <<queue, sq_head, sq_tail, num_threads, caller, worker, conns>>

(* Every thread has exited: destroy the mutex and the condition variables. *)
JoinDone ==
  /\ master = "join" /\ MutexFree /\ num_threads <= 0
  /\ stop_flag' = 2
  /\ master' = "done"
  /\ UNCHANGED <<queue, sq_head, sq_tail, num_threads, caller, worker, conns>>

-----------------------------------------------------------------------------
(* worker_thread and consume_socket.  The unprotected test of stop_flag in *)
(* the loop condition is absorbed by the one consume_socket repeats.       *)

(* The queue is empty and nobody wants to stop: the worker will wait ...   *)
ConsumeIdle(w) ==
  /\ worker[w] = "loop" /\ MutexFree
  /\ Empty /\ stop_flag = 0
  /\ worker' = [worker EXCEPT ![w] = "park"]
  /\ UNCHANGED <<pool, caller, master, conns>>

(* ... and now it does, releasing the mutex.                               *)
CondWait(w) ==
  /\ worker[w] = "park"
  /\ worker' = [worker EXCEPT ![w] = "wait"]
  /\ UNCHANGED <<pool, caller, master, conns>>

ConsumeStop(w) ==
  /\ worker[w] = "loop" /\ MutexFree
  /\ stop_flag # 0
  /\ worker' = [worker EXCEPT ![w] = "quit"]
  /\ UNCHANGED <<pool, caller, master, conns>>

(* Take the socket at the tail ... *)
TakeNewest(w) ==                                     \* mutant of Take
  client' = [client EXCEPT ![w] = queue[Slot(sq_head - 1)]]

Take(w) == client' = [client EXCEPT ![w] = queue[Slot(sq_tail)]]

(* ... and keep the tail within the array. *)
AdvanceUnwrapped ==                                  \* mutant of Advance
  sq_tail' = sq_tail + 1 /\ sq_head' = sq_head

AdvanceTailWrapped ==                                \* mutant of Advance
  /\ sq_tail' = IF sq_tail + 1 > QSize THEN sq_tail + 1 - QSize ELSE sq_tail + 1
  /\ sq_head' = sq_head

Advance ==
  LET wrap == IF sq_tail + 1 > QSize THEN QSize ELSE 0
  IN  /\ sq_tail' = sq_tail + 1 - wrap
      /\ sq_head' = sq_head - wrap

Consume(w) ==
  /\ worker[w] = "loop" /\ MutexFree
  /\ ~Empty /\ stop_flag = 0
  /\ Take(w) /\ Advance /\ SignalRoom
  /\ worker' = [worker EXCEPT ![w] = "serve"]
  /\ UNCHANGED <<stop_flag, queue, num_threads, caller, accepted, backlog, closed>>

(* process_new_connection, whose user callback is the subject of           *)
(* DialServer, and close_connection.                                       *)
Serve(w) ==
  /\ worker[w] = "serve"
  /\ closed' = closed \cup {client[w]}
  /\ client' = [client EXCEPT ![w] = NoConn]
  /\ worker' = [worker EXCEPT ![w] = "loop"]
  /\ UNCHANGED <<pool, caller, master, accepted, backlog>>

WorkerExit(w) ==
  /\ worker[w] = "quit" /\ MutexFree
  /\ num_threads' = num_threads - 1
  /\ SignalExit
  /\ worker' = [worker EXCEPT ![w] = "done"]
  /\ UNCHANGED <<stop_flag, queue, sq_head, sq_tail, caller, conns>>

-----------------------------------------------------------------------------
(* POSIX lets pthread_cond_wait return without a signal.                   *)

SpuriousWorker(w) ==
  /\ SpuriousWakeups /\ worker[w] = "wait"
  /\ worker' = [worker EXCEPT ![w] = "loop"]
  /\ UNCHANGED <<pool, caller, master, conns>>

SpuriousMaster ==
  /\ SpuriousWakeups /\ master \in {"wait_room", "wait_exit"}
  /\ master' = IF master = "wait_room" THEN "produce" ELSE "join"
  /\ UNCHANGED <<pool, caller, worker, conns>>

-----------------------------------------------------------------------------
CallerStep ==
  \/ \E w \in Workers : SpawnWorker(w) \/ SpawnFails(w)
  \/ CountWorker \/ StartReturns \/ StopReturns

MasterStep ==
  \/ MasterLoop \/ AcceptTimeout \/ ProduceWait \/ Produce
  \/ Broadcast \/ JoinWait \/ JoinDone

WorkerStep(w) ==
  \/ ConsumeIdle(w) \/ CondWait(w) \/ ConsumeStop(w) \/ Consume(w)
  \/ Serve(w) \/ WorkerExit(w)

Next ==
  \/ CallerStep \/ StopCall
  \/ MasterStep \/ \E c \in Conns : Accept(c)
  \/ \E w \in Workers : WorkerStep(w) \/ SpuriousWorker(w)
  \/ SpuriousMaster

Spec == Init /\ [][Next]_vars

(* Threads are scheduled fairly.  A worker competes for the mutex with     *)
(* finitely many critical sections, since Conns is finite.  Nothing        *)
(* obliges clients to connect, the program to call mg_stop, or a wait to   *)
(* return without a signal.                                                *)
Fairness ==
  /\ WF_vars(CallerStep)
  /\ WF_vars(MasterStep)
  /\ \A w \in Workers : WF_vars(WorkerStep(w))

FairSpec == Spec /\ Fairness

-----------------------------------------------------------------------------
(* Properties.                                                             *)

(* Every variable keeps its type. *)
TypeOK ==
  /\ stop_flag \in 0..2
  /\ queue \in [0..(QSize - 1) -> Conns \cup {NoConn}]
  /\ sq_head \in 0..(2 * QSize) /\ sq_tail \in 0..QSize
  /\ num_threads \in 0..Cardinality(Workers)
  /\ caller \in {"spawn", "count", "serving", "stopping", "returned"}
  /\ master \in {"loop", "accept", "produce", "wait_room", "broadcast",
                 "join", "wait_exit", "done"}
  /\ accepted \in Conns \cup {NoConn}
  /\ worker \in [Workers -> {"unborn", "failed", "loop", "park", "wait",
                             "serve", "quit", "done"}]
  /\ client \in [Workers -> Conns \cup {NoConn}]
  /\ backlog \subseteq Conns
  /\ closed \subseteq Conns

(* The pointers of the ring buffer never drift: the head is never behind   *)
(* the tail and never more than the array ahead of it, also when consumers *)
(* pull both back: what the assertions of consume_socket and               *)
(* produce_socket (mongoose.c:787, 876) say at their two places, at all    *)
(* times.                                                                  *)
QueueBounded == sq_head - sq_tail \in 0..QSize

(* Whatever the interleaving of accept, produce, consume, wrap and close,  *)
(* a connection is in exactly one place: none is lost, overwritten in the  *)
(* ring, queued twice or served by two workers.                            *)
Served == {client[w] : w \in {v \in Workers : worker[v] = "serve"}}
InHand == {accepted} \ {NoConn}

OnePlace ==
  /\ \A i, j \in sq_tail..(sq_head - 1) :
       queue[Slot(i)] = queue[Slot(j)] => i = j
  /\ \A v, w \in Workers :
       worker[v] = "serve" /\ client[v] = client[w] => v = w
  /\ Conns = backlog \cup InHand \cup Queued \cup Served \cup closed
  /\ backlog \cap (InHand \cup Queued \cup Served \cup closed) = {}
  /\ InHand \cap (Queued \cup Served \cup closed) = {}
  /\ Queued \cap (Served \cup closed) = {}
  /\ Served \cap closed = {}

(* num_threads, which the master relies on to know that nobody uses the    *)
(* context any more, counts the workers that have not announced their      *)
(* exit; only the one mg_start has just created may be missing.  Implies   *)
(* the assertion of worker_thread (mongoose.c:850).                        *)
ThreadCountExact ==
  num_threads + (IF caller = "count" THEN 1 ELSE 0) = Cardinality(Live)

(* Nobody can touch the context when the master destroys its mutex and its *)
(* condition variables and when mg_stop frees it (mongoose.c:930-937, 955).*)
QuietAtReturn ==
  /\ stop_flag = 2 => Live = {} /\ Served = {}
  /\ caller = "returned" => master = "done"

(* The master sleeps in produce_socket only while the queue is full, and   *)
(* at the end only while a worker still has to exit: no signal that should *)
(* end its wait is ever lost.                                              *)
MasterSleepsWithReason ==
  /\ master = "wait_room" => Full
  /\ master = "wait_exit" => num_threads > 0

(* Before a stop, a connection never sits in the queue while every worker  *)
(* sleeps: one signal per connection is enough.                            *)
WorkNotSleptOn ==
  stop_flag = 0 /\ ~Empty /\ Live # {} => \E w \in Live : worker[w] # "wait"

(* The pool implements the service it offers. *)
Pending == [i \in 1..(sq_head - sq_tail) |-> queue[Slot(sq_tail + i - 1)]]

Phase == CASE stop_flag = 0 -> "open"
           [] stop_flag = 1 -> "stopping"
           [] OTHER -> "stopped"

Service == INSTANCE ConnectionService WITH
  Capacity <- QSize,
  Parallelism <- Cardinality(Workers),
  phase <- Phase,
  pending <- Pending,
  inService <- Served,
  finished <- closed

(* Every step of the pool is a step of the first-in first-out service or   *)
(* invisible to its clients: connections leave the queue in the order they *)
(* came in, and nothing is taken from it once the server has stopped.      *)
ServiceRefined == Service!Spec

(* A queued connection is served, unless the program stops the server or   *)
(* no worker could be created (mg_start only reports that).                *)
NoWorkers == \A w \in Workers : worker[w] = "failed"

QueuedIsServed ==
  \A c \in Conns :
    c \in Queued ~> (c \in closed \/ stop_flag # 0 \/ NoWorkers)

(* mg_stop returns, but for two outcomes: a worker missed the broadcast    *)
(* because it was between its test of stop_flag and its wait, or the       *)
(* master was waiting for room in a queue that no worker empties any more. *)
(* The mutex lets one worker at most miss the broadcast.                   *)
MissedBroadcast ==
  /\ master = "wait_exit"
  /\ Cardinality({w \in Workers : worker[w] = "wait"}) = 1

NobodyMakesRoom ==
  master = "wait_room" /\ \A w \in Live : worker[w] # "serve"

StopEndsOrSleeps ==
  caller = "stopping" ~>
    (caller = "returned" \/ MissedBroadcast \/ NobodyMakesRoom)

(* "This function blocks until all Mongoose threads are stopped"           *)
(* (mongoose.h:109): it does not block for ever.                           *)
StopTerminates == caller = "stopping" ~> caller = "returned"
=============================================================================
