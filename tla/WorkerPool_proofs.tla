-------------------------- MODULE WorkerPool_proofs --------------------------
(***************************************************************************)
(* Theorems about WorkerPool, for any number of workers, any size of the   *)
(* queue and any set of connections.                                       *)
(***************************************************************************)
EXTENDS WorkerPool, Sequences, FiniteSetTheorems, SequenceTheorems, TLAPS

(* How the phases of the threads go together: workers quit only once a     *)
(* stop was requested, mg_stop is called only once mg_start has created    *)
(* every worker, the master finishes last.                                 *)
Phases ==
  /\ stop_flag = 0 <=> caller \in {"spawn", "count", "serving"}
  /\ stop_flag = 2 <=> master = "done"
  /\ caller = "returned" => stop_flag = 2
  /\ master \in {"broadcast", "join", "wait_exit"} => stop_flag # 0
  /\ \A w \in Workers : worker[w] \in {"quit", "done"} => stop_flag # 0
  /\ \A w \in Workers : worker[w] = "unborn" => caller \in {"spawn", "count"}
  /\ stop_flag = 2 => Live = {}

(* A worker that holds the mutex on its way to sleep saw an empty queue,   *)
(* and nobody can have put anything in it since.                           *)
ParkedEmpty == \A w \in Workers : worker[w] = "park" => Empty

(* Connections, and not NoConn, are where they should be: in the window of *)
(* the ring buffer, with the master while it produces, with a worker while *)
(* it serves.                                                              *)
Holds ==
  /\ \A i \in sq_tail..(sq_head - 1) : queue[Slot(i)] \in Conns
  /\ accepted \in Conns <=> master \in {"produce", "wait_room"}
  /\ \A w \in Workers : worker[w] = "serve" => client[w] \in Conns

(* The inductive invariant. *)
Inv ==
  /\ TypeOK
  /\ QueueBounded
  /\ ThreadCountExact
  /\ Phases
  /\ Holds
  /\ ParkedEmpty
  /\ MasterSleepsWithReason
  /\ WorkNotSleptOn

-----------------------------------------------------------------------------
(* An index of the ring buffer is a slot of the array. *)
LEMMA SlotInRange ==
  ASSUME NEW i \in Nat
  PROVE  Slot(i) \in 0..(QSize - 1)
  BY QSizeAssumption DEF Slot

(* The window never reaches twice around, so that slots are computed by    *)
(* one subtraction at most.                                                *)
LEMMA SlotBelow == \A i \in 0..(QSize - 1) : Slot(i) = i
  BY QSizeAssumption, Z3 DEF Slot

LEMMA SlotAbove == \A i \in QSize..(2 * QSize - 1) : Slot(i) = i - QSize
  BY QSizeAssumption, Z3 DEF Slot

(* What a set of workers can count up to. *)
LEMMA WorkersCounted ==
  ASSUME NEW S \in SUBSET Workers
  PROVE  /\ IsFiniteSet(S)
         /\ Cardinality(S) \in 0..Cardinality(Workers)
         /\ Cardinality(S) = 0 <=> S = {}
         /\ Cardinality(Workers) \in Nat
<1>1. IsFiniteSet(S) /\ Cardinality(S) <= Cardinality(Workers)
  BY WorkersAssumption, FS_Subset
<1>2. Cardinality(S) \in Nat /\ Cardinality(Workers) \in Nat
  BY <1>1, WorkersAssumption, FS_CardinalityType
<1> QED
  BY <1>1, <1>2, FS_EmptySet

(* The invariant holds when mg_start begins. *)
LEMMA InitInv == Init => Inv
<1> SUFFICES ASSUME Init PROVE Inv
  OBVIOUS
<1>1. Live = {}
  BY DEF Init, Live
<1>2. Cardinality(Live) = 0
  BY <1>1, FS_EmptySet
<1>3. TypeOK
  BY WorkersCounted, QSizeAssumption DEF Init, TypeOK
<1>4. QueueBounded
  BY QSizeAssumption DEF Init, QueueBounded
<1>5. ThreadCountExact
  BY <1>2 DEF Init, ThreadCountExact
<1>6. Holds
  BY NoConnAssumption DEF Init, Holds
<1>7. Phases /\ ParkedEmpty /\ MasterSleepsWithReason /\ WorkNotSleptOn
  BY <1>1 DEF Init, Phases, ParkedEmpty, MasterSleepsWithReason, WorkNotSleptOn
<1> QED
  BY <1>3, <1>4, <1>5, <1>6, <1>7 DEF Inv
-----------------------------------------------------------------------------
(* Counting: the steps that create a worker, count it or let it exit move  *)
(* num_threads and the set of running workers together; the other steps    *)
(* leave both alone.                                                       *)
LEMMA CountStep == Inv /\ [Next]_vars => ThreadCountExact'
<1> SUFFICES ASSUME Inv, [Next]_vars PROVE ThreadCountExact'
  OBVIOUS
<1>a. /\ Live \in SUBSET Workers /\ Live' \in SUBSET Workers
      /\ IsFiniteSet(Live) /\ Cardinality(Live) \in Nat
      /\ num_threads \in Nat
  <2>1. Live \in SUBSET Workers /\ Live' \in SUBSET Workers
    BY DEF Live
  <2> QED
    BY <2>1, WorkersCounted DEF Inv, TypeOK
<1>b. worker \in [Workers -> {"unborn", "failed", "loop", "park", "wait",
                              "serve", "quit", "done"}]
  BY DEF Inv, TypeOK
<1>1. ASSUME NEW w \in Workers, SpawnWorker(w) PROVE ThreadCountExact'
  <2>1. w \notin Live /\ Live' = Live \cup {w}
    BY <1>1, <1>b DEF SpawnWorker, Live
  <2>2. Cardinality(Live') = Cardinality(Live) + 1
    BY <1>a, <2>1, FS_AddElement
  <2> QED
    BY <1>1, <1>a, <2>2 DEF SpawnWorker, Inv, ThreadCountExact, pool
<1>2. ASSUME NEW w \in Workers, WorkerExit(w) PROVE ThreadCountExact'
  <2>1. w \in Live /\ Live' = Live \ {w}
    BY <1>2, <1>b DEF WorkerExit, Live
  <2>2. Cardinality(Live') = Cardinality(Live) - 1
    BY <1>a, <2>1, FS_RemoveElement
  <2> QED
    BY <1>2, <1>a, <2>2 DEF WorkerExit, Inv, ThreadCountExact
<1>3. CASE CountWorker
  <2>1. Live' = Live
    BY <1>3 DEF CountWorker, Live
  <2> QED
    BY <1>3, <1>a, <2>1 DEF CountWorker, Inv, ThreadCountExact
<1>4. ASSUME Live' = Live, num_threads' = num_threads,
             (caller' = "count") <=> (caller = "count")
      PROVE  ThreadCountExact'
  BY <1>4 DEF Inv, ThreadCountExact
<1>5. ASSUME NEW w \in Workers, SpawnFails(w) PROVE ThreadCountExact'
  BY <1>4, <1>5, <1>b DEF SpawnFails, Live, pool
<1>6. CASE StartReturns \/ StopCall \/ StopReturns
  BY <1>4, <1>6 DEF StartReturns, StopCall, StopReturns, Live, pool
<1>7. CASE MasterLoop \/ AcceptTimeout \/ ProduceWait \/ JoinWait \/ JoinDone
  BY <1>4, <1>7 DEF MasterLoop, AcceptTimeout, ProduceWait, JoinWait, JoinDone,
                    Live, pool
<1>8. ASSUME NEW c \in Conns, Accept(c) PROVE ThreadCountExact'
  BY <1>4, <1>8 DEF Accept, Live, pool
<1>9. CASE Produce
  <2>1. Live' = Live
    BY <1>9, <1>b DEF Produce, SignalQueued, Live
  <2> QED
    BY <1>4, <1>9, <2>1 DEF Produce
<1>10. CASE Broadcast
  <2>1. Live' = Live
    BY <1>10, <1>b DEF Broadcast, BroadcastQueued, Live
  <2> QED
    BY <1>4, <1>10, <2>1 DEF Broadcast, pool
<1>11. ASSUME NEW w \in Workers,
              ConsumeIdle(w) \/ CondWait(w) \/ ConsumeStop(w) \/ SpuriousWorker(w)
       PROVE  ThreadCountExact'
  BY <1>4, <1>11, <1>b
     DEF ConsumeIdle, CondWait, ConsumeStop, SpuriousWorker, Live, pool
<1>12. ASSUME NEW w \in Workers, Consume(w) \/ Serve(w) PROVE ThreadCountExact'
  BY <1>4, <1>12, <1>b DEF Consume, Serve, Live, pool
<1>13. CASE SpuriousMaster
  BY <1>4, <1>13 DEF SpuriousMaster, Live, pool
<1>14. CASE UNCHANGED vars
  BY <1>4, <1>14 DEF vars, Live
<1> QED
  BY <1>1, <1>2, <1>3, <1>5, <1>6, <1>7, <1>8, <1>9, <1>10, <1>11, <1>12,
     <1>13, <1>14 DEF Next, CallerStep, MasterStep, WorkerStep

-----------------------------------------------------------------------------
(* Typing, the bound on num_threads coming from the count. *)
LEMMA TypeStep == Inv /\ [Next]_vars => TypeOK'
<1> SUFFICES ASSUME Inv, [Next]_vars PROVE TypeOK'
  OBVIOUS
<1> USE DEF TypeOK
<1>a. TypeOK /\ QueueBounded /\ Phases /\ ThreadCountExact /\ Holds
  BY DEF Inv
<1>n. num_threads' \in Nat => num_threads' \in 0..Cardinality(Workers)
  <2>1. ThreadCountExact'
    BY CountStep
  <2>2. Live' \in SUBSET Workers
    BY DEF Live
  <2>3. /\ Cardinality(Live') \in 0..Cardinality(Workers)
        /\ Cardinality(Workers) \in Nat
    BY <2>2, WorkersCounted
  <2> QED
    BY <2>1, <2>3 DEF ThreadCountExact
<1>q. QSize \in Nat \ {0}
  BY QSizeAssumption
<1>1. ASSUME NEW w \in Workers, SpawnWorker(w) \/ SpawnFails(w) PROVE TypeOK'
  BY <1>1, <1>a DEF SpawnWorker, SpawnFails, pool, conns
<1>2. CASE CountWorker
  BY <1>2, <1>a, <1>n DEF CountWorker, conns
<1>3. CASE StartReturns \/ StopCall \/ StopReturns
  BY <1>3, <1>a DEF StartReturns, StopCall, StopReturns, pool, conns
<1>4. CASE MasterLoop \/ AcceptTimeout \/ ProduceWait \/ JoinWait \/ JoinDone
  BY <1>4, <1>a DEF MasterLoop, AcceptTimeout, ProduceWait, JoinWait, JoinDone,
                    pool, conns
<1>5. ASSUME NEW c \in Conns, Accept(c) PROVE TypeOK'
  BY <1>5, <1>a DEF Accept, pool
<1>6. CASE Produce
  <2>1. worker' \in [Workers -> {"unborn", "failed", "loop", "park", "wait",
                                 "serve", "quit", "done"}]
    BY <1>6, <1>a DEF Produce, SignalQueued
  <2>2. queue' \in [0..(QSize - 1) -> Conns \cup {NoConn}]
    BY <1>6, <1>a DEF Produce
  <2>3. sq_head' \in 0..(2 * QSize)
    BY <1>6, <1>a, <1>q DEF Produce, Full, QueueBounded
  <2> QED
    BY <1>6, <1>a, <2>1, <2>2, <2>3 DEF Produce
<1>7. CASE Broadcast
  BY <1>7, <1>a DEF Broadcast, BroadcastQueued, pool, conns
<1>8. ASSUME NEW w \in Workers,
             ConsumeIdle(w) \/ CondWait(w) \/ ConsumeStop(w) \/ SpuriousWorker(w)
      PROVE  TypeOK'
  BY <1>8, <1>a DEF ConsumeIdle, CondWait, ConsumeStop, SpuriousWorker, pool, conns
<1>9. ASSUME NEW w \in Workers, Consume(w) PROVE TypeOK'
  <2>1. queue[Slot(sq_tail)] \in Conns \cup {NoConn}
    BY <1>a, SlotInRange
  <2>2. sq_head' \in 0..(2 * QSize) /\ sq_tail' \in 0..QSize
    BY <1>9, <1>a, <1>q DEF Consume, Advance, Empty, QueueBounded
  <2> QED
    BY <1>9, <1>a, <2>1, <2>2 DEF Consume, Take, SignalRoom
<1>10. ASSUME NEW w \in Workers, Serve(w) PROVE TypeOK'
  <2>1. closed' \subseteq Conns
    BY <1>10, <1>a DEF Serve, Holds
  <2> QED
    BY <1>10, <1>a, <2>1 DEF Serve, pool
<1>11. ASSUME NEW w \in Workers, WorkerExit(w) PROVE TypeOK'
  <2>1. Live \in SUBSET Workers /\ Live # {} /\ caller # "count"
    BY <1>11, <1>a DEF WorkerExit, Live, Phases
  <2>2. Cardinality(Live) \in Nat /\ Cardinality(Live) # 0
    BY <2>1, WorkersCounted
  <2>3. num_threads' \in Nat
    BY <1>11, <1>a, <2>1, <2>2 DEF WorkerExit, ThreadCountExact
  <2> QED
    BY <1>11, <1>a, <1>n, <2>3 DEF WorkerExit, SignalExit, conns
<1>12. CASE SpuriousMaster
  BY <1>12, <1>a DEF SpuriousMaster, pool, conns
<1>13. CASE UNCHANGED vars
  BY <1>13, <1>a DEF vars
<1> QED
  BY <1>1, <1>2, <1>3, <1>4, <1>5, <1>6, <1>7, <1>8, <1>9, <1>10, <1>11,
     <1>12, <1>13 DEF Next, CallerStep, MasterStep, WorkerStep

-----------------------------------------------------------------------------
(* The ring buffer. *)
LEMMA RingStep == Inv /\ [Next]_vars => QueueBounded' /\ Holds'
<1> SUFFICES ASSUME Inv, [Next]_vars PROVE QueueBounded' /\ Holds'
  OBVIOUS
<1>a. TypeOK /\ QueueBounded /\ Holds
  BY DEF Inv
<1>q. QSize \in Nat \ {0}
  BY QSizeAssumption
<1>s. ASSUME UNCHANGED <<queue, sq_head, sq_tail, accepted, client>>,
             master' \in {"produce", "wait_room"} <=> master \in {"produce", "wait_room"},
             \A w \in Workers : worker'[w] = "serve" => worker[w] = "serve"
      PROVE  QueueBounded' /\ Holds'
  BY <1>a, <1>s DEF QueueBounded, Holds, Slot
<1>1. ASSUME NEW w \in Workers, SpawnWorker(w) \/ SpawnFails(w)
      PROVE  QueueBounded' /\ Holds'
  BY <1>1, <1>a, <1>s DEF SpawnWorker, SpawnFails, pool, conns, TypeOK
<1>2. CASE CountWorker \/ StartReturns \/ StopCall \/ StopReturns
  BY <1>2, <1>s DEF CountWorker, StartReturns, StopCall, StopReturns, pool, conns
<1>3. CASE MasterLoop \/ AcceptTimeout \/ ProduceWait \/ JoinWait \/ JoinDone
  BY <1>3, <1>s DEF MasterLoop, AcceptTimeout, ProduceWait, JoinWait, JoinDone,
                    pool, conns
<1>4. ASSUME NEW c \in Conns, Accept(c) PROVE QueueBounded' /\ Holds'
  BY <1>4, <1>a DEF Accept, pool, QueueBounded, Holds, Slot
<1>5. CASE Produce
  <2>1. sq_head' = sq_head + 1 /\ sq_tail' = sq_tail /\ ~Full
    BY <1>5 DEF Produce
  <2>2. QueueBounded'
    BY <1>a, <1>q, <2>1 DEF TypeOK, QueueBounded, Full
  <2>3. accepted \in Conns /\ accepted' = NoConn /\ master' = "loop"
    BY <1>5, <1>a DEF Produce, Holds
  <2>4. ASSUME NEW i \in sq_tail..sq_head PROVE queue'[Slot(i)] \in Conns
    <3>1. Slot(i) \in 0..(QSize - 1) /\ Slot(sq_head) \in 0..(QSize - 1)
      BY <1>a, <1>q, SlotInRange DEF TypeOK
    <3>2. CASE Slot(i) = Slot(sq_head)
      BY <1>5, <1>a, <2>3, <3>1, <3>2 DEF Produce, TypeOK
    <3>3. CASE Slot(i) # Slot(sq_head)
      <4>1. i \in sq_tail..(sq_head - 1)
        BY <1>a, <3>3 DEF TypeOK
      <4> QED
        BY <1>5, <1>a, <3>1, <3>3, <4>1 DEF Produce, TypeOK, Holds
    <3> QED
      BY <3>2, <3>3
  <2>5. \A w \in Workers : worker'[w] = "serve" => worker[w] = "serve"
    BY <1>5, <1>a DEF Produce, SignalQueued, TypeOK
  <2>6. \A i \in sq_tail'..(sq_head' - 1) : queue'[Slot(i)] \in Conns
    BY <1>a, <2>1, <2>4 DEF TypeOK
  <2> QED
    BY <1>5, <1>a, <2>2, <2>3, <2>5, <2>6, NoConnAssumption
       DEF Produce, Holds, Slot
<1>6. CASE Broadcast
  BY <1>6, <1>a, <1>s DEF Broadcast, BroadcastQueued, pool, conns, TypeOK
<1>7. ASSUME NEW w \in Workers,
             ConsumeIdle(w) \/ CondWait(w) \/ ConsumeStop(w) \/ SpuriousWorker(w)
      PROVE  QueueBounded' /\ Holds'
  BY <1>7, <1>a, <1>s
     DEF ConsumeIdle, CondWait, ConsumeStop, SpuriousWorker, pool, conns, TypeOK
<1>8. ASSUME NEW w \in Workers, Consume(w) PROVE QueueBounded' /\ Holds'
  <2>1. ~Empty /\ Take(w) /\ Advance /\ SignalRoom /\ UNCHANGED <<queue, accepted>>
    BY <1>8 DEF Consume
  <2>2. QueueBounded'
    BY <1>a, <1>q, <2>1 DEF Advance, Empty, TypeOK, QueueBounded
  <2>3. ASSUME NEW i \in sq_tail'..(sq_head' - 1)
        PROVE  queue'[Slot(i)] \in Conns
    <3>1. CASE sq_tail + 1 > QSize
      <4>1. i \in 0..(QSize - 1) /\ i + QSize \in QSize..(2 * QSize - 1)
        BY <1>a, <1>q, <2>1, <3>1 DEF Advance, TypeOK, QueueBounded
      <4>2. i + QSize \in sq_tail..(sq_head - 1)
        BY <1>a, <1>q, <2>1, <3>1 DEF Advance, TypeOK, QueueBounded
      <4>3. Slot(i) = i /\ Slot(i + QSize) = i
        BY <1>q, <4>1, SlotBelow, SlotAbove
      <4> QED
        BY <1>a, <2>1, <4>2, <4>3 DEF Holds
    <3>2. CASE ~(sq_tail + 1 > QSize)
      <4>1. i \in sq_tail..(sq_head - 1)
        BY <1>a, <1>q, <2>1, <3>2 DEF Advance, TypeOK, QueueBounded
      <4> QED
        BY <1>a, <2>1, <4>1 DEF Holds
    <3> QED
      BY <3>1, <3>2
  <2>4. queue[Slot(sq_tail)] \in Conns
    BY <1>a, <2>1 DEF Holds, Empty, TypeOK, QueueBounded
  <2>5. \A v \in Workers : worker'[v] = "serve" => client'[v] \in Conns
    BY <1>8, <1>a, <2>1, <2>4 DEF Consume, Take, Holds, TypeOK
  <2>6. master' \in {"produce", "wait_room"} <=> master \in {"produce", "wait_room"}
    BY <2>1 DEF SignalRoom
  <2> QED
    BY <1>a, <2>1, <2>2, <2>3, <2>5, <2>6 DEF Holds, Slot
<1>9. ASSUME NEW w \in Workers, Serve(w) PROVE QueueBounded' /\ Holds'
  BY <1>9, <1>a DEF Serve, pool, QueueBounded, Holds, Slot, TypeOK
<1>10. ASSUME NEW w \in Workers, WorkerExit(w) PROVE QueueBounded' /\ Holds'
  BY <1>10, <1>a, <1>s DEF WorkerExit, SignalExit, conns, TypeOK
<1>11. CASE SpuriousMaster
  BY <1>11, <1>s DEF SpuriousMaster, pool, conns
<1>12. CASE UNCHANGED vars
  BY <1>12, <1>s DEF vars
<1> QED
  BY <1>1, <1>2, <1>3, <1>4, <1>5, <1>6, <1>7, <1>8, <1>9, <1>10, <1>11,
     <1>12 DEF Next, CallerStep, MasterStep, WorkerStep

-----------------------------------------------------------------------------
(* The phases.  The one step that needs the count is the last of the       *)
(* master: when num_threads is zero no worker is left.                     *)
LEMMA PhaseStep == Inv /\ [Next]_vars => Phases'
<1> SUFFICES ASSUME Inv, [Next]_vars PROVE Phases'
  OBVIOUS
<1>a. TypeOK /\ Phases /\ ThreadCountExact
  BY DEF Inv
<1>1. ASSUME NEW w \in Workers, SpawnWorker(w) \/ SpawnFails(w) PROVE Phases'
  BY <1>1, <1>a DEF SpawnWorker, SpawnFails, pool, Phases, TypeOK, Live
<1>2. CASE CountWorker \/ StartReturns \/ StopCall \/ StopReturns
  BY <1>2, <1>a DEF CountWorker, StartReturns, StopCall, StopReturns, pool,
                    Phases, TypeOK, Live
<1>3. CASE MasterLoop \/ AcceptTimeout \/ ProduceWait \/ JoinWait
  BY <1>3, <1>a DEF MasterLoop, AcceptTimeout, ProduceWait, JoinWait, pool,
                    Phases, TypeOK, Live
<1>4. CASE JoinDone
  <2>1. caller # "count" /\ stop_flag = 1 /\ num_threads = 0
    BY <1>4, <1>a, WorkersCounted, WorkersAssumption, FS_CardinalityType
       DEF JoinDone, Phases, TypeOK
  <2>2. Live \in SUBSET Workers /\ Cardinality(Live) = 0
    BY <1>a, <2>1 DEF ThreadCountExact, Live
  <2>3. Live = {}
    BY <2>2, WorkersCounted
  <2>4. Live' = {}
    BY <1>4, <2>3 DEF JoinDone, Live
  <2> QED
    BY <1>4, <1>a, <2>1, <2>4 DEF JoinDone, Phases, TypeOK
<1>5. ASSUME NEW c \in Conns, Accept(c) PROVE Phases'
  BY <1>5, <1>a DEF Accept, pool, Phases, TypeOK, Live
<1>6. CASE Produce
  BY <1>6, <1>a DEF Produce, SignalQueued, Phases, TypeOK, Live
<1>7. CASE Broadcast
  BY <1>7, <1>a DEF Broadcast, BroadcastQueued, pool, Phases, TypeOK, Live
<1>8. ASSUME NEW w \in Workers,
             ConsumeIdle(w) \/ CondWait(w) \/ ConsumeStop(w) \/ SpuriousWorker(w)
      PROVE  Phases'
  BY <1>8, <1>a DEF ConsumeIdle, CondWait, ConsumeStop, SpuriousWorker, pool,
                    Phases, TypeOK, Live
<1>9. ASSUME NEW w \in Workers, Consume(w) \/ Serve(w) PROVE Phases'
  BY <1>9, <1>a DEF Consume, SignalRoom, Serve, pool, Phases, TypeOK, Live
<1>10. ASSUME NEW w \in Workers, WorkerExit(w) PROVE Phases'
  BY <1>10, <1>a DEF WorkerExit, SignalExit, Phases, TypeOK, Live
<1>11. CASE SpuriousMaster
  BY <1>11, <1>a DEF SpuriousMaster, pool, Phases, TypeOK, Live
<1>12. CASE UNCHANGED vars
  BY <1>12, <1>a DEF vars, Phases, Live
<1> QED
  BY <1>1, <1>2, <1>3, <1>4, <1>5, <1>6, <1>7, <1>8, <1>9, <1>10, <1>11,
     <1>12 DEF Next, CallerStep, MasterStep, WorkerStep

-----------------------------------------------------------------------------
(* Who sleeps, and why. *)
Sleepers == ParkedEmpty /\ MasterSleepsWithReason /\ WorkNotSleptOn

LEMMA SleepStep == Inv /\ [Next]_vars => Sleepers'
<1> SUFFICES ASSUME Inv, [Next]_vars PROVE Sleepers'
  OBVIOUS
<1> USE DEF Sleepers, ParkedEmpty, MasterSleepsWithReason, WorkNotSleptOn, Empty, Full
<1>a. TypeOK /\ Phases /\ Sleepers /\ QueueBounded
  BY DEF Inv
<1>n. num_threads \in Nat
  BY <1>a, WorkersAssumption, FS_CardinalityType DEF TypeOK
<1>q. QSize \in Nat \ {0} /\ sq_head \in Int /\ sq_tail \in Int
  BY <1>a, QSizeAssumption DEF TypeOK
<1>1. ASSUME NEW w \in Workers, SpawnWorker(w) \/ SpawnFails(w) PROVE Sleepers'
  BY <1>1, <1>a DEF SpawnWorker, SpawnFails, pool, TypeOK, Live
<1>2. CASE CountWorker
  BY <1>2, <1>a, <1>n DEF CountWorker, Live
<1>3. CASE StartReturns \/ StopCall \/ StopReturns
  BY <1>3, <1>a DEF StartReturns, StopCall, StopReturns, pool, Live
<1>4. CASE MasterLoop \/ AcceptTimeout \/ ProduceWait \/ JoinWait \/ JoinDone
  BY <1>4, <1>a DEF MasterLoop, AcceptTimeout, ProduceWait, JoinWait, JoinDone,
                    pool, Live
<1>5. ASSUME NEW c \in Conns, Accept(c) PROVE Sleepers'
  BY <1>5, <1>a DEF Accept, pool, Live
<1>6. CASE Produce
  <2>1. WorkNotSleptOn'
    BY <1>6, <1>a DEF Produce, SignalQueued, TypeOK, Live
  <2>2. ParkedEmpty' /\ MasterSleepsWithReason'
    BY <1>6, <1>a DEF Produce, SignalQueued, MutexFree, TypeOK
  <2> QED
    BY <2>1, <2>2
<1>7. CASE Broadcast
  BY <1>7, <1>a DEF Broadcast, BroadcastQueued, pool, Phases, TypeOK, Live
<1>8. ASSUME NEW w \in Workers,
             ConsumeIdle(w) \/ CondWait(w) \/ ConsumeStop(w) \/ SpuriousWorker(w)
      PROVE  Sleepers'
  BY <1>8, <1>a DEF ConsumeIdle, CondWait, ConsumeStop, SpuriousWorker, pool,
                    TypeOK, Live
<1>9. ASSUME NEW w \in Workers, Consume(w) PROVE Sleepers'
  BY <1>9, <1>a, <1>q DEF Consume, Advance, SignalRoom, MutexFree, TypeOK, Live
<1>10. ASSUME NEW w \in Workers, Serve(w) PROVE Sleepers'
  BY <1>10, <1>a DEF Serve, pool, TypeOK, Live
<1>11. ASSUME NEW w \in Workers, WorkerExit(w) PROVE Sleepers'
  BY <1>11, <1>a DEF WorkerExit, SignalExit, Phases, TypeOK, Live
<1>12. CASE SpuriousMaster
  BY <1>12, <1>a DEF SpuriousMaster, pool, Live
<1>13. CASE UNCHANGED vars
  BY <1>13, <1>a DEF vars, Live
<1> QED
  BY <1>1, <1>2, <1>3, <1>4, <1>5, <1>6, <1>7, <1>8, <1>9, <1>10, <1>11,
     <1>12, <1>13 DEF Next, CallerStep, MasterStep, WorkerStep

-----------------------------------------------------------------------------
(* Inv is an invariant of the pool. *)
THEOREM Invariance == Spec => []Inv
<1>1. Inv /\ [Next]_vars => Inv'
  BY CountStep, TypeStep, RingStep, PhaseStep, SleepStep DEF Inv, Sleepers
<1> QED
  BY InitInv, <1>1, PTL DEF Spec

(* Every variable keeps its type; in particular the ring indices and the   *)
(* number of threads stay in their ranges.                                 *)
THEOREM TypeCorrect == Spec => []TypeOK
<1>1. Inv => TypeOK
  BY DEF Inv
<1> QED
  BY Invariance, <1>1, PTL

(* The assertions of consume_socket and produce_socket never fail, for any *)
(* size of the queue.                                                      *)
THEOREM QueueAlwaysBounded == Spec => []QueueBounded
<1>1. Inv => QueueBounded
  BY DEF Inv
<1> QED
  BY Invariance, <1>1, PTL

(* num_threads always counts the threads that can still use the context.   *)
THEOREM ThreadsCounted == Spec => []ThreadCountExact
<1>1. Inv => ThreadCountExact
  BY DEF Inv
<1> QED
  BY Invariance, <1>1, PTL

(* When the master destroys the mutex, and when mg_stop frees the context, *)
(* no thread is left that could use them.                                  *)
THEOREM QuietWhenFreed == Spec => []QuietAtReturn
<1>1. Inv => QuietAtReturn
  BY DEF Inv, Phases, QuietAtReturn, Served, Live
<1> QED
  BY Invariance, <1>1, PTL

(* The master waits for room only in a full queue, and for exits only      *)
(* while a worker has to exit.                                             *)
THEOREM MasterHasReason == Spec => []MasterSleepsWithReason
<1>1. Inv => MasterSleepsWithReason
  BY DEF Inv
<1> QED
  BY Invariance, <1>1, PTL

(* No queued connection is left to sleeping workers while the server is    *)
(* open.                                                                   *)
THEOREM NobodySleepsOnWork == Spec => []WorkNotSleptOn
<1>1. Inv => WorkNotSleptOn
  BY DEF Inv
<1> QED
  BY Invariance, <1>1, PTL

-----------------------------------------------------------------------------
(* The pool implements the first-in first-out service of                   *)
(* ConnectionService, and keeps every connection in one place.             *)

(* The places of the queue. *)
Queue == 1..(sq_head - sq_tail)

(* No connection is in the queue twice. *)
Distinct == \A i, j \in Queue : Pending[i] = Pending[j] => i = j

(* A worker that serves nothing has no connection. *)
IdleHasNone == \A w \in Workers : worker[w] # "serve" => client[w] = NoConn

(* What a step that moves no connection leaves alone. *)
Unmoved ==
  /\ UNCHANGED <<queue, sq_head, sq_tail, accepted, client, backlog, closed>>
  /\ \A w \in Workers : worker'[w] = "serve" <=> worker[w] = "serve"

(* The invariant that keeps connections in one place. *)
OneInv == Inv /\ OnePlace /\ IdleHasNone

-----------------------------------------------------------------------------
(* Two indices less than the size of the ring apart have different slots.  *)
LEMMA SlotsDiffer ==
  ASSUME NEW i \in 0..(2 * QSize - 1), NEW j \in 0..(2 * QSize - 1),
         i < j, j < i + QSize
  PROVE  Slot(i) # Slot(j)
<1>1. QSize \in Nat \ {0}
  BY QSizeAssumption
<1>2. CASE j < QSize
  BY <1>1, <1>2, SlotBelow
<1>3. CASE i < QSize /\ j >= QSize
  BY <1>1, <1>3, SlotBelow, SlotAbove
<1>4. CASE i >= QSize
  BY <1>1, <1>4, SlotAbove
<1> QED
  BY <1>1, <1>2, <1>3, <1>4

(* The queue as a sequence. *)
LEMMA PendingIsSeq ==
  ASSUME Inv
  PROVE  /\ sq_head - sq_tail \in Nat
         /\ Pending \in Seq(Conns)
         /\ Len(Pending) = sq_head - sq_tail
         /\ \A i \in Queue : Pending[i] = queue[Slot(sq_tail + i - 1)]
<1>1. sq_head \in Nat /\ sq_tail \in Nat /\ sq_head - sq_tail \in Nat
  BY QSizeAssumption DEF Inv, TypeOK, QueueBounded
<1>2. \A i \in Queue : sq_tail + i - 1 \in sq_tail..(sq_head - 1)
  BY <1>1 DEF Queue
<1>3. \A i \in Queue : queue[Slot(sq_tail + i - 1)] \in Conns
  BY <1>2 DEF Inv, Holds
<1>4. Pending \in [Queue -> Conns]
  BY <1>3 DEF Pending, Queue
<1>5. Pending \in Seq(Conns) /\ Len(Pending) = sq_head - sq_tail
  BY <1>1, <1>4 DEF Queue
<1> QED
  BY <1>1, <1>5 DEF Pending, Queue

(* Its elements are the connections in the ring. *)
LEMMA QueuedIsPending ==
  ASSUME Inv
  PROVE  Queued = {Pending[i] : i \in Queue}
<1>1. sq_head \in Nat /\ sq_tail \in Nat
  BY QSizeAssumption DEF Inv, TypeOK
<1>2. ASSUME NEW i \in Queue PROVE Pending[i] \in Queued
  <2>1. sq_tail + i - 1 \in sq_tail..(sq_head - 1)
    BY <1>1 DEF Queue
  <2> QED
    BY <2>1, PendingIsSeq DEF Queued, Window
<1>3. ASSUME NEW c \in Queued PROVE \E i \in Queue : c = Pending[i]
  <2>1. PICK k \in sq_tail..(sq_head - 1) : c = queue[Slot(k)]
    BY DEF Queued, Window
  <2>2. k - sq_tail + 1 \in Queue /\ sq_tail + (k - sq_tail + 1) - 1 = k
    BY <1>1, <2>1 DEF Queue
  <2> QED
    BY <2>1, <2>2, PendingIsSeq
<1> QED
  BY <1>2, <1>3

(* The ring has no connection twice exactly if the sequence has not. *)
LEMMA DistinctSlots ==
  ASSUME Inv
  PROVE  Distinct <=> \A i, j \in sq_tail..(sq_head - 1) :
                        queue[Slot(i)] = queue[Slot(j)] => i = j
<1>1. sq_head \in Nat /\ sq_tail \in Nat
  BY QSizeAssumption DEF Inv, TypeOK
<1>2. \A i \in Queue : sq_tail + i - 1 \in sq_tail..(sq_head - 1)
  BY <1>1 DEF Queue
<1>3. ASSUME NEW k \in sq_tail..(sq_head - 1)
      PROVE  k - sq_tail + 1 \in Queue /\ Pending[k - sq_tail + 1] = queue[Slot(k)]
  <2>1. k - sq_tail + 1 \in Queue /\ sq_tail + (k - sq_tail + 1) - 1 = k
    BY <1>1 DEF Queue
  <2> QED
    BY <2>1, PendingIsSeq
<1>4. ASSUME Distinct, NEW i \in sq_tail..(sq_head - 1),
             NEW j \in sq_tail..(sq_head - 1), queue[Slot(i)] = queue[Slot(j)]
      PROVE  i = j
  <2>1. i - sq_tail + 1 = j - sq_tail + 1
    BY <1>3, <1>4 DEF Distinct
  <2> QED
    BY <1>1, <2>1
<1>5. ASSUME \A i, j \in sq_tail..(sq_head - 1) :
               queue[Slot(i)] = queue[Slot(j)] => i = j,
             NEW i \in Queue, NEW j \in Queue, Pending[i] = Pending[j]
      PROVE  i = j
  <2>1. sq_tail + i - 1 = sq_tail + j - 1
    BY <1>2, <1>5, PendingIsSeq
  <2> QED
    BY <1>1, <2>1 DEF Queue
<1> QED
  BY <1>4, <1>5 DEF Distinct

(* The master appends to it. *)
LEMMA ProduceAppends ==
  ASSUME Inv, Inv', Produce
  PROVE  Pending' = Append(Pending, accepted) /\ accepted \in Conns
<1>1. /\ sq_head' = sq_head + 1 /\ sq_tail' = sq_tail /\ ~Full
      /\ queue' = [queue EXCEPT ![Slot(sq_head)] = accepted]
  BY DEF Produce
<1>2. QSize \in Nat \ {0} /\ sq_head \in Nat /\ sq_tail \in Nat
  BY QSizeAssumption DEF Inv, TypeOK
<1>3. accepted \in Conns
  BY DEF Inv, Holds, Produce
<1>4. sq_head \in 0..(2 * QSize - 1) /\ sq_head < sq_tail + QSize
  BY <1>1, <1>2 DEF Full, Inv, TypeOK
<1>5. ASSUME NEW i \in Queue
      PROVE  queue'[Slot(sq_tail + i - 1)] = Pending[i]
  <2>1. /\ sq_tail + i - 1 \in 0..(2 * QSize - 1)
        /\ sq_tail + i - 1 < sq_head /\ sq_head < sq_tail + i - 1 + QSize
    BY <1>2, <1>4 DEF Queue
  <2>2. Slot(sq_tail + i - 1) # Slot(sq_head)
    BY <1>4, <2>1, SlotsDiffer
  <2>3. Slot(sq_tail + i - 1) \in 0..(QSize - 1)
    BY <2>1, SlotInRange
  <2> QED
    BY <1>1, <2>2, <2>3, PendingIsSeq DEF Inv, TypeOK
<1>6. Slot(sq_head) \in 0..(QSize - 1)
  BY <1>2, SlotInRange
<1>7. queue'[Slot(sq_head)] = accepted
  BY <1>1, <1>6 DEF Inv, TypeOK
<1>8. Pending' = [i \in 1..(sq_head - sq_tail + 1) |->
                    queue'[Slot(sq_tail + i - 1)]]
  BY <1>1, <1>2 DEF Pending, Slot
<1>9. Append(Pending, accepted) \in Seq(Conns) /\ Pending' \in Seq(Conns)
  <2>1. ASSUME NEW i \in 1..(sq_head - sq_tail + 1)
        PROVE  queue'[Slot(sq_tail + i - 1)] \in Conns
    <3>1. CASE i \in Queue
      BY <1>5, <3>1, PendingIsSeq, ElementOfSeq DEF Queue
    <3>2. CASE i = sq_head - sq_tail + 1
      <4>1. sq_tail + i - 1 = sq_head
        BY <1>2, <3>2
      <4> QED
        BY <1>3, <1>7, <4>1
    <3> QED
      BY <1>2, <3>1, <3>2 DEF Queue
  <2> QED
    BY <1>2, <1>3, <1>8, <2>1, PendingIsSeq, AppendProperties
<1>10. /\ Len(Pending') = sq_head - sq_tail + 1
       /\ Len(Append(Pending, accepted)) = sq_head - sq_tail + 1
  BY <1>3, <1>8, PendingIsSeq, AppendProperties
<1>11. ASSUME NEW i \in 1..(sq_head - sq_tail + 1)
       PROVE  Pending'[i] = Append(Pending, accepted)[i]
  <2>1. CASE i \in Queue
    BY <1>3, <1>5, <1>8, <2>1, PendingIsSeq, AppendProperties DEF Queue
  <2>2. CASE i = sq_head - sq_tail + 1
    <3>1. sq_tail + i - 1 = sq_head
      BY <1>2, <2>2
    <3>2. Pending'[i] = accepted
      BY <1>7, <1>8, <3>1
    <3>3. Append(Pending, accepted)[Len(Pending) + 1] = accepted
      BY <1>3, PendingIsSeq, AppendProperties
    <3> QED
      BY <2>2, <3>2, <3>3, PendingIsSeq
  <2>3. i \in Queue \/ i = sq_head - sq_tail + 1
    BY <1>2 DEF Queue
  <2> QED
    BY <2>1, <2>2, <2>3
<1> QED
  BY <1>3, <1>9, <1>10, <1>11, SeqEqual

(* A worker takes its head, also when it pulls the pointers back. *)
LEMMA ConsumeTakesHead ==
  ASSUME Inv, Inv', NEW w \in Workers, Consume(w)
  PROVE  /\ Pending # <<>>
         /\ client' = [client EXCEPT ![w] = Head(Pending)]
         /\ Pending' = Tail(Pending)
<1>1. ~Empty /\ Take(w) /\ Advance /\ queue' = queue
  BY DEF Consume
<1>2. QSize \in Nat \ {0} /\ sq_head \in Nat /\ sq_tail \in Nat
  BY QSizeAssumption DEF Inv, TypeOK
<1>3. sq_head - sq_tail \in Nat \ {0} /\ 1 \in Queue
  BY <1>1, <1>2 DEF Empty, Inv, QueueBounded, Queue
<1>4. Pending # <<>>
  BY <1>3, PendingIsSeq, EmptySeq
<1>5. Head(Pending) = queue[Slot(sq_tail)]
  <2>1. sq_tail + 1 - 1 = sq_tail
    BY <1>2
  <2>2. Head(Pending) = Pending[1]
    BY <1>4, PendingIsSeq
  <2> QED
    BY <1>3, <2>1, <2>2, PendingIsSeq
<1>6. sq_head' - sq_tail' = sq_head - sq_tail - 1 /\ sq_tail' \in Nat
  BY <1>1, <1>2 DEF Advance, Inv, TypeOK
<1>7. ASSUME NEW i \in 1..(sq_head - sq_tail - 1)
      PROVE  Slot(sq_tail' + i - 1) = Slot(sq_tail + (i + 1) - 1)
  <2>1. CASE sq_tail + 1 > QSize
    <3>1. sq_tail = QSize /\ sq_tail' = 1
      BY <1>1, <1>2, <2>1 DEF Advance, Inv, TypeOK
    <3>2. i \in 0..(QSize - 1) /\ i + QSize \in QSize..(2 * QSize - 1)
      BY <1>2 DEF Inv, QueueBounded
    <3>3. sq_tail' + i - 1 = i /\ sq_tail + (i + 1) - 1 = i + QSize
      BY <1>2, <3>1
    <3>4. Slot(i) = i
      BY <3>2, SlotBelow
    <3>5. Slot(i + QSize) = (i + QSize) - QSize
      BY <3>2, SlotAbove
    <3>6. (i + QSize) - QSize = i
      BY <1>2, <3>2
    <3> QED
      BY <3>3, <3>4, <3>5, <3>6
  <2>2. CASE ~(sq_tail + 1 > QSize)
    <3>1. sq_tail' + i - 1 = sq_tail + (i + 1) - 1
      BY <1>1, <1>2, <2>2 DEF Advance
    <3> QED
      BY <3>1
  <2> QED
    BY <2>1, <2>2
<1>8. Pending' = [i \in 1..(sq_head - sq_tail - 1) |-> Pending[i + 1]]
  <2>1. ASSUME NEW i \in 1..(sq_head - sq_tail - 1)
        PROVE  queue'[Slot(sq_tail' + i - 1)] = Pending[i + 1]
    <3>1. i + 1 \in Queue
      BY <1>2 DEF Queue
    <3> QED
      BY <1>1, <1>7, <3>1, PendingIsSeq
  <2>2. Pending' = [i \in 1..(sq_head' - sq_tail') |->
                      queue'[Slot(sq_tail' + i - 1)]]
    BY DEF Pending, Slot
  <2> QED
    BY <1>6, <2>1, <2>2
<1>9. Pending' = Tail(Pending)
  <2>1. /\ Tail(Pending) \in Seq(Conns) /\ Len(Tail(Pending)) = sq_head - sq_tail - 1
        /\ \A i \in 1..Len(Tail(Pending)) : Tail(Pending)[i] = Pending[i + 1]
    BY <1>4, PendingIsSeq, HeadTailProperties
  <2>2. Tail(Pending) \in [1..(sq_head - sq_tail - 1) -> Conns]
    BY <2>1, LenProperties
  <2> QED
    BY <1>8, <2>1, <2>2
<1> QED
  BY <1>1, <1>4, <1>5, <1>9 DEF Take

(* A step that moves no connection leaves the queue as it is. *)
LEMMA UnmovedPending ==
  ASSUME UNCHANGED <<queue, sq_head, sq_tail>>
  PROVE  Pending' = Pending /\ Queued' = Queued /\ Queue' = Queue
  BY DEF Pending, Queued, Window, Queue, Slot

-----------------------------------------------------------------------------
(* Which steps move connections, and which do not. *)
LEMMA StepKinds ==
  ASSUME Inv, [Next]_vars
  PROVE  \/ Unmoved
         \/ \E c \in Conns : Accept(c)
         \/ Produce
         \/ \E w \in Workers : Consume(w) \/ Serve(w)
<1> USE DEF Unmoved, pool, conns, Inv, TypeOK
<1>1. ASSUME NEW w \in Workers, SpawnWorker(w) \/ SpawnFails(w) PROVE Unmoved
  BY <1>1 DEF SpawnWorker, SpawnFails
<1>2. CASE CountWorker \/ StartReturns \/ StopCall \/ StopReturns
  BY <1>2 DEF CountWorker, StartReturns, StopCall, StopReturns
<1>3. CASE MasterLoop \/ AcceptTimeout \/ ProduceWait \/ JoinWait \/ JoinDone
  BY <1>3 DEF MasterLoop, AcceptTimeout, ProduceWait, JoinWait, JoinDone
<1>4. CASE Broadcast
  BY <1>4 DEF Broadcast, BroadcastQueued
<1>5. ASSUME NEW w \in Workers,
             \/ ConsumeIdle(w) \/ CondWait(w) \/ ConsumeStop(w)
             \/ SpuriousWorker(w) \/ WorkerExit(w)
      PROVE  Unmoved
  BY <1>5 DEF ConsumeIdle, CondWait, ConsumeStop, SpuriousWorker, WorkerExit
<1>6. CASE SpuriousMaster
  BY <1>6 DEF SpuriousMaster
<1>7. CASE UNCHANGED vars
  BY <1>7 DEF vars
<1> QED
  BY <1>1, <1>2, <1>3, <1>4, <1>5, <1>6, <1>7
  DEF Next, CallerStep, MasterStep, WorkerStep

(* OnePlace, said of the sequence. *)
OneParts ==
  /\ Distinct
  /\ \A v, w \in Workers :
       worker[v] = "serve" /\ client[v] = client[w] => v = w
  /\ Conns = backlog \cup InHand \cup Queued \cup Served \cup closed
  /\ backlog \cap (InHand \cup Queued \cup Served \cup closed) = {}
  /\ InHand \cap (Queued \cup Served \cup closed) = {}
  /\ Queued \cap (Served \cup closed) = {}
  /\ Served \cap closed = {}

LEMMA OnePlaceSeq ==
  ASSUME Inv
  PROVE  OnePlace <=> OneParts
  BY DistinctSlots DEF OnePlace, OneParts

(* What is needed of these facts in the next state. *)
SequenceFacts ==
  /\ sq_head - sq_tail = Len(Pending)
  /\ Queued = {Pending[i] : i \in Queue}
  /\ OneParts => OnePlace

(* They hold in every state, and so in the next one. *)
LEMMA ThisState == Inv => SequenceFacts
  BY PendingIsSeq, QueuedIsPending, OnePlaceSeq DEF SequenceFacts

LEMMA NextState == Inv' => SequenceFacts'
  BY ThisState, PTL

(* The master puts the connection it has in hand into the queue. *)
LEMMA ProduceMoves ==
  ASSUME OneInv, Inv', Produce
  PROVE  /\ Queued' = Queued \cup {accepted}
         /\ Distinct'
         /\ Served' = Served /\ InHand = {accepted} /\ InHand' = {}
<1>1. /\ accepted \in Conns /\ accepted \notin Queued
      /\ InHand = {accepted} /\ InHand' = {}
  BY ProduceAppends, NoConnAssumption
  DEF OneInv, OnePlace, InHand, Produce
<1>2. /\ Pending' \in Seq(Conns) /\ Len(Pending') = Len(Pending) + 1
      /\ \A i \in Queue : Pending'[i] = Pending[i]
      /\ Pending'[Len(Pending) + 1] = accepted
  BY ProduceAppends, PendingIsSeq, AppendProperties DEF OneInv, Queue
<1>3. Queue' = Queue \cup {Len(Pending) + 1} /\ Len(Pending) \in Nat
  BY PendingIsSeq DEF OneInv, Queue, Produce, Inv, TypeOK
<1>4. Queued' = {Pending'[i] : i \in Queue'}
  BY NextState DEF SequenceFacts
<1>5. Queued = {Pending[i] : i \in Queue}
  BY QueuedIsPending DEF OneInv
<1>6. Queued' = Queued \cup {accepted}
  BY <1>2, <1>3, <1>4, <1>5
<1>7. Distinct'
  <2>1. Distinct
    BY OnePlaceSeq DEF OneInv, OneParts
  <2> QED
    BY <1>1, <1>2, <1>3, <1>5, <2>1 DEF Distinct
<1>8. Served' = Served
  BY DEF Produce, SignalQueued, Served, OneInv, Inv, TypeOK
<1> QED
  BY <1>1, <1>6, <1>7, <1>8

(* A worker takes one connection from the queue to serve it. *)
LEMMA ConsumeMoves ==
  ASSUME OneInv, Inv', NEW w \in Workers, Consume(w)
  PROVE  /\ Head(Pending) \in Queued
         /\ Queued' = Queued \ {Head(Pending)}
         /\ Distinct'
         /\ Served' = Served \cup {Head(Pending)}
<1>1. Pending # <<>> /\ Pending' = Tail(Pending) /\ Pending \in Seq(Conns)
  BY ConsumeTakesHead, PendingIsSeq DEF OneInv
<1>2. Len(Pending) \in Nat \ {0} /\ Queue = 1..Len(Pending)
  BY <1>1, PendingIsSeq, EmptySeq DEF OneInv, Queue
<1>3. /\ Len(Pending') = Len(Pending) - 1
      /\ \A i \in 1..(Len(Pending) - 1) : Pending'[i] = Pending[i + 1]
      /\ Head(Pending) = Pending[1]
  BY <1>1, HeadTailProperties
<1>4. Queue' = 1..(Len(Pending) - 1)
  BY <1>1, <1>3, NextState DEF SequenceFacts, Queue
<1>5. /\ Queued' = {Pending'[i] : i \in Queue'}
      /\ Queued = {Pending[i] : i \in Queue}
  BY QueuedIsPending, NextState DEF SequenceFacts, OneInv
<1>6. Distinct
  BY OnePlaceSeq DEF OneInv, OneParts
<1>7. \A i \in Queue' : i + 1 \in Queue /\ i + 1 # 1 /\ Pending'[i] = Pending[i + 1]
  BY <1>2, <1>3, <1>4
<1>8. \A i \in Queue : i # 1 => i - 1 \in Queue' /\ Pending'[i - 1] = Pending[i]
  BY <1>2, <1>3, <1>4
<1>9. 1 \in Queue
  BY <1>2
<1>10. Queued' = Queued \ {Head(Pending)}
  <2>1. ASSUME NEW c \in Queued' PROVE c \in Queued \ {Pending[1]}
    <3>1. PICK i \in Queue' : c = Pending'[i]
      BY <1>5
    <3> QED
      BY <1>5, <1>6, <1>7, <1>9, <3>1 DEF Distinct
  <2>2. ASSUME NEW c \in Queued \ {Pending[1]} PROVE c \in Queued'
    <3>1. PICK i \in Queue : c = Pending[i] /\ i # 1
      BY <1>5
    <3> QED
      BY <1>5, <1>8, <3>1
  <2> QED
    BY <1>3, <2>1, <2>2
<1>11. Distinct'
  <2>1. ASSUME NEW i \in Queue', NEW j \in Queue', Pending'[i] = Pending'[j]
        PROVE  i = j
    <3>1. i + 1 = j + 1
      BY <1>6, <1>7, <2>1 DEF Distinct
    <3> QED
      BY <1>2, <1>4, <3>1
  <2> QED
    BY <2>1 DEF Distinct
<1>12. Served' = Served \cup {Head(Pending)}
  <2>1. client' = [client EXCEPT ![w] = Head(Pending)]
    BY ConsumeTakesHead DEF OneInv
  <2>2. worker' = [worker EXCEPT ![w] = "serve"] /\ worker[w] = "loop"
    BY DEF Consume
  <2> QED
    BY <2>1, <2>2 DEF Served, OneInv, Inv, TypeOK
<1> QED
  BY <1>3, <1>5, <1>9, <1>10, <1>11, <1>12

(* A worker closes the connection it serves, and nobody else serves it. *)
LEMMA ServeMoves ==
  ASSUME OneInv, NEW w \in Workers, Serve(w)
  PROVE  /\ client[w] \in Served /\ client[w] # NoConn
         /\ Served' = Served \ {client[w]}
         /\ closed' = closed \cup {client[w]}
<1>1. /\ worker[w] = "serve" /\ worker' = [worker EXCEPT ![w] = "loop"]
      /\ client' = [client EXCEPT ![w] = NoConn]
      /\ closed' = closed \cup {client[w]}
  BY DEF Serve
<1>2. client[w] \in Served /\ client[w] # NoConn
  BY <1>1, NoConnAssumption DEF Served, OneInv, Inv, Holds
<1>3. \A v \in Workers : worker[v] = "serve" /\ client[v] = client[w] => v = w
  BY DEF OneInv, OnePlace
<1>4. Served' = Served \ {client[w]}
  BY <1>1, <1>3 DEF Served, OneInv, Inv, TypeOK
<1> QED
  BY <1>1, <1>2, <1>4

(* OnePlace is kept by every step. *)
LEMMA OneStep ==
  ASSUME OneInv, Inv', [Next]_vars
  PROVE  OnePlace' /\ IdleHasNone'
<1> USE DEF OneInv
<1>1. CASE Unmoved
  <2>1. Queued' = Queued /\ Served' = Served /\ InHand' = InHand
    BY <1>1, UnmovedPending DEF Unmoved, Served, InHand
  <2>2. Distinct' <=> Distinct
    BY <1>1, UnmovedPending DEF Unmoved, Distinct
  <2>3. backlog' = backlog /\ closed' = closed /\ client' = client
    BY <1>1 DEF Unmoved
  <2>4. IdleHasNone'
    BY <1>1 DEF Unmoved, IdleHasNone
  <2>5. \A v, w \in Workers :
          worker'[v] = "serve" /\ client'[v] = client'[w] => v = w
    BY <1>1 DEF Unmoved, OnePlace
  <2> QED
    BY <2>1, <2>2, <2>3, <2>4, <2>5, OnePlaceSeq, NextState DEF SequenceFacts, OneParts
<1>2. ASSUME NEW c \in Conns, Accept(c) PROVE OnePlace' /\ IdleHasNone'
  <2>1. Queued' = Queued /\ Served' = Served /\ (Distinct' <=> Distinct)
    BY <1>2, UnmovedPending DEF Accept, pool, Served, Distinct
  <2>2. InHand = {} /\ InHand' = {c} /\ c \in backlog /\ backlog' = backlog \ {c}
    BY <1>2, NoConnAssumption DEF Accept, InHand, Inv, Holds, TypeOK
  <2>3. closed' = closed /\ client' = client /\ worker' = worker
    BY <1>2 DEF Accept
  <2> QED
    BY <2>1, <2>2, <2>3, OnePlaceSeq, NextState DEF SequenceFacts, OneParts, IdleHasNone
<1>3. CASE Produce
  <2>1. /\ Queued' = Queued \cup {accepted} /\ Distinct'
        /\ Served' = Served /\ InHand = {accepted} /\ InHand' = {}
    BY <1>3, ProduceMoves
  <2>2. backlog' = backlog /\ closed' = closed /\ client' = client
    BY <1>3 DEF Produce
  <2>3. \A v \in Workers : worker'[v] = "serve" <=> worker[v] = "serve"
    BY <1>3 DEF Produce, SignalQueued, Inv, TypeOK
  <2>4. IdleHasNone'
    BY <2>2, <2>3 DEF IdleHasNone
  <2>5. \A v, w \in Workers :
          worker'[v] = "serve" /\ client'[v] = client'[w] => v = w
    BY <2>2, <2>3 DEF OnePlace
  <2> QED
    BY <2>1, <2>2, <2>4, <2>5, OnePlaceSeq, NextState DEF SequenceFacts, OneParts
<1>4. ASSUME NEW w \in Workers, Consume(w) PROVE OnePlace' /\ IdleHasNone'
  <2>1. /\ Head(Pending) \in Queued /\ Queued' = Queued \ {Head(Pending)}
        /\ Distinct' /\ Served' = Served \cup {Head(Pending)}
    BY <1>4, ConsumeMoves
  <2>2. client' = [client EXCEPT ![w] = Head(Pending)]
    BY <1>4, ConsumeTakesHead
  <2>3. /\ worker' = [worker EXCEPT ![w] = "serve"] /\ worker[w] = "loop"
        /\ backlog' = backlog /\ closed' = closed /\ accepted' = accepted
    BY <1>4 DEF Consume
  <2>4. InHand' = InHand
    BY <2>3 DEF InHand
  <2>5. IdleHasNone'
    BY <2>2, <2>3 DEF IdleHasNone, Inv, TypeOK
  <2>6. Head(Pending) \in Conns
    BY <1>4, ConsumeTakesHead, PendingIsSeq, HeadTailProperties
  <2>7. \A v \in Workers : client[v] # Head(Pending)
    BY <2>1, <2>6, NoConnAssumption DEF OnePlace, Served, IdleHasNone
  <2>8. \A v, u \in Workers :
          worker'[v] = "serve" /\ client'[v] = client'[u] => v = u
    BY <2>2, <2>3, <2>7 DEF OnePlace, Inv, TypeOK
  <2> QED
    BY <2>1, <2>3, <2>4, <2>5, <2>8, OnePlaceSeq, NextState DEF SequenceFacts, OneParts
<1>5. ASSUME NEW w \in Workers, Serve(w) PROVE OnePlace' /\ IdleHasNone'
  <2>1. /\ client[w] \in Served /\ client[w] # NoConn
        /\ Served' = Served \ {client[w]} /\ closed' = closed \cup {client[w]}
    BY <1>5, ServeMoves
  <2>2. /\ worker' = [worker EXCEPT ![w] = "loop"]
        /\ client' = [client EXCEPT ![w] = NoConn]
        /\ backlog' = backlog /\ accepted' = accepted
        /\ UNCHANGED <<queue, sq_head, sq_tail>>
    BY <1>5 DEF Serve, pool
  <2>3. Queued' = Queued /\ (Distinct' <=> Distinct) /\ InHand' = InHand
    BY <2>2, UnmovedPending DEF Distinct, InHand
  <2>4. IdleHasNone'
    BY <2>2 DEF IdleHasNone, Inv, TypeOK
  <2>5. \A v, u \in Workers :
          worker'[v] = "serve" /\ client'[v] = client'[u] => v = u
    <3>1. \A v \in Workers : worker[v] = "serve" => client[v] # NoConn
      BY NoConnAssumption DEF Inv, Holds
    <3> QED
      BY <2>2, <3>1 DEF OnePlace, Inv, TypeOK
  <2> QED
    BY <2>1, <2>2, <2>3, <2>4, <2>5, OnePlaceSeq, NextState DEF SequenceFacts, OneParts
<1> QED
  BY <1>1, <1>2, <1>3, <1>4, <1>5, StepKinds

(* All connections are in the backlog when mg_start is called. *)
LEMMA OneInit == Init => OnePlace /\ IdleHasNone
<1> SUFFICES ASSUME Init PROVE OnePlace /\ IdleHasNone
  OBVIOUS
<1>1. sq_tail..(sq_head - 1) = {}
  BY DEF Init
<1>2. Queued = {} /\ Served = {} /\ InHand = {}
  BY <1>1 DEF Init, Queued, Window, Served, InHand
<1> QED
  BY <1>1, <1>2 DEF Init, OnePlace, IdleHasNone

(* The strengthened invariant holds in every reachable state. *)
THEOREM OneInvariance == Spec => []OneInv
<1>1. Init => OneInv
  BY InitInv, OneInit DEF OneInv
<1>2. OneInv /\ Inv' /\ [Next]_vars => OneInv'
  BY OneStep DEF OneInv
<1> QED
  BY <1>1, <1>2, Invariance, PTL DEF Spec

(* No connection is lost, overwritten in the ring, queued twice or served  *)
(* by two workers, for any size of the queue and any number of workers.    *)
THEOREM EveryConnectionInOnePlace == Spec => []OnePlace
<1>1. OneInv => OnePlace
  BY DEF OneInv
<1> QED
  BY <1>1, OneInvariance, PTL

-----------------------------------------------------------------------------
(* A pool that has just been created is an open service without clients. *)
LEMMA ServiceInit == Init => Service!Init
<1> SUFFICES ASSUME Init PROVE Service!Init
  OBVIOUS
<1>1. Inv
  BY InitInv
<1>2. Len(Pending) = 0 /\ Pending \in Seq(Conns)
  BY <1>1, PendingIsSeq DEF Init
<1>3. Pending = <<>>
  BY <1>2
<1>4. Served = {}
  BY DEF Init, Served
<1>5. Phase = "open" /\ closed = {}
  BY DEF Init, Phase
<1> QED
  BY <1>3, <1>4, <1>5 DEF Service!Init

(* The service counts as the pool does. *)
LEMMA SameCardinality == \A S : Service!Cardinality(S) = Cardinality(S)
  BY DEF Service!Cardinality, Cardinality

(* A worker that is about to serve leaves room for one more in service. *)
LEMMA RoomToServe ==
  ASSUME OneInv, NEW w \in Workers, worker[w] # "serve"
  PROVE  Cardinality(Served) < Cardinality(Workers)
<1> DEFINE Busy == {v \in Workers : worker[v] = "serve"}
           f == [v \in Busy |-> client[v]]
<1>1. IsFiniteSet(Busy)
  BY WorkersAssumption, FS_Subset
<1>2. f \in Surjection(Busy, Served)
  BY DEF Surjection, Served
<1>3. Cardinality(Served) <= Cardinality(Busy) /\ IsFiniteSet(Served)
  BY <1>1, <1>2, FS_Surjection
<1>4. Busy \subseteq Workers \ {w}
  OBVIOUS
<1>5. /\ IsFiniteSet(Workers \ {w})
      /\ Cardinality(Workers \ {w}) = Cardinality(Workers) - 1
  BY WorkersAssumption, FS_RemoveElement
<1>6. Cardinality(Busy) <= Cardinality(Workers \ {w})
  BY <1>4, <1>5, FS_Subset
<1>7. /\ Cardinality(Served) \in Nat /\ Cardinality(Busy) \in Nat
      /\ Cardinality(Workers) \in Nat
  BY <1>1, <1>3, WorkersAssumption, FS_CardinalityType
<1> QED
  BY <1>3, <1>5, <1>6, <1>7

(* The flag changes in two ways only. *)
LEMMA FlagStep ==
  ASSUME OneInv, OneInv', Unmoved, [Next]_vars
  PROVE  \/ Phase' = Phase
         \/ Phase = "open" /\ Phase' = "stopping"
         \/ Phase = "stopping" /\ Phase' = "stopped" /\ Served = {}
<1>1. CASE StopCall
  BY <1>1 DEF StopCall, Phase, OneInv, Inv, Phases
<1>2. CASE JoinDone
  <2>1. stop_flag = 1 /\ stop_flag' = 2
    BY <1>2 DEF JoinDone, OneInv, Inv, Phases, TypeOK
  <2>2. Live' = {}
    BY <2>1 DEF OneInv, Inv, Phases
  <2>3. Served = {}
    BY <1>2, <2>2 DEF JoinDone, Live, Served
  <2> QED
    BY <2>1, <2>3 DEF Phase
<1>3. CASE stop_flag' = stop_flag
  BY <1>3 DEF Phase
<1>4. stop_flag' = stop_flag \/ StopCall \/ JoinDone
  BY DEF Next, vars, pool, CallerStep, SpawnWorker, SpawnFails, CountWorker,
         StartReturns, StopReturns, MasterStep, MasterLoop, AcceptTimeout,
         ProduceWait, Produce, Broadcast, JoinWait, Accept, WorkerStep,
         ConsumeIdle, CondWait, ConsumeStop, Consume, Serve, WorkerExit,
         SpuriousWorker, SpuriousMaster
<1> QED
  BY <1>1, <1>2, <1>3, <1>4

(* Every step of the pool is a step of the service or invisible to it. *)
LEMMA ServiceStep ==
  ASSUME OneInv, OneInv', [Next]_vars
  PROVE  [Service!Next]_(Service!vars)
<1>i. Inv /\ Inv'
  BY DEF OneInv
<1>w. Service!Waiting = Queued
  <2>1. Service!Waiting = {Pending[i] : i \in 1..Len(Pending)}
    BY DEF Service!Waiting
  <2> QED
    BY <1>i, <2>1, PendingIsSeq, QueuedIsPending DEF Queue
<1>1. CASE Unmoved
  <2>1. Pending' = Pending /\ closed' = closed
    BY <1>1, UnmovedPending DEF Unmoved
  <2>2. Served' = Served
    BY <1>1 DEF Unmoved, Served
  <2>3. CASE Phase' = Phase
    BY <2>1, <2>2, <2>3 DEF Service!vars
  <2>4. CASE Phase = "open" /\ Phase' = "stopping"
    BY <2>1, <2>2, <2>4 DEF Service!Next, Service!RequestStop
  <2>5. CASE Phase = "stopping" /\ Phase' = "stopped" /\ Served = {}
    BY <2>1, <2>2, <2>5 DEF Service!Next, Service!Halt
  <2> QED
    BY <1>1, <2>3, <2>4, <2>5, FlagStep
<1>2. ASSUME NEW c \in Conns, Accept(c) PROVE [Service!Next]_(Service!vars)
  <2>1. Pending' = Pending /\ closed' = closed
    BY <1>2, UnmovedPending DEF Accept, pool
  <2>2. Served' = Served /\ Phase' = Phase
    BY <1>2 DEF Accept, pool, Served, Phase
  <2> QED
    BY <2>1, <2>2 DEF Service!vars
<1>3. CASE Produce
  <2>1. /\ Pending' = Append(Pending, accepted) /\ accepted \in Conns
        /\ Served' = Served /\ InHand = {accepted}
    BY <1>3, <1>i, ProduceAppends, ProduceMoves
  <2>2. Len(Pending) < QSize
    BY <1>3, <1>i, PendingIsSeq, QSizeAssumption DEF Produce, Full, Inv, TypeOK
  <2>3. accepted \notin Service!Waiting \cup Served \cup closed
    BY <1>w, <2>1 DEF OneInv, OnePlace
  <2>4. Phase # "stopped" /\ Phase' = Phase /\ closed' = closed
    BY <1>3, <1>i DEF Produce, Phase, Inv, Phases, TypeOK
  <2>5. Service!Admit(accepted)
    BY <2>1, <2>2, <2>3, <2>4 DEF Service!Admit
  <2> QED
    BY <2>1, <2>5 DEF Service!Next
<1>4. ASSUME NEW w \in Workers, Consume(w) PROVE [Service!Next]_(Service!vars)
  <2>1. Pending # <<>> /\ Pending' = Tail(Pending)
    BY <1>4, <1>i, ConsumeTakesHead
  <2>2. Served' = Served \cup {Head(Pending)}
    BY <1>4, <1>i, ConsumeMoves
  <2>3. Cardinality(Served) < Cardinality(Workers)
    BY <1>4, RoomToServe DEF Consume
  <2>4. Phase # "stopped" /\ Phase' = Phase /\ closed' = closed
    BY <1>4 DEF Consume, Phase
  <2>5. Service!Dispatch
    <3>1. Phase # "stopped" /\ Pending # <<>>
      BY <2>1, <2>4
    <3>2. UNCHANGED <<Phase, closed>>
      BY <2>4
    <3>3. Service!Cardinality(Served) < Cardinality(Workers)
      BY <2>3, SameCardinality
    <3> QED
      BY <2>1, <2>2, <3>1, <3>2, <3>3 DEF Service!Dispatch
  <2> QED
    BY <2>5 DEF Service!Next
<1>5. ASSUME NEW w \in Workers, Serve(w) PROVE [Service!Next]_(Service!vars)
  <2>1. /\ client[w] \in Served /\ Served' = Served \ {client[w]}
        /\ closed' = closed \cup {client[w]}
    BY <1>5, ServeMoves
  <2>2. client[w] \in Conns
    BY <1>5, <1>i DEF Serve, Inv, Holds
  <2>3. Pending' = Pending /\ Phase' = Phase
    BY <1>5, UnmovedPending DEF Serve, pool, Phase
  <2>4. Service!Complete(client[w])
    BY <2>1, <2>3 DEF Service!Complete
  <2> QED
    BY <2>2, <2>4 DEF Service!Next
<1> QED
  BY <1>1, <1>2, <1>3, <1>4, <1>5, <1>i, StepKinds

(* The pool behaves like a bounded first-in first-out queue in front of    *)
(* servers, in spite of its threads, its ring and its lost wakeups.        *)
THEOREM PoolImplementsService == Spec => ServiceRefined
<1>1. OneInv /\ OneInv' /\ [Next]_vars => [Service!Next]_(Service!vars)
  BY ServiceStep
<1> QED
  BY <1>1, ServiceInit, OneInvariance, PTL DEF Spec, ServiceRefined, Service!Spec
=============================================================================
