------------------------ MODULE TimerExecutorProofs -------------------------
(***************************************************************************)
(* Proofs about TimerExecutor, for any number of tasks and timers and any  *)
(* queue that can hold the tasks: every wake-up is held by exactly one, no *)
(* send blocks, and the executor ends only when the tasks have.            *)
(***************************************************************************)
EXTENDS TimerExecutor, FiniteSetTheorems, TLAPS

-----------------------------------------------------------------------------
(* The queue holds each task at most once *)

Injective(q) == \A i, j \in 1..Len(q) : q[i] = q[j] => i = j

LEMMA AppendToQueue ==
  ASSUME queue \in Seq(Tasks), NEW t \in Tasks, Enqueue(t)
  PROVE  /\ queue' \in Seq(Tasks)
         /\ Queued' = Queued \cup {t}
         /\ Injective(queue) /\ t \notin Queued => Injective(queue')
  <1>1. /\ queue' = Append(queue, t)
        /\ queue' \in Seq(Tasks)
        /\ Len(queue) \in Nat
        /\ Len(queue') = Len(queue) + 1
        /\ queue'[Len(queue) + 1] = t
        /\ \A i \in 1..Len(queue) : queue'[i] = queue[i]
    BY DEF Enqueue
  <1>2. \A i \in 1..Len(queue') : i = Len(queue) + 1 \/ i \in 1..Len(queue)
    BY <1>1
  <1>3. Len(queue) + 1 \in 1..Len(queue') /\ 1..Len(queue) \subseteq 1..Len(queue')
    BY <1>1
  <1>4. Queued' = Queued \cup {t}
    BY <1>1, <1>2, <1>3, Zenon DEF Queued
  <1>5. ASSUME Injective(queue), t \notin Queued
        PROVE  Injective(queue')
    <2> SUFFICES ASSUME NEW i \in 1..Len(queue'), NEW j \in 1..Len(queue'),
                        queue'[i] = queue'[j]
                 PROVE  i = j
      BY DEF Injective
    <2>1. \A k \in 1..Len(queue) : queue[k] # t
      BY <1>5 DEF Queued
    <2> QED
      BY <1>1, <1>2, <1>5, <2>1 DEF Injective
  <1> QED
    BY <1>1, <1>4, <1>5

LEMMA TailOfQueue ==
  ASSUME queue \in Seq(Tasks), queue # <<>>, Injective(queue), queue' = Tail(queue)
  PROVE  /\ Head(queue) \in Tasks
         /\ Head(queue) \in Queued
         /\ queue' \in Seq(Tasks)
         /\ Queued' = Queued \ {Head(queue)}
         /\ Injective(queue')
  <1>1. /\ Len(queue) \in Nat \ {0}
        /\ Head(queue) = queue[1]
        /\ queue' \in Seq(Tasks)
        /\ Len(queue') = Len(queue) - 1
        /\ \A i \in 1..Len(queue') : queue'[i] = queue[i + 1]
        /\ \A i \in 1..Len(queue) : queue[i] \in Tasks
    OBVIOUS
  <1>2. 1 \in 1..Len(queue)
    BY <1>1
  <1>3. \A i \in 1..Len(queue') : i + 1 \in 1..Len(queue) /\ i + 1 # 1
    BY <1>1
  <1>4. \A i \in 1..Len(queue) : i # 1 => i - 1 \in 1..Len(queue') /\ (i - 1) + 1 = i
    BY <1>1
  <1>5. Queued' \subseteq Queued \ {Head(queue)}
    BY <1>1, <1>2, <1>3 DEF Queued, Injective
  <1>6. ASSUME NEW t \in Queued, t # Head(queue)
        PROVE  t \in Queued'
    <2>1. PICK i \in 1..Len(queue) : t = queue[i]
      BY DEF Queued
    <2>2. i # 1
      BY <1>1, <1>6, <2>1
    <2>3. i - 1 \in 1..Len(queue') /\ (i - 1) + 1 = i
      BY <1>4, <2>2
    <2>4. queue'[i - 1] = t
      BY <1>1, <2>1, <2>3
    <2> QED
      BY <2>3, <2>4 DEF Queued
  <1>7. Injective(queue')
    BY <1>1, <1>3 DEF Injective
  <1> QED
    BY <1>1, <1>2, <1>5, <1>6, <1>7 DEF Queued
-----------------------------------------------------------------------------
(* The invariant *)

LEMMA InitIInv == Init => IInv
  <1> SUFFICES ASSUME Init PROVE IInv
    OBVIOUS
  <1> USE TimersAssumption, NoneAssumption DEF Init
  <1>1. TypeOK
    BY DEF TypeOK
  <1>2. Queued = {} /\ Polled = {} /\ Waking = {}
    BY DEF Queued, Polled, Waking
  <1>3. ASSUME NEW t \in Tasks PROVE TaskInv(t)
    BY <1>2 DEF TaskInv, Done, Working
  <1>4. \A i, j \in 1..Len(queue) : queue[i] = queue[j] => i = j
    OBVIOUS
  <1> QED
    BY <1>1, <1>3, <1>4 DEF IInv

LEMMA SpawnStep ==
  ASSUME IInv, NEW t \in Tasks, Spawn(t)
  PROVE  IInv'
  <1> USE DEF IInv
  <1>1. /\ queue' \in Seq(Tasks)
        /\ Queued' = Queued \cup {t}
        /\ Injective(queue')
    <2>1. t \notin Queued
      BY DEF TaskInv, Spawn
    <2> QED
      BY <2>1, AppendToQueue DEF Spawn, TypeOK, Injective
  <1>2. Polled' = Polled /\ Waking' = Waking
    BY DEF Spawn, Polled, Waking, taskVars
  <1>3. TypeOK'
    BY <1>1 DEF TypeOK, Spawn, taskVars
  <1>4. ASSUME NEW u \in Tasks PROVE TaskInv(u)'
    <2>1. TaskInv(u) /\ TaskInv(t)
      OBVIOUS
    <2>2. t \notin Waking /\ ~Done(t) /\ main = "spawn"
      BY <2>1 DEF TaskInv, Done, Waking, Spawn
    <2>3. /\ Done(u)' <=> Done(u)
          /\ Working(u)' <=> Working(u)
      BY <1>1, <1>2, <2>2 DEF Done, Working, Spawn, taskVars
    <2>4. /\ u \in unspawned' <=> u \in unspawned /\ u # t
          /\ u \in Queued' <=> u \in Queued \/ u = t
          /\ timer' = timer /\ left' = left /\ slot' = slot /\ waker' = waker
      BY <1>1 DEF Spawn, taskVars
    <2>5. t \in unspawned
      BY DEF Spawn
    <2>6. CASE u = t
      BY <1>2, <2>1, <2>2, <2>3, <2>4, <2>5, <2>6 DEF TaskInv
    <2>7. CASE u # t
      BY <1>2, <2>1, <2>3, <2>4, <2>7 DEF TaskInv
    <2> QED
      BY <2>6, <2>7
  <1> QED
    BY <1>1, <1>3, <1>4 DEF Injective, Spawn

LEMMA RecvStep ==
  ASSUME IInv, Recv
  PROVE  IInv'
  <1> DEFINE t == Head(queue)
  <1> USE DEF IInv
  <1>1. /\ t \in Tasks /\ t \in Queued
        /\ queue' \in Seq(Tasks)
        /\ Queued' = Queued \ {t}
        /\ Injective(queue')
    BY TailOfQueue DEF Recv, TypeOK, Injective
  <1>2. slot[t] /\ ~Done(t)
    BY <1>1 DEF TaskInv, Done, Working, Recv
  <1>3. /\ main = "recv" /\ main' = "poll" /\ cur' = t
        /\ slot' = [slot EXCEPT ![t] = FALSE]
        /\ UNCHANGED <<unspawned, left, timer, waker>>
    BY <1>2 DEF Recv
  <1> HIDE DEF t
  <1>4. Polled' = {t} /\ Polled = {} /\ Waking' = Waking
    BY <1>1, <1>3 DEF Polled, Waking
  <1>5. TypeOK'
    BY <1>1, <1>3 DEF TypeOK
  <1>6. ASSUME NEW u \in Tasks PROVE TaskInv(u)'
    <2>1. TaskInv(u)
      OBVIOUS
    <2>2. slot'[u] = (u # t /\ slot[u])
      BY <1>3 DEF TypeOK
    <2> QED
      BY <1>1, <1>3, <1>4, <2>1, <2>2 DEF TaskInv, Done, Working
  <1> QED
    BY <1>1, <1>3, <1>5, <1>6 DEF Injective

\* The steps of the executor and of main() that leave the queue alone.
LEMMA PollStep ==
  ASSUME IInv, NEW t \in Tasks, Poll(t)
  PROVE  IInv'
  <1> USE DEF IInv
  <1>1. CASE StartTimer(t)
    <2>1. TypeOK'
      BY <1>1 DEF TypeOK, StartTimer, taskVars
    <2>2. Polled' = Polled /\ Waking' = Waking /\ Queued' = Queued /\ t \in Polled
      BY <1>1 DEF StartTimer, Polled, Waking, Queued, taskVars, TypeOK
    <2>3. ASSUME NEW u \in Tasks PROVE TaskInv(u)'
      <3>1. TaskInv(u)
        OBVIOUS
      <3> QED
        BY <1>1, <2>2, <3>1 DEF TaskInv, Done, Working, StartTimer, taskVars, TypeOK
    <2> QED
      BY <1>1, <2>1, <2>3 DEF StartTimer, taskVars
  <1>2. CASE PollPending(t)
    <2>1. TypeOK'
      BY <1>2 DEF TypeOK, PollPending, taskVars
    <2>2. Polled' = {} /\ Polled = {t} /\ Waking' = Waking /\ Queued' = Queued
      BY <1>2 DEF PollPending, Polled, Waking, Queued, taskVars
    <2>3. ASSUME NEW u \in Tasks PROVE TaskInv(u)'
      <3>1. TaskInv(u)
        OBVIOUS
      <3> QED
        BY <1>2, <2>2, <3>1 DEF TaskInv, Done, Working, PollPending, taskVars
    <2> QED
      BY <1>2, <2>1, <2>3 DEF PollPending, taskVars
  <1>3. CASE PollReady(t)
    <2>1. left[t] # 0
      BY <1>3 DEF TaskInv, PollReady, TypeOK
    <2>2. TypeOK'
      BY <1>3, <2>1 DEF TypeOK, PollReady
    <2>3. Polled' = Polled /\ Waking' = Waking /\ Queued' = Queued /\ t \in Polled
      BY <1>3 DEF PollReady, Polled, Waking, Queued, TypeOK
    <2>4. ASSUME NEW u \in Tasks PROVE TaskInv(u)'
      <3>1. TaskInv(u)
        OBVIOUS
      <3> QED
        BY <1>3, <2>3, <3>1 DEF TaskInv, Done, Working, PollReady, TypeOK
    <2> QED
      BY <1>3, <2>2, <2>4 DEF PollReady
  <1>4. CASE Complete(t)
    <2>1. TypeOK'
      BY <1>4 DEF TypeOK, Complete, taskVars
    <2>2. Polled' = {} /\ Polled = {t} /\ Waking' = Waking /\ Queued' = Queued
      BY <1>4 DEF Complete, Polled, Waking, Queued, taskVars
    <2>3. ASSUME NEW u \in Tasks PROVE TaskInv(u)'
      <3>1. TaskInv(u)
        OBVIOUS
      <3> QED
        BY <1>4, <2>2, <3>1 DEF TaskInv, Done, Working, Complete, taskVars
    <2> QED
      BY <1>4, <2>1, <2>3 DEF Complete, taskVars
  <1> QED
    BY <1>1, <1>2, <1>3, <1>4 DEF Poll

LEMMA MainStep ==
  ASSUME IInv, DropSpawner \/ StoreBack \/ EndRun
  PROVE  IInv'
  <1> USE DEF IInv
  <1>1. CASE DropSpawner \/ EndRun
    <2>1. TypeOK'
      BY <1>1 DEF TypeOK, DropSpawner, EndRun, taskVars
    <2>2. Polled' = {} /\ Polled = {} /\ Waking' = Waking /\ Queued' = Queued
      BY <1>1 DEF DropSpawner, EndRun, Polled, Waking, Queued, taskVars
    <2>3. ASSUME NEW u \in Tasks PROVE TaskInv(u)'
      <3>1. TaskInv(u)
        OBVIOUS
      <3> QED
        BY <1>1, <2>2, <3>1
           DEF TaskInv, Done, Working, DropSpawner, EndRun, taskVars
    <2> QED
      BY <1>1, <2>1, <2>2, <2>3 DEF DropSpawner, EndRun, taskVars
  <1>2. CASE StoreBack
    <2>1. TypeOK'
      BY <1>2 DEF TypeOK, StoreBack
    <2>2. Polled' = {} /\ Polled = {} /\ Waking' = Waking /\ Queued' = Queued
      BY <1>2 DEF StoreBack, Polled, Waking, Queued
    <2>3. ASSUME NEW u \in Tasks PROVE TaskInv(u)'
      <3>1. TaskInv(u)
        OBVIOUS
      <3> QED
        BY <1>2, <2>2, <3>1 DEF TaskInv, Done, Working, StoreBack, TypeOK
    <2> QED
      BY <1>2, <2>1, <2>3 DEF StoreBack
  <1> QED
    BY <1>1, <1>2

LEMMA ThreadStep ==
  ASSUME IInv, NEW t \in Tasks, Thread(t)
  PROVE  IInv'
  <1> USE DEF IInv
  <1>1. CASE Expire(t)
    <2>1. TypeOK'
      BY <1>1 DEF TypeOK, Expire, taskVars
    <2>2. /\ Polled' = Polled /\ Queued' = Queued /\ t \notin Waking
          /\ Waking' = IF t \in waker THEN Waking \cup {t} ELSE Waking
      BY <1>1 DEF Expire, Polled, Waking, Queued, taskVars, TypeOK
    <2>3. ASSUME NEW u \in Tasks PROVE TaskInv(u)'
      <3>1. TaskInv(u)
        OBVIOUS
      <3>2. timer'[u] = IF u # t THEN timer[u]
                        ELSE IF t \in waker THEN "waking" ELSE "completed"
        BY <1>1 DEF Expire, TypeOK
      <3> QED
        BY <1>1, <2>2, <3>1, <3>2 DEF TaskInv, Done, Working, Expire, taskVars
    <2>4. main' # "end"
      BY <1>1 DEF TaskInv, Expire, Polled
    <2> QED
      BY <1>1, <2>1, <2>3, <2>4 DEF Expire, taskVars
  <1>2. CASE Wake(t)
    <2>1. t \in Waking /\ t \notin Queued
      BY <1>2 DEF Wake, Waking, TaskInv
    <2>2. /\ queue' \in Seq(Tasks)
          /\ Queued' = Queued \cup {t}
          /\ Injective(queue')
      BY <1>2, <2>1, AppendToQueue DEF Wake, TypeOK, Injective
    <2>3. TypeOK'
      BY <1>2, <2>2 DEF TypeOK, Wake, taskVars
    <2>4. Polled' = Polled /\ Waking' = Waking \ {t}
      BY <1>2 DEF Wake, Polled, Waking, taskVars, TypeOK
    <2>5. ASSUME NEW u \in Tasks PROVE TaskInv(u)'
      <3>1. TaskInv(u)
        OBVIOUS
      <3>2. timer'[u] = IF u = t THEN "completed" ELSE timer[u]
        BY <1>2 DEF Wake, TypeOK
      <3> QED
        BY <1>2, <2>1, <2>2, <2>4, <3>1, <3>2 DEF TaskInv, Done, Working, Wake, taskVars
    <2>6. main' # "end"
      BY <1>2, <2>1 DEF Wake, taskVars
    <2> QED
      BY <1>2, <2>2, <2>3, <2>5, <2>6 DEF Wake, taskVars, Injective
  <1> QED
    BY <1>1, <1>2 DEF Thread

LEMMA StutterStep ==
  ASSUME IInv, UNCHANGED vars
  PROVE  IInv'
  BY DEF IInv, vars, taskVars, TypeOK, TaskInv, Done, Working, Queued, Polled, Waking

LEMMA InductiveInvariant == Spec => []IInv
  <1>1. ASSUME IInv, [Next]_vars
        PROVE  IInv'
    BY <1>1, SpawnStep, RecvStep, PollStep, MainStep, ThreadStep, StutterStep
       DEF Next, Main
  <1> QED
    BY InitIInv, <1>1, PTL DEF Spec

-----------------------------------------------------------------------------
(* What follows from it *)

\* Every wake-up of a task is held by exactly one of main(), the queue, the
\* executor, a waker and a thread (OneWakeUpEach): TimerFuture::poll and
\* _run_timeout_event neither lose nor double it.
THEOREM EachTaskHasOneWakeUp == Spec => []OneWakeUpEach
  <1>1. IInv => OneWakeUpEach
    <2> SUFFICES ASSUME IInv PROVE OneWakeUpEach
      OBVIOUS
    <2>1. ASSUME NEW t \in Tasks PROVE TaskInv(t)
      BY DEF IInv
    <2>2. /\ unspawned \subseteq Tasks /\ waker \subseteq Tasks
          /\ Polled \subseteq Tasks /\ Waking \subseteq Tasks
      BY DEF IInv, TypeOK, Polled, Waking
    <2>3. /\ unspawned \cap Queued = {} /\ unspawned \cap Polled = {}
          /\ unspawned \cap waker = {} /\ unspawned \cap Waking = {}
          /\ Queued \cap Polled = {} /\ Queued \cap waker = {}
          /\ Queued \cap Waking = {} /\ Polled \cap waker = {}
          /\ Polled \cap Waking = {} /\ waker \cap Waking = {}
      BY <2>1, <2>2 DEF TaskInv, Waking
    <2>4. ASSUME NEW i \in 1..5, NEW j \in 1..5, i # j
          PROVE  Holders[i] \cap Holders[j] = {}
      BY <2>3, <2>4 DEF Holders
    <2>5. ASSUME NEW t \in Tasks, \A i \in 1..5 : t \notin Holders[i]
          PROVE  left[t] = 0
      <3>1. Done(t)
        BY <2>5 DEF Done, Holders
      <3> QED
        BY <2>1, <3>1 DEF TaskInv
    <2> QED
      BY <2>4, <2>5 DEF OneWakeUpEach, IInv
  <1> QED
    BY <1>1, InductiveInvariant, PTL

\* A dequeued task always has its future (QueuedHasFuture): Executor::run never
\* takes its "future object not found" branch.
THEOREM FutureIsFound == Spec => []QueuedHasFuture
  <1>1. IInv => QueuedHasFuture
    <2> SUFFICES ASSUME IInv, NEW t \in Queued
                 PROVE  slot[t] \/ (main = "store" /\ cur = t)
      BY DEF QueuedHasFuture
    <2>1. t \in Tasks
      BY DEF IInv, TypeOK, Queued
    <2> QED
      BY <2>1 DEF IInv, TaskInv, Done, Working, Polled
  <1> QED
    BY <1>1, InductiveInvariant, PTL

\* Executor::run returns only when every task has (EndMeansAllDone).
THEOREM NoTaskIsAbandoned == Spec => []EndMeansAllDone
  <1>1. IInv => EndMeansAllDone
    <2> SUFFICES ASSUME IInv, main = "end", NEW t \in Tasks
                 PROVE  left[t] = 0 /\ timer[t] = "none"
      BY DEF EndMeansAllDone
    <2>1. Done(t)
      BY DEF IInv, Done, Queued, Polled
    <2> QED
      BY <2>1 DEF IInv, TaskInv
  <1> QED
    BY <1>1, InductiveInvariant, PTL

\* No send blocks (SendsNeverBlock): a sender's task is not in the queue, which
\* holds the others at most once each.
THEOREM NoSendBlocks == Spec => []SendsNeverBlock
  <1>1. IInv => SendsNeverBlock
    <2> SUFFICES ASSUME IInv, unspawned # {} \/ Waking # {}
                 PROVE  Len(queue) < MaxQueued
      BY DEF SendsNeverBlock
    <2>1. PICK t \in unspawned \cup Waking : TRUE
      OBVIOUS
    <2>2. t \in Tasks /\ t \notin Queued
      BY <2>1 DEF IInv, TypeOK, TaskInv, Waking
    <2>3. queue \in Seq(Tasks) /\ Len(queue) \in Nat
      BY DEF IInv, TypeOK
    <2>4. queue \in Injection(1..Len(queue), Tasks \ {t})
      <3>1. queue \in [1..Len(queue) -> Tasks]
        BY <2>3
      <3>2. \A i \in 1..Len(queue) : queue[i] # t
        BY <2>2 DEF Queued
      <3> QED
        BY <3>1, <3>2 DEF IInv, Injection, IsInjective
    <2>5. /\ IsFiniteSet(Tasks \ {t})
          /\ Cardinality(Tasks \ {t}) = Cardinality(Tasks) - 1
          /\ Cardinality(Tasks) \in Nat
      BY <2>2, QueueAssumption, FS_RemoveElement, FS_CardinalityType
    <2>6. Cardinality(1..Len(queue)) = Len(queue)
      <3>1. Cardinality(1..Len(queue)) =
              IF 1 > Len(queue) THEN 0 ELSE Len(queue) - 1 + 1
        BY <2>3, 1 \in Int, Len(queue) \in Int, FS_Interval, Zenon
      <3> QED
        BY <2>3, <3>1
    <2>7. Len(queue) <= Cardinality(Tasks) - 1
      BY <2>4, <2>5, <2>6, FS_Injection
    <2> QED
      BY <2>3, <2>5, <2>7, QueueAssumption
  <1> QED
    BY <1>1, InductiveInvariant, PTL
=============================================================================
