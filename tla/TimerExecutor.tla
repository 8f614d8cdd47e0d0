---------------------------- MODULE TimerExecutor ----------------------------
(***************************************************************************)
(* The hand-written executor and timer of timer_future: main() spawns the  *)
(* tasks, drops the spawner and runs the executor; a task awaits a number  *)
(* of timers one after the other, each with a thread of its own that wakes *)
(* the task.  Tasks travel through one bounded sync_channel.               *)
(*                                                                         *)
(* A thread locks the timer's state, sets `completed`, and sends the task  *)
(* to the queue before it unlocks: it holds the lock as long as the queue  *)
(* is full.  The queue closes when no Arc<Task>, each of which holds a     *)
(* sender, is left in the queue, in the executor or in a waker.            *)
(***************************************************************************)
EXTENDS Naturals, Sequences, FiniteSets

CONSTANTS
  Tasks,
  Timers,     \* timers each task awaits: its messages but the first
  MaxQueued   \* MAX_QUEUED_TASKS

ASSUME TimersAssumption == Timers \in [Tasks -> Nat]
ASSUME QueueAssumption ==
  IsFiniteSet(Tasks) /\ MaxQueued \in Nat /\ MaxQueued >= Cardinality(Tasks)

None == "none"

ASSUME NoneAssumption == None \notin Tasks

VARIABLES
  unspawned,
  queue,     \* the sync_channel
  main,      \* spawn, then Executor::run: recv, poll, store; end
  cur,       \* the task the executor works on
  left,      \* of each task: timers still to be awaited
  slot,      \* of each task: has Task.future its future?
  timer,     \* of each task's timer: none, sleeping, waking (locked), completed
  waker      \* the tasks whose waker is stored with their timer

taskVars == <<left, slot>>
vars == <<unspawned, queue, main, cur, taskVars, timer, waker>>

Queued == {queue[i] : i \in 1..Len(queue)}
Polled == {t \in Tasks : main = "poll" /\ cur = t}
Waking == {t \in Tasks : timer[t] = "waking"}

TypeOK ==
  /\ unspawned \in SUBSET Tasks
  /\ queue \in Seq(Tasks)
  /\ main \in {"spawn", "recv", "poll", "store", "end"}
  /\ cur \in Tasks \cup {None}
  /\ left \in [Tasks -> Nat]
  /\ slot \in [Tasks -> BOOLEAN]
  /\ timer \in [Tasks -> {"none", "sleeping", "waking", "completed"}]
  /\ waker \in SUBSET Tasks

Init ==
  /\ unspawned = Tasks
  /\ queue = <<>>
  /\ main = "spawn"
  /\ cur = None
  /\ left = Timers
  /\ slot = [t \in Tasks |-> TRUE]
  /\ timer = [t \in Tasks |-> "none"]
  /\ waker = {}

-----------------------------------------------------------------------------
(* main(): Spawner::spawn, then drop(spawner) *)

Enqueue(t) ==
  /\ Len(queue) < MaxQueued
  /\ queue' = Append(queue, t)

Spawn(t) ==
  /\ main = "spawn" /\ t \in unspawned
  /\ Enqueue(t)
  /\ unspawned' = unspawned \ {t}
  /\ UNCHANGED <<main, cur, taskVars, timer, waker>>

DropSpawner ==
  /\ main = "spawn" /\ unspawned = {}
  /\ main' = "recv"
  /\ UNCHANGED <<unspawned, queue, cur, taskVars, timer, waker>>

-----------------------------------------------------------------------------
(* Executor::run *)

\* The future is taken out of its slot; without one the task is dropped.
Recv ==
  /\ main = "recv" /\ queue # <<>>
  /\ queue' = Tail(queue)
  /\ IF slot[Head(queue)]
     THEN /\ cur' = Head(queue)
          /\ slot' = [slot EXCEPT ![Head(queue)] = FALSE]
          /\ main' = "poll"
     ELSE UNCHANGED <<cur, slot, main>>
  /\ UNCHANGED <<unspawned, left, timer, waker>>

\* TimerFuture::new spawns the thread before the timer is first polled.
StartTimer(t) ==
  /\ main = "poll" /\ cur = t
  /\ timer[t] = "none" /\ left[t] > 0
  /\ timer' = [timer EXCEPT ![t] = "sleeping"]
  /\ UNCHANGED <<unspawned, queue, main, cur, taskVars, waker>>

\* Bug: `completed` is not looked at, the thread is trusted to wake the task.
PollAlwaysPending(t) ==
  /\ main = "poll" /\ cur = t
  /\ timer[t] \in {"sleeping", "completed"}
  /\ waker' = waker \cup {t}
  /\ main' = "store"
  /\ UNCHANGED <<unspawned, queue, cur, taskVars, timer>>

\* TimerFuture::poll is Pending: it leaves its waker, under the timer's lock.
PollPending(t) ==
  /\ main = "poll" /\ cur = t
  /\ timer[t] = "sleeping"
  /\ waker' = waker \cup {t}
  /\ main' = "store"
  /\ UNCHANGED <<unspawned, queue, cur, taskVars, timer>>

\* TimerFuture::poll is Ready: the task goes on to its next timer.
PollReady(t) ==
  /\ main = "poll" /\ cur = t
  /\ timer[t] = "completed"
  /\ timer' = [timer EXCEPT ![t] = "none"]
  /\ left' = [left EXCEPT ![t] = @ - 1]
  /\ UNCHANGED <<unspawned, queue, main, cur, slot, waker>>

\* `*s = Some(fut)`; the task may already have been woken.
StoreBack ==
  /\ main = "store"
  /\ slot' = [slot EXCEPT ![cur] = TRUE]
  /\ cur' = None
  /\ main' = "recv"
  /\ UNCHANGED <<unspawned, queue, left, timer, waker>>

\* The task has returned: its future is dropped.
Complete(t) ==
  /\ main = "poll" /\ cur = t
  /\ timer[t] = "none" /\ left[t] = 0
  /\ cur' = None
  /\ main' = "recv"
  /\ UNCHANGED <<unspawned, queue, taskVars, timer, waker>>

\* Bug: the executor stops when it has nothing to do at the moment.
EndRunWhenIdle ==
  /\ main = "recv" /\ queue = <<>>
  /\ main' = "end"
  /\ UNCHANGED <<unspawned, queue, cur, taskVars, timer, waker>>

\* No sender is left.
EndRun ==
  /\ main = "recv" /\ queue = <<>>
  /\ waker = {} /\ Waking = {}
  /\ main' = "end"
  /\ UNCHANGED <<unspawned, queue, cur, taskVars, timer, waker>>

-----------------------------------------------------------------------------
(* The timers' threads: _run_timeout_event *)

Expire(t) ==
  /\ timer[t] = "sleeping"
  /\ timer' = [timer EXCEPT ![t] = IF t \in waker THEN "waking" ELSE "completed"]
  /\ waker' = waker \ {t}
  /\ UNCHANGED <<unspawned, queue, main, cur, taskVars>>

\* Bug: the lock is released before the task is sent, which is sent again.
WakeTwice(t) ==
  /\ timer[t] = "waking"
  /\ Len(queue) + 1 < MaxQueued
  /\ queue' = queue \o <<t, t>>
  /\ timer' = [timer EXCEPT ![t] = "completed"]
  /\ UNCHANGED <<unspawned, main, cur, taskVars, waker>>

\* wake_by_ref sends the task to the queue, then the lock is released.
Wake(t) ==
  /\ timer[t] = "waking"
  /\ Enqueue(t)
  /\ timer' = [timer EXCEPT ![t] = "completed"]
  /\ UNCHANGED <<unspawned, main, cur, taskVars, waker>>

-----------------------------------------------------------------------------
Poll(t) == StartTimer(t) \/ PollPending(t) \/ PollReady(t) \/ Complete(t)
Main == DropSpawner \/ Recv \/ StoreBack \/ EndRun \/ \E t \in Tasks : Spawn(t) \/ Poll(t)
Thread(t) == Expire(t) \/ Wake(t)

Next == Main \/ \E t \in Tasks : Thread(t)

Spec == Init /\ [][Next]_vars

\* Threads run and every sleep ends.
FairSpec == Spec /\ WF_vars(Main) /\ \A t \in Tasks : WF_vars(Thread(t))

-----------------------------------------------------------------------------
(* Properties *)

\* Those who have, or will pass on, the right to poll a task: main() before it
\* spawns it, the queue, the executor, a stored waker, a thread inside wake().
Holders == <<unspawned, Queued, Polled, waker, Waking>>

\* A task that has more to do will be polled, by exactly one of those who
\* might: no wake-up is lost between a poll and the timer's thread, and none
\* is given twice.
OneWakeUpEach ==
  /\ \A i, j \in 1..5 : i # j => Holders[i] \cap Holders[j] = {}
  /\ \A t \in Tasks : (\A i \in 1..5 : t \notin Holders[i]) => left[t] = 0
  /\ \A i, j \in 1..Len(queue) : queue[i] = queue[j] => i = j

\* A queued task has its future in its slot, or is about to get it back: the
\* "future object not found" branch (main.rs:88) is never taken.
QueuedHasFuture ==
  \A t \in Queued : slot[t] \/ (main = "store" /\ cur = t)

\* No send finds the queue full: neither main(), which could never go on, nor
\* a thread, which would hold its timer's lock.
SendsNeverBlock ==
  unspawned # {} \/ Waking # {} => Len(queue) < MaxQueued

\* The executor stops only when every task has returned.
EndMeansAllDone ==
  main = "end" => \A t \in Tasks : left[t] = 0 /\ timer[t] = "none"

\* What makes the four inductive.  Working: the future is out of its slot; Done:
\* nobody will poll the task again.
Working(t) == main \in {"poll", "store"} /\ cur = t
Done(t) == t \notin unspawned \cup Queued \cup Polled \cup waker \cup Waking

TaskInv(t) ==
  /\ t \in unspawned => t \notin Queued \cup Polled \cup waker /\ timer[t] = "none"
  /\ t \in Queued => t \notin Polled \cup waker \cup Waking
  /\ t \in Polled => t \notin waker \cup Waking
  /\ t \in waker => timer[t] = "sleeping"
  /\ timer[t] = "sleeping" => t \in waker \cup Polled
  /\ timer[t] = "completed" => t \in Queued \cup Polled
  /\ timer[t] # "none" => left[t] > 0
  /\ Done(t) => left[t] = 0 /\ timer[t] = "none" /\ ~Working(t)
  /\ slot[t] <=> ~Working(t) /\ ~Done(t)

IInv ==
  /\ TypeOK
  /\ \A i, j \in 1..Len(queue) : queue[i] = queue[j] => i = j
  /\ main \in {"poll", "store"} => cur \in Tasks
  /\ main = "spawn" \/ unspawned = {}
  /\ main = "end" => queue = <<>> /\ waker = {} /\ Waking = {}
  /\ \A t \in Tasks : TaskInv(t)

\* The executor does stop: the wakers, which hold senders of the executor's
\* own queue, do not keep it open.
RunEnds == <>(main = "end")
=============================================================================
