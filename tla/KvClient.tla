------------------------------ MODULE KvClient ------------------------------
(***************************************************************************)
(* The key-value experiment of the mini-redis client program               *)
(* (bin/client.rs): tasks that issue commands through one bounded mpsc     *)
(* queue, a manager task that owns the connection and answers through      *)
(* oneshot channels, and main(), which waits for the manager, then the     *)
(* tasks, before it connects again.  The server may be stopped (ctrl-c) at *)
(* any time; it answers the request it has read before it closes.          *)
(*                                                                         *)
(* The queue is the suffix of `accepted`, every command ever sent, that    *)
(* the manager has not `taken`.                                            *)
(***************************************************************************)
EXTENDS Naturals, Sequences

CONSTANTS
  Tasks,
  Keys, Vals,
  Absent,     \* the answer None
  Failed,     \* an Err sent through the oneshot channel
  Script,     \* the commands of each task; a GET carries what is asserted of it
  QueueCap    \* mpsc::channel(29)

Command ==
  [op : {"set"}, key : Keys, val : Vals]
  \cup [op : {"get"}, key : Keys, expect : Vals \cup {Absent}]

NoReply == [val |-> "none"]

ASSUME KvAssumption ==
  /\ QueueCap \in Nat \ {0}
  /\ Script \in [Tasks -> Seq(Command)]
  /\ Absent \notin Vals /\ Failed \notin Vals \cup {Absent}
  /\ NoReply.val \notin Vals \cup {Absent, Failed}

\* The value the first n of these commands leave in key k.
LastWrite(cmds, n, k) ==
  LET writes == {i \in 1..n : cmds[i].cmd.op = "set" /\ cmds[i].cmd.key = k}
  IN  IF writes = {} THEN Absent
      ELSE cmds[CHOOSE i \in writes : \A j \in writes : j <= i].cmd.val

\* The keys only one task writes.
Private(k) ==
  \A t, u \in Tasks : \A i \in 1..Len(Script[t]), j \in 1..Len(Script[u]) :
    /\ Script[t][i].op = "set" /\ Script[u][j].op = "set"
    /\ Script[t][i].key = k /\ Script[u][j].key = k
    => t = u

\* No task but t writes key k.
OwnKey(t, k) ==
  \A u \in Tasks \ {t} : \A i \in 1..Len(Script[u]) :
    ~ (Script[u][i].op = "set" /\ Script[u][i].key = k)

\* What the first n commands of task t alone leave in key k.
OwnWrite(t, n, k) == LastWrite([i \in 1..n |-> [cmd |-> Script[t][i]]], n, k)

\* A GET of a key that one task at most writes is asserted by that task, and
\* asserted to be the task's own last write (bin/client.rs:93, 100).
ASSUME ScriptAssumption ==
  \A t \in Tasks : \A i \in 1..Len(Script[t]) :
    Script[t][i].op = "get" /\ Private(Script[t][i].key) =>
      /\ OwnKey(t, Script[t][i].key)
      /\ Script[t][i].expect = OwnWrite(t, i - 1, Script[t][i].key)

VARIABLES
  phase,     \* of each task: run, wait (for a oneshot), done, panicked
  pc,        \* of each task: the next command of its script
  got,       \* of each task: the answers to its GETs
  reply,     \* of each task: what its oneshot channel holds
  accepted, taken,
  manager,   \* connect, idle, call (a request is out), ended, dead (panicked)
  store,     \* the server's map
  up,        \* the server runs
  main       \* await, reconnect, panicked

taskVars == <<phase, pc, got>>
vars == <<taskVars, reply, accepted, taken, manager, store, up, main>>

Init ==
  /\ phase = [t \in Tasks |-> "run"]
  /\ pc = [t \in Tasks |-> 1]
  /\ got = [t \in Tasks |-> <<>>]
  /\ reply = [t \in Tasks |-> NoReply]
  /\ accepted = <<>> /\ taken = 0
  /\ manager = "connect"
  /\ store = [k \in Keys |-> Absent]
  /\ up = TRUE
  /\ main = "await"

-----------------------------------------------------------------------------
(* The tasks: kv_exp_sender *)

Cmd(t) == Script[t][pc[t]]
Issuing(t) == main = "await" /\ phase[t] = "run" /\ pc[t] <= Len(Script[t])
Advance(t) == pc' = [pc EXCEPT ![t] = @ + 1]

HasRoom == Len(accepted) - taken < QueueCap
Enqueue(t) == accepted' = Append(accepted, [from |-> t, cmd |-> Cmd(t)])

\* Bug: a SET is given up when the queue is full (try_send).
TrySendSet(t) ==
  /\ Issuing(t) /\ Cmd(t).op = "set" /\ manager # "dead"
  /\ IF HasRoom THEN Enqueue(t) ELSE UNCHANGED accepted
  /\ Advance(t)
  /\ UNCHANGED <<phase, got, reply, taken, manager, store, up, main>>

\* A SET does not wait for its answer: the receiver is dropped.
SendSet(t) ==
  /\ Issuing(t) /\ Cmd(t).op = "set" /\ manager # "dead"
  /\ HasRoom
  /\ Enqueue(t)
  /\ Advance(t)
  /\ UNCHANGED <<phase, got, reply, taken, manager, store, up, main>>

SendGet(t) ==
  /\ Issuing(t) /\ Cmd(t).op = "get" /\ manager # "dead"
  /\ HasRoom
  /\ Enqueue(t)
  /\ Advance(t)
  /\ phase' = [phase EXCEPT ![t] = "wait"]
  /\ UNCHANGED <<got, reply, taken, manager, store, up, main>>

\* The GET issued last returns v: an Err is unwrapped and an answer that is
\* not the asserted one fails the assertion, both of which panic.
Take(t, v, expect) ==
  /\ got' = [got EXCEPT ![t] = Append(@, v)]
  /\ phase' = [phase EXCEPT ![t] = IF v = expect THEN "run" ELSE "panicked"]

Receive(t) ==
  /\ phase[t] = "wait" /\ main = "await"
  /\ reply[t] # NoReply
  /\ Take(t, reply[t].val, Script[t][pc[t] - 1].expect)
  /\ reply' = [reply EXCEPT ![t] = NoReply]
  /\ UNCHANGED <<pc, accepted, taken, manager, store, up, main>>

\* The manager panicked and the queue is gone with every oneshot sender in it:
\* `send` fails unseen, a GET is answered None.
IssueInVain(t) ==
  /\ manager = "dead"
  /\ \/ /\ Issuing(t) /\ Cmd(t).op = "set"
        /\ Advance(t)
        /\ UNCHANGED <<phase, got>>
     \/ /\ Issuing(t) /\ Cmd(t).op = "get"
        /\ Advance(t)
        /\ Take(t, Absent, Cmd(t).expect)
     \/ /\ phase[t] = "wait" /\ main = "await"
        /\ Take(t, Absent, Script[t][pc[t] - 1].expect)
        /\ UNCHANGED pc
  /\ UNCHANGED <<reply, accepted, taken, manager, store, up, main>>

\* The task's sender is dropped with it.
Finish(t) ==
  /\ phase[t] = "run" /\ main = "await"
  /\ pc[t] = Len(Script[t]) + 1
  /\ phase' = [phase EXCEPT ![t] = "done"]
  /\ UNCHANGED <<pc, got, reply, accepted, taken, manager, store, up, main>>

-----------------------------------------------------------------------------
(* The manager: kv_exp_receiver, and the server behind it *)

Connect ==
  /\ manager = "connect" /\ main = "await"
  /\ manager' = IF up THEN "idle" ELSE "dead"
  /\ UNCHANGED <<taskVars, reply, accepted, taken, store, up, main>>

Recv ==
  /\ manager = "idle"
  /\ taken < Len(accepted)
  /\ taken' = taken + 1
  /\ manager' = "call"
  /\ UNCHANGED <<taskVars, reply, accepted, store, up, main>>

Answer(t, v) == reply' = [reply EXCEPT ![t] = [val |-> v]]

\* Bug: the manager answers the task whose turn it is, not the one that asked.
CallCrossed ==
  LET req == accepted[taken] IN
  /\ manager = "call" /\ up
  /\ IF req.cmd.op = "set"
     THEN /\ store' = [store EXCEPT ![req.cmd.key] = req.cmd.val]
          /\ UNCHANGED reply
     ELSE \E t \in Tasks : phase[t] = "wait" /\ Answer(t, store[req.cmd.key])
                             /\ UNCHANGED store
  /\ manager' = "idle"
  /\ UNCHANGED <<taskVars, accepted, taken, up, main>>

\* One request and its response.
Call ==
  LET req == accepted[taken] IN
  /\ manager = "call" /\ up
  /\ IF req.cmd.op = "set"
     THEN /\ store' = [store EXCEPT ![req.cmd.key] = req.cmd.val]
          /\ UNCHANGED reply
     ELSE Answer(req.from, store[req.cmd.key]) /\ UNCHANGED store
  /\ manager' = "idle"
  /\ UNCHANGED <<taskVars, accepted, taken, up, main>>

\* The connection is closed: of a SET nobody learns it.
CallFails ==
  LET req == accepted[taken] IN
  /\ manager = "call" /\ ~up
  /\ IF req.cmd.op = "set" THEN UNCHANGED reply ELSE Answer(req.from, Failed)
  /\ manager' = "idle"
  /\ UNCHANGED <<taskVars, accepted, taken, store, up, main>>

\* Bug: main() keeps the sender it cloned from.
SendersAndMain == {t \in Tasks : phase[t] \in {"run", "wait"}} \cup {"main"}

Senders == {t \in Tasks : phase[t] \in {"run", "wait"}}

\* `recv` is None when the queue is empty and every sender is dropped.
EndManager ==
  /\ manager = "idle"
  /\ taken = Len(accepted) /\ Senders = {}
  /\ manager' = "ended"
  /\ UNCHANGED <<taskVars, reply, accepted, taken, store, up, main>>

StopServer ==
  /\ up
  /\ up' = FALSE
  /\ UNCHANGED <<taskVars, reply, accepted, taken, manager, store, main>>

-----------------------------------------------------------------------------
(* main() awaits the manager and the tasks and unwraps each *)

Join ==
  /\ main = "await"
  /\ \/ /\ manager = "dead"
        /\ main' = "panicked"
     \/ /\ manager = "ended"
        /\ main' = IF \E t \in Tasks : phase[t] = "panicked" THEN "panicked"
                   ELSE "reconnect"
  /\ UNCHANGED <<taskVars, reply, accepted, taken, manager, store, up>>

-----------------------------------------------------------------------------
TaskStep(t) == SendSet(t) \/ SendGet(t) \/ Receive(t) \/ IssueInVain(t) \/ Finish(t)
Manager == Connect \/ Recv \/ Call \/ CallFails \/ EndManager

Next == StopServer \/ Join \/ Manager \/ \E t \in Tasks : TaskStep(t)

Spec == Init /\ [][Next]_vars

\* The runtime runs every task that can go on; nothing obliges anybody to stop
\* the server.
FairSpec ==
  Spec /\ WF_vars(Manager) /\ WF_vars(Join) /\ \A t \in Tasks : WF_vars(TaskStep(t))

-----------------------------------------------------------------------------
(* Properties *)

\* The store as it will be when the manager is through with the queue.
StoreAhead == [k \in Keys |-> LastWrite(accepted, Len(accepted), k)]

\* What a waiting task was promised: that store as it was when it asked.
Promise(t) ==
  LET i == CHOOSE i \in 1..Len(accepted) :
             accepted[i].from = t /\ \A j \in (i + 1)..Len(accepted) : accepted[j].from # t
  IN  [val |-> LastWrite(accepted, i - 1, accepted[i].cmd.key)]

Promises == [t \in Tasks |-> IF phase[t] = "wait" THEN Promise(t) ELSE NoReply]

Atomic == INSTANCE KvStore WITH
  store <- StoreAhead, pending <- Promises, broken <- ~up

\* Fire-and-forget SETs and GETs through the shared queue look atomic: each
\* GET returns what the SETs before it in the queue, of all tasks, have left.
ImplementsAtomicStore == Atomic!Spec

\* A oneshot channel is answered at most once and only while its task waits:
\* what it holds is never left over for the task's next GET.
RepliesAreAwaited ==
  \A t \in Tasks : reply[t] # NoReply =>
    /\ phase[t] = "wait"
    /\ \A i \in (taken + 1)..Len(accepted) : accepted[i].from # t

\* A task panics on a key that no other task writes only if the server was
\* stopped: the assertions on "not-exists" and "mineral" (bin/client.rs:93, 100).
PrivateKeysAsRead ==
  up => \A t \in Tasks : phase[t] = "panicked" => ~Private(Script[t][pc[t] - 1].key)

\* The assertions on "halo", which both tasks write (bin/client.rs:91, 103):
\* a task reads its own last write.
SharedKeysAsRead ==
  up => \A t \in Tasks : phase[t] = "panicked" => Private(Script[t][pc[t] - 1].key)

\* main() does not wait for ever: the manager ends when the tasks have, and a
\* server that is stopped lets nobody wait for an answer.
MainProceeds == <>(main # "await")
=============================================================================
