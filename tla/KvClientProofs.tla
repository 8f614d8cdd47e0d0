--------------------------- MODULE KvClientProofs ---------------------------
(***************************************************************************)
(* Proof that the manager, its queue and its oneshot channels look like    *)
(* one atomic store to the tasks (ImplementsAtomicStore), for any scripts, *)
(* any number of tasks and any capacity of the queue, and that a oneshot   *)
(* channel never holds an answer nobody waits for (RepliesAreAwaited).     *)
(***************************************************************************)
EXTENDS KvClient, WellFoundedInduction, TLAPS

Values == Vals \cup {Absent}
Request == [from : Tasks, cmd : Command]

KvTypeOK ==
  /\ phase \in [Tasks -> {"run", "wait", "done", "panicked"}]
  /\ pc \in [Tasks -> Nat \ {0}]
  /\ reply \in [Tasks -> {NoReply} \cup [val : Values \cup {Failed}]]
  /\ accepted \in Seq(Request)
  /\ taken \in 0..Len(accepted)
  /\ manager \in {"connect", "idle", "call", "ended", "dead"}
  /\ store \in [Keys -> Values]
  /\ up \in BOOLEAN

\* Command i of the queue is the last one of task t.
LastOf(t, i) ==
  /\ i \in 1..Len(accepted)
  /\ accepted[i].from = t
  /\ \A j \in (i + 1)..Len(accepted) : accepted[j].from # t

\* What the GET at i is to be answered.
Before(i) == LastWrite(accepted, i - 1, accepted[i].cmd.key)

\* The number of commands the manager is through with.
Handled == IF manager = "call" THEN taken - 1 ELSE taken

\* A task that waits does so for the last command it sent, and what its
\* channel holds is the answer to that.
WaitersInv ==
  \A t \in Tasks : phase[t] = "wait" =>
    \E i \in 1..Len(accepted) :
      /\ LastOf(t, i)
      /\ accepted[i].cmd.op = "get"
      /\ reply[t] # NoReply =>
           i <= Handled /\ (reply[t].val = Before(i) \/ (~up /\ reply[t].val = Failed))

\* A GET that is not answered yet is waited for.
PendingInv ==
  manager # "dead" =>
    \A t \in Tasks, i \in (Handled + 1)..Len(accepted) :
      accepted[i].from = t /\ accepted[i].cmd.op = "get" =>
        phase[t] = "wait" /\ reply[t] = NoReply /\ LastOf(t, i)

ReplyInv == \A t \in Tasks : reply[t] # NoReply => phase[t] = "wait"

\* Before it is connected the manager takes nothing; it dies of not being connected.
ManagerInv ==
  /\ manager = "call" => taken >= 1
  /\ manager \in {"connect", "dead"} => \A t \in Tasks : reply[t] = NoReply
  /\ manager \in {"connect", "dead"} => taken = 0
  /\ manager = "dead" => ~up

StoreInv == up => \A k \in Keys : store[k] = LastWrite(accepted, Handled, k)

Inv == KvTypeOK /\ WaitersInv /\ PendingInv /\ ReplyInv /\ ManagerInv /\ StoreInv

-----------------------------------------------------------------------------
(* What a prefix of the queue leaves in a key *)

LastPos(S) == CHOOSE i \in S : \A j \in S : j <= i

\* A nonempty set of positions has a last one.
LEMMA LastPosExists ==
  ASSUME NEW n \in Nat, NEW S \in SUBSET (1..n), S # {}
  PROVE  LastPos(S) \in S
  <1> DEFINE T == {i \in 0..n : n - i \in S}
  <1>1. \A j \in S : n - j \in T
    OBVIOUS
  <1>2. T \subseteq Nat /\ \A i \in T : n - i \in S
    OBVIOUS
  <1> HIDE DEF T
  <1>3. T # {}
    BY <1>1
  <1>4. \E x \in T : \A y \in T : ~ (y < x)
    <2>1. \E x \in T : \A y \in T : ~ (<<y, x>> \in OpToRel(<, Nat))
      BY <1>2, <1>3, WFMin, NatLessThanWellFounded
    <2>2. ASSUME NEW x \in T, NEW y \in T, y < x PROVE <<y, x>> \in OpToRel(<, Nat)
      BY <1>2, <2>2 DEF OpToRel
    <2> QED
      BY <2>1, <2>2, Zenon
  <1>5. PICK x \in T : \A y \in T : x <= y
    BY <1>2, <1>4
  <1>6. \A j \in S : x <= n - j /\ j \in 1..n
    BY <1>1, <1>5
  <1>7. \E m \in S : \A j \in S : j <= m
    BY <1>2, <1>5, <1>6
  <1> QED
    BY <1>7 DEF LastPos

Writes(cmds, n, k) == {i \in 1..n : cmds[i].cmd.op = "set" /\ cmds[i].cmd.key = k}

LEMMA CommandFields ==
  ASSUME NEW cmd \in Command
  PROVE  /\ cmd.op \in {"set", "get"} /\ cmd.key \in Keys
         /\ cmd.op = "set" => cmd.val \in Vals
  BY DEF Command

LEMMA LastWriteIs ==
  ASSUME NEW cmds, NEW n, NEW k
  PROVE  LastWrite(cmds, n, k) =
           IF Writes(cmds, n, k) = {} THEN Absent
           ELSE cmds[LastPos(Writes(cmds, n, k))].cmd.val
  BY DEF LastWrite, Writes, LastPos

LEMMA LastOfWrites ==
  ASSUME NEW cmds, NEW n \in Nat, NEW k, Writes(cmds, n, k) # {}
  PROVE  LastPos(Writes(cmds, n, k)) \in Writes(cmds, n, k)
  <1>1. Writes(cmds, n, k) \in SUBSET (1..n)
    BY DEF Writes
  <1> QED
    BY <1>1, LastPosExists

LEMMA LastWriteType ==
  ASSUME NEW cmds \in Seq(Request), NEW n \in 0..Len(cmds), NEW k
  PROVE  LastWrite(cmds, n, k) \in Values
  <1>1. ASSUME NEW i \in Writes(cmds, n, k)
        PROVE  cmds[i].cmd.val \in Vals
    <2>1. i \in 1..Len(cmds) /\ cmds[i].cmd.op = "set"
      BY DEF Writes
    <2>2. cmds[i] \in Request
      BY <2>1
    <2>3. cmds[i].cmd \in Command
      BY <2>2 DEF Request
    <2> QED
      BY <2>1, <2>3, CommandFields
  <1> QED
    BY <1>1, LastWriteIs, LastOfWrites DEF Values

\* Commands sent later do not count.
LEMMA LastWriteAppend ==
  ASSUME NEW cmds \in Seq(Request), NEW x \in Request, NEW n \in 0..Len(cmds), NEW k
  PROVE  LastWrite(Append(cmds, x), n, k) = LastWrite(cmds, n, k)
  <1> DEFINE W == Writes(cmds, n, k)
  <1>1. \A i \in 1..n : Append(cmds, x)[i] = cmds[i]
    OBVIOUS
  <1>2. Writes(Append(cmds, x), n, k) = W
    BY <1>1 DEF Writes
  <1>3. W # {} => LastPos(W) \in 1..n
    <2>1. W # {} => LastPos(W) \in W
      BY LastOfWrites
    <2> QED
      BY <2>1 DEF Writes
  <1> HIDE DEF W
  <1>4. LastWrite(Append(cmds, x), n, k) =
          IF W = {} THEN Absent ELSE Append(cmds, x)[LastPos(W)].cmd.val
    BY <1>2, LastWriteIs
  <1>5. LastWrite(cmds, n, k) = IF W = {} THEN Absent ELSE cmds[LastPos(W)].cmd.val
    BY LastWriteIs DEF W
  <1> QED
    BY <1>1, <1>3, <1>4, <1>5

\* One command more: a SET of the key replaces its value.
LEMMA LastWriteStep ==
  ASSUME NEW cmds \in Seq(Request), NEW n \in 1..Len(cmds), NEW k
  PROVE  LastWrite(cmds, n, k) =
           IF cmds[n].cmd.op = "set" /\ cmds[n].cmd.key = k THEN cmds[n].cmd.val
           ELSE LastWrite(cmds, n - 1, k)
  <1>1. CASE cmds[n].cmd.op = "set" /\ cmds[n].cmd.key = k
    <2>1. n \in Writes(cmds, n, k) /\ Writes(cmds, n, k) \subseteq 1..n
      BY <1>1 DEF Writes
    <2>2. LastPos(Writes(cmds, n, k)) = n
      BY <2>1 DEF LastPos
    <2> QED
      BY <1>1, <2>1, <2>2, LastWriteIs
  <1>2. CASE ~(cmds[n].cmd.op = "set" /\ cmds[n].cmd.key = k)
    <2>1. Writes(cmds, n, k) = Writes(cmds, n - 1, k)
      BY <1>2 DEF Writes
    <2>2. LastWrite(cmds, n, k) = LastWrite(cmds, n - 1, k)
      BY <2>1, LastWriteIs
    <2> QED
      BY <1>2, <2>2
  <1> QED
    BY <1>1, <1>2

-----------------------------------------------------------------------------
(* The invariant *)

LEMMA RequestAt ==
  ASSUME KvTypeOK, NEW i \in 1..Len(accepted)
  PROVE  /\ accepted[i].from \in Tasks
         /\ accepted[i].cmd.op \in {"set", "get"} /\ accepted[i].cmd.key \in Keys
         /\ accepted[i].cmd.op = "set" => accepted[i].cmd.val \in Vals
  <1>1. accepted[i] \in Request
    BY DEF KvTypeOK
  <1>2. accepted[i].from \in Tasks /\ accepted[i].cmd \in Command
    BY <1>1 DEF Request
  <1> QED
    BY <1>2, CommandFields

LEMMA IssuedCommand ==
  ASSUME KvTypeOK, NEW t \in Tasks, Issuing(t)
  PROVE  Cmd(t) \in Command
  <1>1. /\ pc[t] \in Nat \ {0} /\ pc[t] <= Len(Script[t])
        /\ Script[t] \in Seq(Command)
    BY KvAssumption DEF KvTypeOK, Issuing
  <1> QED
    BY <1>1 DEF Cmd

\* A command is sent: what was there before stays as it is.
LEMMA SendFacts ==
  ASSUME KvTypeOK, NEW t \in Tasks, SendSet(t) \/ SendGet(t)
  PROVE  LET n == Len(accepted) IN
         /\ n \in Nat /\ Len(accepted') = n + 1
         /\ accepted' \in Seq(Request)
         /\ \A i \in 1..n : accepted'[i] = accepted[i]
         /\ accepted'[n + 1].from = t /\ accepted'[n + 1].cmd = Cmd(t)
         /\ \A m \in 0..n : \A k : LastWrite(accepted', m, k) = LastWrite(accepted, m, k)
  <1> DEFINE x == [from |-> t, cmd |-> Cmd(t)]
  <1>1. accepted' = Append(accepted, x)
    BY DEF SendSet, SendGet, Enqueue
  <1>2. x \in Request /\ accepted \in Seq(Request) /\ x.from = t /\ x.cmd = Cmd(t)
    BY IssuedCommand DEF SendSet, SendGet, Request, KvTypeOK
  <1> HIDE DEF x
  <1>3. \A m \in 0..Len(accepted) : \A k : LastWrite(accepted', m, k) = LastWrite(accepted, m, k)
    BY <1>1, <1>2, LastWriteAppend
  <1> QED
    BY <1>1, <1>2, <1>3 DEF Request

LEMMA SendStep ==
  ASSUME Inv, NEW t \in Tasks, SendSet(t) \/ SendGet(t)
  PROVE  Inv'
  <1> DEFINE n == Len(accepted)
  <1>1. /\ n \in Nat /\ Len(accepted') = n + 1
        /\ accepted' \in Seq(Request)
        /\ \A i \in 1..n : accepted'[i] = accepted[i]
        /\ accepted'[n + 1].from = t /\ accepted'[n + 1].cmd = Cmd(t)
        /\ \A m \in 0..n : \A k : LastWrite(accepted', m, k) = LastWrite(accepted, m, k)
    BY SendFacts DEF Inv
  <1>2. /\ phase[t] = "run" /\ manager # "dead"
        /\ UNCHANGED <<reply, taken, manager, store, up>>
        /\ phase' = IF Cmd(t).op = "get" THEN [phase EXCEPT ![t] = "wait"] ELSE phase
        /\ pc' = [pc EXCEPT ![t] = @ + 1]
    BY DEF SendSet, SendGet, Issuing, Advance
  <1>3. reply[t] = NoReply
    BY <1>2 DEF Inv, ReplyInv
  <1>4. /\ Handled' = Handled /\ Handled \in 0..n
        /\ phase \in [Tasks -> {"run", "wait", "done", "panicked"}]
    BY <1>2 DEF Handled, Inv, KvTypeOK, ManagerInv
  <1>5. \A u \in Tasks, i \in 1..n :
          u # t /\ LastOf(u, i) => LastOf(u, i)' /\ Before(i)' = Before(i)
    BY <1>1 DEF LastOf, Before
  <1>6. \A i : i = n + 1 => LastOf(t, i)'
    BY <1>1 DEF LastOf
  <1> HIDE DEF n
  <1>7. KvTypeOK'
    BY <1>1, <1>2, <1>4 DEF Inv, KvTypeOK, n
  <1>8. WaitersInv'
    <2> SUFFICES ASSUME NEW u \in Tasks, phase'[u] = "wait"
                 PROVE  \E i \in 1..Len(accepted') :
                          /\ LastOf(u, i)'
                          /\ accepted'[i].cmd.op = "get"
                          /\ reply'[u] # NoReply =>
                               /\ i <= Handled'
                               /\ \/ reply'[u].val = Before(i)'
                                  \/ ~up' /\ reply'[u].val = Failed
      BY DEF WaitersInv
    <2>1. CASE u = t
      <3>1. PICK i \in 1..Len(accepted') : i = n + 1
        BY <1>1
      <3>2. LastOf(u, i)' /\ accepted'[i].cmd = Cmd(t) /\ reply'[u] = NoReply
        BY <1>1, <1>2, <1>3, <1>6, <2>1, <3>1
      <3>3. Cmd(t).op = "get"
        BY <1>2, <2>1
      <3> QED
        BY <3>2, <3>3
    <2>2. CASE u # t
      <3>1. phase[u] = "wait"
        BY <1>2, <1>4, <2>2
      <3>2. PICK i \in 1..n :
               /\ LastOf(u, i)
               /\ accepted[i].cmd.op = "get"
               /\ reply[u] # NoReply =>
                    i <= Handled /\ (reply[u].val = Before(i) \/ (~up /\ reply[u].val = Failed))
        BY <3>1 DEF Inv, WaitersInv, n
      <3> QED
        BY <1>1, <1>2, <1>4, <1>5, <2>2, <3>2
    <2> QED
      BY <2>1, <2>2
  <1>9. PendingInv'
    <2> SUFFICES ASSUME NEW u \in Tasks, NEW i \in (Handled' + 1)..Len(accepted'),
                        accepted'[i].from = u, accepted'[i].cmd.op = "get"
                 PROVE  phase'[u] = "wait" /\ reply'[u] = NoReply /\ LastOf(u, i)'
      BY DEF PendingInv
    <2>1. CASE i = n + 1
      <3>1. u = t /\ Cmd(t).op = "get"
        BY <1>1, <2>1
      <3> QED
        BY <1>2, <1>3, <1>4, <1>6, <2>1, <3>1
    <2>2. CASE i # n + 1
      <3>1. i \in (Handled + 1)..n /\ i \in 1..n /\ accepted'[i] = accepted[i]
        BY <1>1, <1>4, <2>2
      <3>2. phase[u] = "wait" /\ reply[u] = NoReply /\ LastOf(u, i)
        BY <1>2, <3>1 DEF Inv, PendingInv, n
      <3> QED
        BY <1>2, <1>4, <1>5, <3>1, <3>2
    <2> QED
      BY <2>1, <2>2
  <1>10. ReplyInv'
    BY <1>2, <1>3, <1>4 DEF Inv, ReplyInv
  <1>11. ManagerInv' /\ StoreInv'
    BY <1>1, <1>2, <1>4 DEF Inv, ManagerInv, StoreInv
  <1> QED
    BY <1>7, <1>8, <1>9, <1>10, <1>11 DEF Inv

\* While nothing is sent, positions keep their meaning.
LEMMA NothingSent ==
  ASSUME accepted' = accepted
  PROVE  /\ \A t, i : LastOf(t, i)' <=> LastOf(t, i)
         /\ \A i : Before(i)' = Before(i)
  BY DEF LastOf, Before

\* Tasks that get their answer, find the queue gone or finish.
LEMMA TaskSteps ==
  ASSUME Inv, NEW t \in Tasks, Receive(t) \/ IssueInVain(t) \/ Finish(t)
  PROVE  Inv'
  <1>1. /\ UNCHANGED <<accepted, taken, manager, store, up>>
        /\ pc' \in {pc, [pc EXCEPT ![t] = @ + 1]}
    BY DEF Receive, IssueInVain, Finish, Advance
  <1>2. \E p \in {"run", "done", "panicked"} :
          /\ phase' = [phase EXCEPT ![t] = p] \/ (phase' = phase /\ phase[t] # "wait")
          /\ reply' = [reply EXCEPT ![t] = NoReply]
    <2>1. CASE Receive(t)
      BY <2>1 DEF Receive, Take
    <2>2. CASE IssueInVain(t)
      <3>1. reply[t] = NoReply /\ reply' = reply
        BY <2>2 DEF IssueInVain, Inv, ManagerInv
      <3>2. reply' = [reply EXCEPT ![t] = NoReply]
        BY <3>1 DEF Inv, KvTypeOK
      <3>3. \E p \in {"run", "panicked"} :
              phase' = [phase EXCEPT ![t] = p] \/ (phase' = phase /\ phase[t] # "wait")
        BY <2>2 DEF IssueInVain, Issuing, Take
      <3> QED
        BY <3>2, <3>3
    <2>3. CASE Finish(t)
      <3>1. reply[t] = NoReply /\ reply' = reply /\ phase' = [phase EXCEPT ![t] = "done"]
        BY <2>3 DEF Finish, Inv, ReplyInv
      <3>2. reply' = [reply EXCEPT ![t] = NoReply]
        BY <3>1 DEF Inv, KvTypeOK
      <3> QED
        BY <3>1, <3>2
    <2> QED
      BY <2>1, <2>2, <2>3
  <1>3. /\ phase'[t] # "wait" /\ reply'[t] = NoReply
        /\ \A u \in Tasks : u # t => phase'[u] = phase[u] /\ reply'[u] = reply[u]
    BY <1>2 DEF Inv, KvTypeOK
  <1>4. Handled' = Handled
    BY <1>1 DEF Handled
  <1>5. KvTypeOK'
    <2>1. phase' \in [Tasks -> {"run", "wait", "done", "panicked"}]
      BY <1>2 DEF Inv, KvTypeOK
    <2>2. reply' \in [Tasks -> {NoReply} \cup [val : Values \cup {Failed}]]
      BY <1>2 DEF Inv, KvTypeOK
    <2>3. pc' \in [Tasks -> Nat \ {0}]
      BY <1>1 DEF Inv, KvTypeOK
    <2> QED
      BY <1>1, <2>1, <2>2, <2>3 DEF Inv, KvTypeOK
  <1>6. WaitersInv'
    BY <1>1, <1>3, <1>4, NothingSent DEF Inv, WaitersInv
  <1>7. PendingInv'
    <2>1. manager # "dead" => Receive(t) \/ Finish(t)
      BY DEF IssueInVain
    <2>2. ASSUME manager # "dead", NEW i \in (Handled + 1)..Len(accepted),
                 accepted[i].from = t, accepted[i].cmd.op = "get"
          PROVE  FALSE
      BY <2>1, <2>2 DEF Inv, PendingInv, Receive, Finish
    <2> QED
      BY <1>1, <1>3, <1>4, <2>2, NothingSent DEF Inv, PendingInv
  <1>8. ReplyInv' /\ ManagerInv' /\ StoreInv'
    BY <1>1, <1>3, <1>4 DEF Inv, ReplyInv, ManagerInv, StoreInv
  <1> QED
    BY <1>5, <1>6, <1>7, <1>8 DEF Inv

\* The manager takes a command, ends or finds no server, main() goes on, the
\* server stops: no answer is given.
LEMMA QuietSteps ==
  ASSUME Inv, Connect \/ Recv \/ EndManager \/ StopServer \/ Join \/ UNCHANGED vars
  PROVE  Inv'
  <1>1. /\ UNCHANGED <<phase, pc, reply, accepted, store>>
        /\ up' = up \/ up' = FALSE
        /\ manager' = "dead" => manager = "dead" \/ (manager = "connect" /\ ~up)
        /\ manager = "dead" => manager' = "dead"
    <2>1. CASE Connect
      BY <2>1 DEF Connect, taskVars
    <2>2. CASE Recv
      BY <2>2 DEF Recv, taskVars
    <2>3. CASE EndManager
      BY <2>3 DEF EndManager, taskVars
    <2>4. CASE StopServer \/ Join \/ UNCHANGED vars
      BY <2>4 DEF StopServer, Join, vars, taskVars
    <2> QED
      BY <2>1, <2>2, <2>3, <2>4
  <1>2. \/ manager = "connect" /\ manager' \in {"idle", "dead"} /\ taken' = taken
        \/ manager = "idle" /\ manager' = "call" /\ taken < Len(accepted) /\ taken' = taken + 1
        \/ manager = "idle" /\ manager' = "ended" /\ taken' = taken
        \/ UNCHANGED <<manager, taken>>
    BY DEF Connect, Recv, EndManager, StopServer, Join, vars, taskVars
  <1>3. taken \in 0..Len(accepted) /\ up' \in BOOLEAN
    BY DEF Connect, Recv, EndManager, StopServer, Join, vars, taskVars, Inv, KvTypeOK
  <1>4. /\ Handled' = Handled /\ taken' \in 0..Len(accepted)
        /\ manager' \in {"connect", "idle", "call", "ended", "dead"}
    BY <1>2, <1>3 DEF Handled, Inv, KvTypeOK
  <1>5. KvTypeOK'
    BY <1>1, <1>3, <1>4 DEF Inv, KvTypeOK
  <1>6. ManagerInv'
    BY <1>1, <1>2, <1>3 DEF Inv, ManagerInv
  <1>7. WaitersInv' /\ PendingInv'
    BY <1>1, <1>4, NothingSent DEF Inv, WaitersInv, PendingInv
  <1>8. ReplyInv' /\ StoreInv'
    BY <1>1, <1>4 DEF Inv, ReplyInv, StoreInv
  <1> QED
    BY <1>5, <1>6, <1>7, <1>8 DEF Inv

\* The manager hands a command to the server and its answer on.
LEMMA CallStep ==
  ASSUME Inv, Call \/ CallFails
  PROVE  Inv'
  <1> DEFINE req == accepted[taken]
             u == req.from
             v == IF up THEN store[req.cmd.key] ELSE Failed
  <1>1. /\ UNCHANGED <<phase, pc, accepted, taken, up>>
        /\ manager = "call" /\ manager' = "idle"
        /\ req.cmd.op = "set" =>
             /\ reply' = reply
             /\ up => store' = [store EXCEPT ![req.cmd.key] = req.cmd.val]
             /\ ~up => store' = store
        /\ req.cmd.op # "set" =>
             reply' = [reply EXCEPT ![u] = [val |-> v]] /\ store' = store
    BY DEF Call, CallFails, Answer, taskVars
  <1>2. /\ taken \in 1..Len(accepted) /\ Handled = taken - 1 /\ Handled' = taken
        /\ taken \in (Handled + 1)..Len(accepted)
    BY <1>1 DEF Inv, ManagerInv, KvTypeOK, Handled
  <1>3. /\ u \in Tasks /\ req.cmd.op \in {"set", "get"} /\ req.cmd.key \in Keys
        /\ req.cmd.op = "set" => req.cmd.val \in Vals
    BY <1>2, RequestAt DEF Inv
  <1>4. req.cmd.op = "get" => phase[u] = "wait" /\ reply[u] = NoReply /\ LastOf(u, taken)
    BY <1>1, <1>2, <1>3 DEF Inv, PendingInv
  <1>5. v = Before(taken) \/ (~up /\ v = Failed)
    BY <1>2, <1>3 DEF Inv, StoreInv, Before
  <1>6. v \in Values \cup {Failed}
    BY <1>3 DEF Inv, KvTypeOK
  <1>7. StoreInv'
    <2>1. \A k : LastWrite(accepted, taken, k) =
                   IF req.cmd.op = "set" /\ req.cmd.key = k THEN req.cmd.val
                   ELSE LastWrite(accepted, taken - 1, k)
      BY <1>2, LastWriteStep DEF Inv, KvTypeOK
    <2>2. ASSUME up, NEW k \in Keys PROVE store'[k] = LastWrite(accepted, taken, k)
      BY <1>1, <1>2, <1>3, <2>1, <2>2 DEF Inv, StoreInv, KvTypeOK
    <2> QED
      BY <1>1, <1>2, <2>2 DEF StoreInv
  <1> HIDE DEF u, v, req
  <1>8. KvTypeOK'
    <2>1. reply' \in [Tasks -> {NoReply} \cup [val : Values \cup {Failed}]]
      BY <1>1, <1>3, <1>6 DEF Inv, KvTypeOK
    <2>2. store' \in [Keys -> Values]
      BY <1>1, <1>3 DEF Inv, KvTypeOK, Values
    <2> QED
      BY <1>1, <2>1, <2>2 DEF Inv, KvTypeOK
  <1>9. WaitersInv'
    <2> SUFFICES ASSUME NEW t \in Tasks, phase[t] = "wait"
                 PROVE  \E i \in 1..Len(accepted) :
                          /\ LastOf(t, i)
                          /\ accepted[i].cmd.op = "get"
                          /\ reply'[t] # NoReply =>
                               /\ i <= taken
                               /\ reply'[t].val = Before(i) \/ (~up /\ reply'[t].val = Failed)
      BY <1>1, <1>2, NothingSent DEF WaitersInv
    <2>1. CASE req.cmd.op = "get" /\ t = u
      <3>1. reply'[t].val = v
        BY <1>1, <1>3, <2>1 DEF Inv, KvTypeOK
      <3> QED
        BY <1>2, <1>4, <1>5, <2>1, <3>1 DEF req
    <2>2. CASE ~(req.cmd.op = "get" /\ t = u)
      <3>1. reply'[t] = reply[t]
        BY <1>1, <1>3, <2>2 DEF Inv, KvTypeOK
      <3>2. PICK i \in 1..Len(accepted) :
               /\ LastOf(t, i)
               /\ accepted[i].cmd.op = "get"
               /\ reply[t] # NoReply =>
                    i <= Handled /\ (reply[t].val = Before(i) \/ (~up /\ reply[t].val = Failed))
        BY DEF Inv, WaitersInv
      <3>3. i <= Handled => i <= taken
        BY <1>2
      <3> QED
        BY <3>1, <3>2, <3>3
    <2> QED
      BY <2>1, <2>2
  <1>10. PendingInv'
    <2> SUFFICES ASSUME NEW t \in Tasks, NEW i \in (taken + 1)..Len(accepted),
                        accepted[i].from = t, accepted[i].cmd.op = "get"
                 PROVE  phase[t] = "wait" /\ reply'[t] = NoReply /\ LastOf(t, i)
      BY <1>1, <1>2, NothingSent DEF PendingInv
    <2>1. phase[t] = "wait" /\ reply[t] = NoReply /\ LastOf(t, i)
      BY <1>1, <1>2 DEF Inv, PendingInv
    <2>2. ~(req.cmd.op = "get" /\ t = u)
      BY <1>2, <1>4 DEF LastOf
    <2>3. reply'[t] = reply[t]
      BY <1>1, <1>3, <2>2 DEF Inv, KvTypeOK
    <2> QED
      BY <2>1, <2>3
  <1>11. ReplyInv'
    BY <1>1, <1>3, <1>4 DEF Inv, ReplyInv, KvTypeOK
  <1>12. ManagerInv'
    BY <1>1 DEF ManagerInv
  <1> QED
    BY <1>7, <1>8, <1>9, <1>10, <1>11, <1>12 DEF Inv

LEMMA InitInv == Init => Inv
  <1> SUFFICES ASSUME Init PROVE Inv
    OBVIOUS
  <1>1. Len(accepted) = 0 /\ taken = 0 /\ Handled = 0 /\ manager = "connect" /\ up = TRUE
    BY DEF Init, Handled
  <1>2. KvTypeOK
    BY <1>1 DEF Init, KvTypeOK, Values
  <1>3. WaitersInv /\ PendingInv /\ ReplyInv /\ ManagerInv
    BY <1>1 DEF Init, WaitersInv, PendingInv, ReplyInv, ManagerInv
  <1>4. \A k : LastWrite(accepted, 0, k) = Absent
    BY DEF LastWrite
  <1>5. StoreInv
    BY <1>1, <1>4 DEF Init, StoreInv
  <1> QED
    BY <1>2, <1>3, <1>5 DEF Inv

LEMMA NextInv == Inv /\ [Next]_vars => Inv'
  <1> SUFFICES ASSUME Inv, [Next]_vars PROVE Inv'
    OBVIOUS
  <1>1. ASSUME NEW t \in Tasks, TaskStep(t) PROVE Inv'
    BY <1>1, SendStep, TaskSteps DEF TaskStep
  <1>2. ASSUME Manager PROVE Inv'
    BY <1>2, QuietSteps, CallStep DEF Manager
  <1>3. ASSUME StopServer \/ Join \/ UNCHANGED vars PROVE Inv'
    BY <1>3, QuietSteps
  <1> QED
    BY <1>1, <1>2, <1>3 DEF Next

THEOREM KvInvariant == Spec => []Inv
  BY InitInv, NextInv, PTL DEF Spec

\* A oneshot channel never holds what its task no longer waits for
\* (RepliesAreAwaited; the manager's match in bin/client.rs).
THEOREM AnswersAwaited == Spec => []RepliesAreAwaited
  <1>1. Inv => RepliesAreAwaited
    <2> SUFFICES ASSUME Inv, NEW t \in Tasks, reply[t] # NoReply
                 PROVE  /\ phase[t] = "wait"
                        /\ \A j \in (taken + 1)..Len(accepted) : accepted[j].from # t
      BY DEF RepliesAreAwaited
    <2>1. phase[t] = "wait"
      BY DEF Inv, ReplyInv
    <2>2. PICK i \in 1..Len(accepted) : LastOf(t, i) /\ i <= Handled
      BY <2>1 DEF Inv, WaitersInv
    <2>3. taken \in Nat /\ i <= taken
      BY <2>2 DEF Handled, Inv, KvTypeOK
    <2> QED
      BY <2>1, <2>2, <2>3 DEF LastOf
  <1> QED
    BY <1>1, KvInvariant, PTL

-----------------------------------------------------------------------------
(* The keys that one task writes *)

Sends(t) == SendSet(t) \/ SendGet(t)

\* What the queue leaves in a key of t alone is what t's own commands do.
OwnWriteInv ==
  manager # "dead" =>
    \A t \in Tasks : \A k \in Keys :
      OwnKey(t, k) => LastWrite(accepted, Len(accepted), k) = OwnWrite(t, pc[t] - 1, k)

\* The GET that a task waits for is the last one of its script so far; of a key
\* of its own it is to be answered what it asserts.
AwaitedInv ==
  \A t \in Tasks : phase[t] = "wait" =>
    /\ pc[t] >= 2 /\ pc[t] - 1 <= Len(Script[t])
    /\ Script[t][pc[t] - 1].op = "get"
    /\ \A i \in 1..Len(accepted) :
         LastOf(t, i) /\ Private(Script[t][pc[t] - 1].key) =>
           Before(i) = Script[t][pc[t] - 1].expect

OwnInv == OwnWriteInv /\ AwaitedInv /\ PrivateKeysAsRead

\* One command of a script more.
LEMMA OwnWriteStep ==
  ASSUME NEW t \in Tasks, NEW n \in 1..Len(Script[t]), NEW k
  PROVE  OwnWrite(t, n, k) =
           IF Script[t][n].op = "set" /\ Script[t][n].key = k THEN Script[t][n].val
           ELSE OwnWrite(t, n - 1, k)
  <1> DEFINE cmds == [i \in 1..n |-> [from |-> t, cmd |-> Script[t][i]]]
             own(m) == [i \in 1..m |-> [cmd |-> Script[t][i]]]
  <1>1. n \in Nat /\ Script[t] \in Seq(Command) /\ \A i \in 1..n : Script[t][i] \in Command
    BY KvAssumption
  <1>2. cmds \in Seq(Request) /\ Len(cmds) = n
    <2>1. \A i \in 1..n : cmds[i] \in Request
      BY <1>1 DEF Request
    <2>2. cmds \in [1..n -> Request]
      BY <2>1
    <2> HIDE DEF cmds
    <2> QED
      BY <1>1, <2>2
  <1>3. \A m \in 0..n : LastWrite(own(m), m, k) = LastWrite(cmds, m, k)
    <2> SUFFICES ASSUME NEW m \in 0..n
                 PROVE  LastWrite(own(m), m, k) = LastWrite(cmds, m, k)
      OBVIOUS
    <2>1. \A i \in 1..m : i \in 1..n /\ own(m)[i].cmd = cmds[i].cmd
      BY <1>1
    <2> HIDE DEF own, cmds
    <2>2. Writes(own(m), m, k) = Writes(cmds, m, k)
      BY <2>1 DEF Writes
    <2>3. Writes(own(m), m, k) # {} =>
            LastPos(Writes(own(m), m, k)) \in Writes(own(m), m, k)
      <3>1. m \in Nat
        BY <1>1
      <3> QED
        BY <3>1, LastOfWrites
    <2>4. Writes(own(m), m, k) \subseteq 1..m
      BY DEF Writes
    <2> QED
      BY <2>1, <2>2, <2>3, <2>4, LastWriteIs
  <1>4. cmds[n].cmd = Script[t][n]
    BY <1>1
  <1>5. n \in 1..Len(cmds) /\ n \in 0..n /\ n - 1 \in 0..n
    BY <1>1, <1>2
  <1>6. LastWrite(cmds, n, k) =
          IF cmds[n].cmd.op = "set" /\ cmds[n].cmd.key = k THEN cmds[n].cmd.val
          ELSE LastWrite(cmds, n - 1, k)
    BY <1>2, <1>5, LastWriteStep
  <1>7. OwnWrite(t, n, k) = LastWrite(cmds, n, k) /\ OwnWrite(t, n - 1, k) = LastWrite(cmds, n - 1, k)
    BY <1>3, <1>5 DEF OwnWrite
  <1> QED
    BY <1>4, <1>6, <1>7

\* A task that issues a command keeps to its script, and to its own keys.
LEMMA OwnSend ==
  ASSUME Inv, OwnInv, NEW t \in Tasks, Sends(t)
  PROVE  OwnInv'
  <1> DEFINE n == Len(accepted)
             cmd == Script[t][pc[t]]
  <1>1. /\ n \in Nat /\ Len(accepted') = n + 1
        /\ accepted' \in Seq(Request)
        /\ \A i \in 1..n : accepted'[i] = accepted[i]
        /\ accepted'[n + 1].from = t /\ accepted'[n + 1].cmd = cmd
        /\ \A m \in 0..n : \A k : LastWrite(accepted', m, k) = LastWrite(accepted, m, k)
    BY SendFacts DEF Inv, Cmd, Sends
  <1>2. /\ phase[t] = "run" /\ pc[t] \in 1..Len(Script[t]) /\ manager # "dead"
        /\ UNCHANGED <<manager, up>>
        /\ phase' = IF cmd.op = "get" THEN [phase EXCEPT ![t] = "wait"] ELSE phase
        /\ pc' = [pc EXCEPT ![t] = @ + 1]
    BY KvAssumption DEF Sends, SendSet, SendGet, Issuing, Advance, Cmd, Inv, KvTypeOK
  <1>3. /\ pc'[t] = pc[t] + 1 /\ pc'[t] - 1 = pc[t] /\ pc[t] \in Nat
        /\ \A u \in Tasks : u # t => pc'[u] = pc[u] /\ phase'[u] = phase[u]
        /\ phase'[t] \in {"run", "wait"}
        /\ phase'[t] = "wait" => cmd.op = "get"
    BY <1>2 DEF Inv, KvTypeOK
  <1>4. \A k : LastWrite(accepted', n + 1, k) =
                 IF cmd.op = "set" /\ cmd.key = k THEN cmd.val ELSE LastWrite(accepted, n, k)
    BY <1>1, LastWriteStep
  <1>5. \A k : OwnWrite(t, pc[t], k) =
                 IF cmd.op = "set" /\ cmd.key = k THEN cmd.val ELSE OwnWrite(t, pc[t] - 1, k)
    BY <1>2, OwnWriteStep
  <1>6. cmd \in Command
    BY <1>2, KvAssumption
  <1>7. OwnWriteInv'
    <2> SUFFICES ASSUME NEW u \in Tasks, NEW k \in Keys, OwnKey(u, k)
                 PROVE  LastWrite(accepted', n + 1, k) = OwnWrite(u, pc'[u] - 1, k)
      BY <1>1 DEF OwnWriteInv
    <2>1. LastWrite(accepted, n, k) = OwnWrite(u, pc[u] - 1, k)
      BY <1>2 DEF OwnInv, OwnWriteInv
    <2>2. CASE u = t
      BY <1>3, <1>4, <1>5, <2>1, <2>2
    <2>3. CASE u # t
      <3>1. ~ (cmd.op = "set" /\ cmd.key = k)
        BY <1>2, <2>3 DEF OwnKey
      <3> QED
        BY <1>3, <1>4, <2>1, <2>3, <3>1
    <2> QED
      BY <2>2, <2>3
  <1>8. AwaitedInv'
    <2> SUFFICES ASSUME NEW u \in Tasks, phase'[u] = "wait"
                 PROVE  /\ pc'[u] >= 2 /\ pc'[u] - 1 <= Len(Script[u])
                        /\ Script[u][pc'[u] - 1].op = "get"
                        /\ \A i \in 1..(n + 1) :
                             LastOf(u, i)' /\ Private(Script[u][pc'[u] - 1].key) =>
                               Before(i)' = Script[u][pc'[u] - 1].expect
      BY <1>1 DEF AwaitedInv
    <2>1. CASE u = t
      <3>1. /\ pc'[u] >= 2 /\ pc'[u] - 1 <= Len(Script[u])
            /\ Script[u][pc'[u] - 1].op = "get" /\ Script[u][pc'[u] - 1] = cmd
        BY <1>2, <1>3, <2>1
      <3>2. ASSUME NEW i \in 1..(n + 1), LastOf(u, i)', Private(cmd.key)
            PROVE  Before(i)' = cmd.expect
        <4>1. i = n + 1
          BY <1>1, <2>1, <3>2 DEF LastOf
        <4>2. Before(i)' = LastWrite(accepted, n, cmd.key)
          BY <1>1, <4>1 DEF Before
        <4>3. OwnKey(t, cmd.key) /\ cmd.expect = OwnWrite(t, pc[t] - 1, cmd.key)
          BY <1>2, <2>1, <3>1, <3>2, ScriptAssumption
        <4>4. LastWrite(accepted, n, cmd.key) = OwnWrite(t, pc[t] - 1, cmd.key)
          BY <1>2, <1>6, <4>3, CommandFields DEF OwnInv, OwnWriteInv
        <4> QED
          BY <4>2, <4>3, <4>4
      <3> QED
        BY <3>1, <3>2
    <2>2. CASE u # t
      <3>1. phase[u] = "wait" /\ pc'[u] = pc[u]
        BY <1>3, <2>2
      <3>2. ASSUME NEW i \in 1..(n + 1), LastOf(u, i)'
            PROVE  i \in 1..n /\ LastOf(u, i) /\ Before(i)' = Before(i)
        <4>1. i \in 1..n
          BY <1>1, <2>2, <3>2 DEF LastOf
        <4> QED
          BY <1>1, <3>2, <4>1 DEF LastOf, Before
      <3> QED
        BY <3>1, <3>2 DEF OwnInv, AwaitedInv
    <2> QED
      BY <2>1, <2>2
  <1>9. PrivateKeysAsRead'
    BY <1>2, <1>3 DEF OwnInv, PrivateKeysAsRead
  <1> QED
    BY <1>7, <1>8, <1>9 DEF OwnInv

\* While the server runs, a task that waits for a key of its own does not panic.
LEMMA OwnTaskSteps ==
  ASSUME Inv, OwnInv, NEW t \in Tasks, Receive(t) \/ IssueInVain(t) \/ Finish(t)
  PROVE  OwnInv'
  <1>1. /\ UNCHANGED <<accepted, manager, up>>
        /\ manager = "dead" => ~ up
        /\ \A u \in Tasks : u # t => pc'[u] = pc[u] /\ phase'[u] = phase[u]
        /\ phase'[t] # "wait" \/ (phase'[t] = phase[t] /\ phase[t] # "wait")
        /\ manager # "dead" => pc' = pc
    <2>1. CASE Receive(t)
      BY <2>1 DEF Receive, Take, Inv, KvTypeOK, ManagerInv
    <2>2. CASE IssueInVain(t)
      BY <2>2 DEF IssueInVain, Issuing, Advance, Take, Inv, KvTypeOK, ManagerInv
    <2>3. CASE Finish(t)
      BY <2>3 DEF Finish, Inv, KvTypeOK, ManagerInv
    <2> QED
      BY <2>1, <2>2, <2>3
  <1>2. OwnWriteInv'
    BY <1>1 DEF OwnInv, OwnWriteInv
  <1>3. AwaitedInv'
    BY <1>1, NothingSent DEF OwnInv, AwaitedInv
  <1>4. ASSUME up, phase'[t] = "panicked", Private(Script[t][pc[t] - 1].key)
        PROVE  FALSE
    <2>1. CASE phase[t] # "wait"
      BY <1>1, <1>4, <2>1 DEF Receive, IssueInVain, Finish, Inv, KvTypeOK
    <2>2. CASE phase[t] = "wait"
      <3>1. Receive(t)
        BY <1>1, <1>4, <2>2 DEF IssueInVain, Finish
      <3>2. PICK i \in 1..Len(accepted) : LastOf(t, i) /\ reply[t].val = Before(i)
        BY <1>4, <2>2, <3>1 DEF Receive, Inv, WaitersInv
      <3>3. reply[t].val = Script[t][pc[t] - 1].expect
        BY <1>4, <2>2, <3>2 DEF OwnInv, AwaitedInv
      <3>4. phase' = [phase EXCEPT ![t] = "run"]
        BY <3>1, <3>3 DEF Receive, Take
      <3> QED
        BY <1>4, <3>4 DEF Inv, KvTypeOK
    <2> QED
      BY <2>1, <2>2
  <1>5. PrivateKeysAsRead'
    BY <1>1, <1>4 DEF OwnInv, PrivateKeysAsRead
  <1> QED
    BY <1>2, <1>3, <1>5 DEF OwnInv

\* The manager, the server and main() change neither what is asked nor a task.
LEMMA OwnOtherSteps ==
  ASSUME OwnInv, Manager \/ StopServer \/ Join \/ UNCHANGED vars
  PROVE  OwnInv'
  <1>1. /\ UNCHANGED <<accepted, phase, pc>> /\ (up' = up \/ up' = FALSE)
        /\ manager = "dead" => manager' = "dead"
    <2>1. CASE Manager
      BY <2>1 DEF Manager, Connect, Recv, Call, CallFails, EndManager, taskVars
    <2>2. CASE StopServer \/ Join \/ UNCHANGED vars
      BY <2>2 DEF StopServer, Join, vars, taskVars
    <2> QED
      BY <2>1, <2>2
  <1>2. AwaitedInv'
    BY <1>1, NothingSent DEF OwnInv, AwaitedInv
  <1>3. OwnWriteInv' /\ PrivateKeysAsRead'
    BY <1>1 DEF OwnInv, OwnWriteInv, PrivateKeysAsRead
  <1> QED
    BY <1>2, <1>3 DEF OwnInv

\* While the server runs, no task panics on a key that it alone writes or that
\* nobody does (PrivateKeysAsRead; the assertions at bin/client.rs:93 and 100),
\* whatever the scripts that assert of such keys their own last write.
THEOREM PrivateKeysRead == Spec => []PrivateKeysAsRead
  <1>1. Init => OwnInv
    <2> SUFFICES ASSUME Init PROVE OwnInv
      OBVIOUS
    <2>1. \A t \in Tasks : \A k : OwnWrite(t, pc[t] - 1, k) = Absent
      BY DEF Init, OwnWrite, LastWrite
    <2>2. \A k : LastWrite(accepted, Len(accepted), k) = Absent
      BY DEF Init, LastWrite
    <2> QED
      BY <2>1, <2>2 DEF Init, OwnInv, OwnWriteInv, AwaitedInv, PrivateKeysAsRead
  <1>2. Inv /\ OwnInv /\ [Next]_vars => OwnInv'
    BY OwnSend, OwnTaskSteps, OwnOtherSteps DEF Next, TaskStep, Sends
  <1>3. OwnInv => PrivateKeysAsRead
    BY DEF OwnInv
  <1> QED
    BY <1>1, <1>2, <1>3, KvInvariant, PTL DEF Spec

-----------------------------------------------------------------------------
(* The refinement *)

LEMMA PromiseIs ==
  ASSUME NEW t, NEW i, LastOf(t, i), Len(accepted) \in Nat
  PROVE  Promise(t) = [val |-> Before(i)]
  <1>1. i = CHOOSE n \in 1..Len(accepted) :
              accepted[n].from = t /\ \A j \in (n + 1)..Len(accepted) : accepted[j].from # t
    BY DEF LastOf
  <1> QED
    BY <1>1 DEF Promise, Before

LEMMA PromiseIsNext ==
  ASSUME NEW t, NEW i, LastOf(t, i)', Len(accepted') \in Nat
  PROVE  Promise(t)' = [val |-> Before(i)']
  <1>1. i = CHOOSE n \in 1..Len(accepted') :
              accepted'[n].from = t /\ \A j \in (n + 1)..Len(accepted') : accepted'[j].from # t
    BY DEF LastOf
  <1> QED
    BY <1>1 DEF Promise, Before

\* A task is owed an answer exactly while it waits.
LEMMA PromisesAre ==
  ASSUME Inv, NEW t \in Tasks
  PROVE  /\ phase[t] # "wait" => Promises[t] = Atomic!NoAnswer
         /\ phase[t] = "wait" =>
              /\ Promises[t] # Atomic!NoAnswer
              /\ reply[t] # NoReply =>
                   reply[t].val = Promises[t].val \/ (~up /\ reply[t].val = Failed)
  <1>1. phase[t] # "wait" => Promises[t] = Atomic!NoAnswer
    BY DEF Promises, NoReply, Atomic!NoAnswer
  <1>2. ASSUME phase[t] = "wait"
        PROVE  /\ Promises[t] # Atomic!NoAnswer
               /\ reply[t] # NoReply =>
                    reply[t].val = Promises[t].val \/ (~up /\ reply[t].val = Failed)
    <2>1. PICK i \in 1..Len(accepted) :
             /\ LastOf(t, i)
             /\ reply[t] # NoReply => reply[t].val = Before(i) \/ (~up /\ reply[t].val = Failed)
      BY <1>2 DEF Inv, WaitersInv
    <2>2. Promises[t] = [val |-> Before(i)]
      BY <1>2, <2>1, PromiseIs DEF Promises, Inv, KvTypeOK
    <2>3. Before(i) \in Values
      BY LastWriteType DEF Before, Inv, KvTypeOK
    <2>4. Atomic!NoAnswer.val \notin Values
      BY KvAssumption DEF Atomic!NoAnswer, NoReply, Values
    <2> QED
      BY <2>1, <2>2, <2>3, <2>4
  <1> QED
    BY <1>1, <1>2

\* Without a new command of its own a task that goes on waiting is owed the same.
LEMMA PromisesKept ==
  ASSUME Inv, NEW t \in Tasks, phase[t] = "wait", phase'[t] = "wait",
         \/ accepted' = accepted
         \/ \E u \in Tasks \ {t} : SendSet(u) \/ SendGet(u)
  PROVE  Promises'[t] = Promises[t]
  <1>1. PICK i \in 1..Len(accepted) : LastOf(t, i)
    BY DEF Inv, WaitersInv
  <1>2. LastOf(t, i)' /\ Before(i)' = Before(i) /\ Len(accepted') \in Nat
    <2>1. CASE accepted' = accepted
      BY <1>1, <2>1, NothingSent DEF Inv, KvTypeOK
    <2>2. CASE \E u \in Tasks \ {t} : SendSet(u) \/ SendGet(u)
      <3>1. PICK u \in Tasks \ {t} : SendSet(u) \/ SendGet(u)
        BY <2>2
      <3>2. /\ Len(accepted) \in Nat /\ Len(accepted') = Len(accepted) + 1
            /\ \A n \in 1..Len(accepted) : accepted'[n] = accepted[n]
            /\ accepted'[Len(accepted) + 1].from = u
            /\ \A m \in 0..Len(accepted) : \A k :
                 LastWrite(accepted', m, k) = LastWrite(accepted, m, k)
        BY <3>1, SendFacts DEF Inv
      <3>3. LastOf(t, i)' /\ accepted'[i] = accepted[i] /\ i - 1 \in 0..Len(accepted)
        BY <1>1, <3>1, <3>2 DEF LastOf
      <3>4. Before(i)' = Before(i)
        BY <3>2, <3>3 DEF Before
      <3> QED
        BY <3>2, <3>3, <3>4
    <2> QED
      BY <2>1, <2>2
  <1>3. Promise(t) = [val |-> Before(i)] /\ Promise(t)' = [val |-> Before(i)']
    BY <1>1, <1>2, PromiseIs, PromiseIsNext DEF Inv, KvTypeOK
  <1> QED
    BY <1>2, <1>3 DEF Promises

\* The queue is not touched: the store ahead and what the others are owed stay.
LEMMA NothingOwedChanges ==
  ASSUME Inv, accepted' = accepted, NEW t \in Tasks, NEW p,
         phase' = [phase EXCEPT ![t] = p], p # "wait"
  PROVE  /\ StoreAhead' = StoreAhead
         /\ Promises' = [Promises EXCEPT ![t] = Atomic!NoAnswer]
  <1>1. StoreAhead' = StoreAhead
    BY DEF StoreAhead
  <1>2. \A u \in Tasks : u # t => phase'[u] = phase[u]
    BY DEF Inv, KvTypeOK
  <1>3. \A u \in Tasks : u # t => Promises'[u] = Promises[u]
    BY <1>2, PromisesKept DEF Promises
  <1>4. Promises'[t] = Atomic!NoAnswer
    BY DEF Promises, Inv, KvTypeOK, NoReply, Atomic!NoAnswer
  <1> QED
    BY <1>1, <1>3, <1>4 DEF Promises

LEMMA SameQueueAndPhase ==
  ASSUME Inv, accepted' = accepted, phase' = phase
  PROVE  StoreAhead' = StoreAhead /\ Promises' = Promises
  <1>1. \A t \in Tasks : Promises'[t] = Promises[t]
    BY PromisesKept DEF Promises
  <1> QED
    BY <1>1 DEF StoreAhead, Promises

\* Issuing a command is where the atomic store acts.
LEMMA SendRefines ==
  ASSUME Inv, NEW t \in Tasks, SendSet(t) \/ SendGet(t)
  PROVE  Atomic!Set(t) \/ Atomic!Get(t)
  <1> DEFINE n == Len(accepted)
             cmd == Script[t][pc[t]]
  <1>1. /\ n \in Nat /\ Len(accepted') = n + 1
        /\ accepted' \in Seq(Request)
        /\ \A i \in 1..n : accepted'[i] = accepted[i]
        /\ accepted'[n + 1].from = t /\ accepted'[n + 1].cmd = cmd
        /\ \A m \in 0..n : \A k : LastWrite(accepted', m, k) = LastWrite(accepted, m, k)
    BY SendFacts DEF Inv, Cmd
  <1>2. /\ phase[t] = "run" /\ pc[t] <= Len(Script[t])
        /\ UNCHANGED <<got, reply, up>>
        /\ phase' = IF cmd.op = "get" THEN [phase EXCEPT ![t] = "wait"] ELSE phase
        /\ pc' = [pc EXCEPT ![t] = @ + 1]
    BY DEF SendSet, SendGet, Issuing, Advance, Cmd
  <1>3. cmd \in Command
    BY IssuedCommand DEF SendSet, SendGet, Inv, Cmd
  <1>4. \A k : LastWrite(accepted', n + 1, k) =
                 IF cmd.op = "set" /\ cmd.key = k THEN cmd.val ELSE LastWrite(accepted, n, k)
    BY <1>1, LastWriteStep
  <1>5. cmd.op \in {"set", "get"} /\ cmd.key \in Keys
    BY <1>3, CommandFields
  <1>6. \A u \in Tasks : u # t => Promises'[u] = Promises[u]
    <2>1. \A u \in Tasks : u # t => phase'[u] = phase[u]
      BY <1>2 DEF Inv, KvTypeOK
    <2> QED
      BY <2>1, PromisesKept DEF Promises
  <1>7. Promises[t] = Atomic!NoAnswer
    BY <1>2, PromisesAre
  <1> HIDE DEF n, cmd
  <1>8. CASE cmd.op = "set"
    <2>1. StoreAhead' = [StoreAhead EXCEPT ![cmd.key] = cmd.val]
      BY <1>1, <1>4, <1>5, <1>8 DEF StoreAhead, n
    <2>2. Promises'[t] = Promises[t]
      BY <1>2, <1>5, <1>8 DEF Promises
    <2>3. Promises' = Promises
      BY <1>6, <2>2 DEF Promises
    <2> QED
      BY <1>2, <1>7, <1>8, <2>1, <2>3 DEF Atomic!Set, Atomic!At, Atomic!Advance, cmd
  <1>9. CASE cmd.op = "get"
    <2>1. StoreAhead' = StoreAhead
      BY <1>1, <1>4, <1>9 DEF StoreAhead, n
    <2>2. Promises'[t] = [val |-> StoreAhead[cmd.key]]
      <3>1. \A i : i = n + 1 => LastOf(t, i)' /\ Before(i)' = StoreAhead[cmd.key]
        BY <1>1, <1>5 DEF LastOf, Before, StoreAhead, n
      <3>2. Promise(t)' = [val |-> StoreAhead[cmd.key]]
        BY <1>1, <3>1, PromiseIsNext
      <3> QED
        BY <1>2, <1>9, <3>2 DEF Promises, Inv, KvTypeOK
    <2>3. Promises' = [Promises EXCEPT ![t] = [val |-> StoreAhead[cmd.key]]]
      BY <1>6, <2>2 DEF Promises
    <2> QED
      BY <1>2, <1>7, <1>9, <2>1, <2>3 DEF Atomic!Get, Atomic!At, Atomic!Advance, cmd
  <1> QED
    BY <1>5, <1>8, <1>9

\* A task gets what it was promised, or the server is gone.
LEMMA TaskRefines ==
  ASSUME Inv, NEW t \in Tasks, Receive(t) \/ IssueInVain(t) \/ Finish(t)
  PROVE  \/ Atomic!Return(t) \/ Atomic!LoseSet(t) \/ Atomic!FailGet(t)
         \/ UNCHANGED Atomic!vars
  <1>1. CASE Receive(t)
    <2>1. /\ phase[t] = "wait" /\ reply[t] # NoReply
          /\ got' = [got EXCEPT ![t] = Append(@, reply[t].val)]
          /\ UNCHANGED <<pc, accepted, up>>
          /\ \E p \in {"run", "panicked"} : phase' = [phase EXCEPT ![t] = p]
      BY <1>1 DEF Receive, Take
    <2>2. StoreAhead' = StoreAhead /\ Promises' = [Promises EXCEPT ![t] = Atomic!NoAnswer]
      BY <2>1, NothingOwedChanges
    <2>3. /\ Promises[t] # Atomic!NoAnswer
          /\ reply[t].val = Promises[t].val \/ (~up /\ reply[t].val = Failed)
      BY <2>1, PromisesAre
    <2>4. CASE reply[t].val = Promises[t].val
      BY <2>1, <2>2, <2>3, <2>4 DEF Atomic!Return
    <2>5. CASE ~up /\ reply[t].val = Failed
      BY <2>1, <2>2, <2>3, <2>5 DEF Atomic!FailGet
    <2> QED
      BY <2>3, <2>4, <2>5
  <1>2. CASE IssueInVain(t)
    <2>1. ~up /\ accepted' = accepted /\ up' = up
      BY <1>2 DEF IssueInVain, Inv, ManagerInv
    <2>2. CASE Issuing(t) /\ Cmd(t).op = "set" /\ Advance(t) /\ UNCHANGED <<phase, got>>
      <3>1. StoreAhead' = StoreAhead /\ Promises' = Promises
        BY <2>1, <2>2, SameQueueAndPhase
      <3>2. Promises[t] = Atomic!NoAnswer
        BY <2>2, PromisesAre DEF Issuing
      <3> QED
        BY <2>1, <2>2, <3>1, <3>2
        DEF Issuing, Cmd, Advance, Atomic!LoseSet, Atomic!At, Atomic!Advance
    <2>3. CASE Issuing(t) /\ Cmd(t).op = "get" /\ Advance(t) /\ Take(t, Absent, Cmd(t).expect)
      <3>1. StoreAhead' = StoreAhead /\ Promises' = [Promises EXCEPT ![t] = Atomic!NoAnswer]
        BY <2>1, <2>3, NothingOwedChanges DEF Take
      <3>2. Promises[t] = Atomic!NoAnswer
        BY <2>3, PromisesAre DEF Issuing
      <3>3. Promises' = Promises
        BY <3>1, <3>2 DEF Promises
      <3> QED
        BY <2>1, <2>3, <3>1, <3>2, <3>3
        DEF Issuing, Cmd, Advance, Take, Atomic!FailGet, Atomic!At, Atomic!Advance
    <2>4. CASE /\ phase[t] = "wait" /\ UNCHANGED pc
               /\ Take(t, Absent, Script[t][pc[t] - 1].expect)
      <3>0. \E p \in {"run", "panicked"} : phase' = [phase EXCEPT ![t] = p]
        BY <2>4 DEF Take
      <3>1. StoreAhead' = StoreAhead /\ Promises' = [Promises EXCEPT ![t] = Atomic!NoAnswer]
        BY <2>1, <3>0, NothingOwedChanges
      <3>2. Promises[t] # Atomic!NoAnswer
        BY <2>4, PromisesAre
      <3> QED
        BY <2>1, <2>4, <3>1, <3>2 DEF Take, Atomic!FailGet
    <2> QED
      BY <1>2, <2>2, <2>3, <2>4 DEF IssueInVain
  <1>3. CASE Finish(t)
    <2>1. /\ phase[t] = "run" /\ phase' = [phase EXCEPT ![t] = "done"]
          /\ UNCHANGED <<pc, got, accepted, up>>
      BY <1>3 DEF Finish
    <2>2. StoreAhead' = StoreAhead /\ Promises' = [Promises EXCEPT ![t] = Atomic!NoAnswer]
      BY <2>1, NothingOwedChanges
    <2>3. Promises' = Promises
      BY <2>1, <2>2, PromisesAre DEF Promises
    <2> QED
      BY <2>1, <2>2, <2>3 DEF Atomic!vars
  <1> QED
    BY <1>1, <1>2, <1>3

\* The tasks see the manager only through their answers.
LEMMA ManagerRefines ==
  ASSUME Inv, Manager \/ StopServer \/ Join \/ UNCHANGED vars
  PROVE  Atomic!Break \/ UNCHANGED Atomic!vars
  <1>1. UNCHANGED <<accepted, phase, pc, got>> /\ (up' = up \/ (up /\ up' = FALSE))
    <2>1. CASE Manager
      BY <2>1 DEF Manager, Connect, Recv, Call, CallFails, EndManager, taskVars
    <2>2. CASE StopServer \/ Join \/ UNCHANGED vars
      BY <2>2 DEF StopServer, Join, vars, taskVars
    <2> QED
      BY <2>1, <2>2
  <1>2. StoreAhead' = StoreAhead /\ Promises' = Promises
    BY <1>1, SameQueueAndPhase
  <1> QED
    BY <1>1, <1>2 DEF Atomic!Break, Atomic!vars

\* Tasks that fire and forget SETs and wait for GETs see one atomic store
\* (ImplementsAtomicStore; kv_exp_sender and kv_exp_receiver of bin/client.rs).
THEOREM AtomicStore == Spec => ImplementsAtomicStore
  <1>1. Init => Atomic!Init
    <2> SUFFICES ASSUME Init PROVE Atomic!Init
      OBVIOUS
    <2>1. \A k : LastWrite(accepted, Len(accepted), k) = Absent
      BY DEF Init, LastWrite
    <2>2. Promises = [t \in Tasks |-> Atomic!NoAnswer]
      BY DEF Init, Promises, NoReply, Atomic!NoAnswer
    <2> QED
      BY <2>1, <2>2 DEF Init, StoreAhead, Atomic!Init
  <1>2. Inv /\ [Next]_vars => [Atomic!Next]_Atomic!vars
    <2> SUFFICES ASSUME Inv, [Next]_vars PROVE [Atomic!Next]_Atomic!vars
      OBVIOUS
    <2>1. ASSUME NEW t \in Tasks, TaskStep(t) PROVE [Atomic!Next]_Atomic!vars
      BY <2>1, SendRefines, TaskRefines DEF TaskStep, Atomic!Next
    <2>2. CASE Manager \/ StopServer \/ Join \/ UNCHANGED vars
      BY <2>2, ManagerRefines DEF Atomic!Next
    <2> QED
      BY <2>1, <2>2 DEF Next
  <1> QED
    BY <1>1, <1>2, KvInvariant, PTL DEF Spec, ImplementsAtomicStore, Atomic!Spec
=============================================================================
