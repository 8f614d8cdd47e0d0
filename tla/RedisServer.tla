---------------------------- MODULE RedisServer -----------------------------
(***************************************************************************)
(* The mini-redis server: the accept loop and its semaphore, one task per  *)
(* connection with the loop of server.rs and the streaming loop a          *)
(* SUBSCRIBE enters (cmd/subscribe.rs), and the shutdown that ctrl-c       *)
(* starts.  The commands work on FakeDatabase.                             *)
(*                                                                         *)
(* A step of a task is the code between two awaits: a request is read,     *)
(* executed on the store and its reply handed to write_frame in one step;  *)
(* write_frame is an await of its own, which lasts as long as the socket   *)
(* is full because the client does not read.  A select! takes any of its   *)
(* ready branches.                                                         *)
(***************************************************************************)
EXTENDS FakeDatabase

CONSTANTS
  Requests,     \* the frames each client may send
  MaxConns,     \* MAX_CONNECTIONS, the permits of the semaphore
  MaxRequests   \* bound: frames each client sends

ASSUME BoundsAssumption ==
  /\ MaxConns \in Nat \ {0}
  /\ MaxRequests \in [Conns -> Nat]

VARIABLES
  server,    \* main(): where the accept loop or the shutdown stands
  permits,   \* available permits of limit_conns
  phase,     \* what the connection and its task are doing
  signal,    \* the task's SingleRequestShutdown receiver
  reqs,      \* frames sent by the client, ever
  nread,     \* how many of them the task has read
  closed,    \* the clients that closed their end
  todo,      \* Subscribe.channels: channels still to be acknowledged
  writing,   \* the frame write_frame is busy with
  sent       \* frames written to the socket, ever

taskVars == <<todo, writing, sent>>
clientVars == <<reqs, closed>>
vars == <<dbVars, server, permits, phase, signal, nread, taskVars, clientVars>>

-----------------------------------------------------------------------------
(* Frames *)

\* "short" is a GET, SET or PUBLISH without its arguments, "other" a name the
\* server does not know, "malformed" a frame that is not an array of strings.
AnyRequest ==
  [cmd : {"get"}, key : Keys] \cup [cmd : {"set"}, key : Keys, val : Vals]
  \cup [cmd : {"publish"}, chn : Chans]
  \cup [cmd : {"subscribe", "unsubscribe"}, chns : Seq(Chans)]
  \cup [cmd : {"other"}, more : BOOLEAN] \cup [cmd : {"short", "malformed"}]

ASSUME RequestsAssumption == Requests \in [Conns -> SUBSET AnyRequest]

\* Frames to the client.  The channels of an "unsubscribe" reply are not on
\* the wire: they record, for the properties, which ones it stands for.
Frame ==
  [type : {"value"}, val : Vals \cup {Absent}] \cup [type : {"ok", "error"}]
  \cup [type : {"int"}, n : Nat] \cup [type : {"subscribe"}, chn : Chans, n : Nat]
  \cup [type : {"unsubscribe"}, chns : SUBSET Chans, n : Nat]
  \cup [type : {"message"}, chn : Chans, pos : Nat]

NoFrame == [type |-> "none"]

Elems(s) == {s[i] : i \in 1..Len(s)}

Phases == {"new", "queued", "idle", "stream", "exiting", "releasing", "gone"}

\* A task holds a permit and a handle of the store from accept to its end.
Running == {"idle", "stream", "exiting", "releasing"}
Tasks == {c \in Conns : phase[c] \in Running}

Accepting == server \in {"acquire", "accept"}

\* server_start has been dropped and notify_shutdown used.
Notified == server \in {"draining", "end"}

-----------------------------------------------------------------------------
Init ==
  /\ DbInit
  /\ server = "acquire"
  /\ permits = MaxConns
  /\ phase = [c \in Conns |-> "new"]
  /\ signal = [c \in Conns |-> "none"]
  /\ reqs = [c \in Conns |-> <<>>]
  /\ nread = [c \in Conns |-> 0]
  /\ closed = {}
  /\ todo = [c \in Conns |-> <<>>]
  /\ writing = [c \in Conns |-> NoFrame]
  /\ sent = [c \in Conns |-> <<>>]

-----------------------------------------------------------------------------
(* main() and server_start() *)

\* Bug: the semaphore hands out a permit it does not have.
AcquireUnguarded ==
  /\ server = "acquire"
  /\ permits' = permits - 1
  /\ server' = "accept"
  /\ UNCHANGED <<dbVars, phase, signal, nread, taskVars, clientVars>>

AcquirePermit ==
  /\ server = "acquire"
  /\ permits > 0
  /\ permits' = permits - 1
  /\ server' = "accept"
  /\ UNCHANGED <<dbVars, phase, signal, nread, taskVars, clientVars>>

\* Bug: the notification is subscribed to only when the task first runs.
AcceptThenSubscribe(c) ==
  /\ server = "accept"
  /\ phase[c] = "queued"
  /\ CloneHandle
  /\ phase' = [phase EXCEPT ![c] = "idle"]
  /\ server' = "acquire"
  /\ UNCHANGED <<permits, signal, nread, taskVars, clientVars>>

\* The notification is subscribed to before the task is spawned.
Accept(c) ==
  /\ server = "accept"
  /\ phase[c] = "queued"
  /\ CloneHandle
  /\ phase' = [phase EXCEPT ![c] = "idle"]
  /\ signal' = [signal EXCEPT ![c] = "armed"]
  /\ server' = "acquire"
  /\ UNCHANGED <<permits, nread, taskVars, clientVars>>

\* select! drops server_start at its await: the permit it may hold goes back
\* and its handle of the store is dropped.
CtrlC ==
  /\ Accepting
  /\ permits' = IF server = "accept" THEN permits + 1 ELSE permits
  /\ DropHandle
  /\ server' = "stopping"
  /\ UNCHANGED <<phase, signal, nread, taskVars, clientVars>>

\* The rest of that drop: the handle no longer counts and the listener closes,
\* which resets the connections it had not accepted.  Then every receiver is
\* notified.
NotifyShutdown ==
  /\ server = "stopping"
  /\ ReleaseHandle
  /\ phase' = [c \in Conns |-> IF phase[c] = "queued" THEN "gone" ELSE phase[c]]
  /\ signal' = [c \in Conns |-> IF signal[c] = "armed" THEN "fired" ELSE signal[c]]
  /\ server' = "draining"
  /\ UNCHANGED <<permits, nread, taskVars, clientVars>>

\* Bug: main() does not wait for the tasks.
EndMainAtOnce ==
  /\ server = "draining"
  /\ server' = "end"
  /\ UNCHANGED <<dbVars, permits, phase, signal, nread, taskVars, clientVars>>

EndMain ==
  /\ server = "draining"
  /\ permits = MaxConns
  /\ server' = "end"
  /\ UNCHANGED <<dbVars, permits, phase, signal, nread, taskVars, clientVars>>

-----------------------------------------------------------------------------
(* The connection task: its loop in process_single_request *)

\* The task waits in its select!, in the loop `in`.
Selecting(c, in) == phase[c] = in /\ writing[c] = NoFrame /\ todo[c] = <<>>

\* The request the select! would read next.
Ready(c) == nread[c] < Len(reqs[c])
Request(c) == reqs[c][nread[c] + 1]

Consume(c) == nread' = [nread EXCEPT ![c] = @ + 1]
Write(c, frm) == writing' = [writing EXCEPT ![c] = frm]

\* Requests from_frame() fails on, and requests no command claims.
Rejected(r) ==
  \/ r.cmd \in {"short", "malformed"}
  \/ r.cmd = "unsubscribe" /\ r.chns # <<>>
  \/ r.cmd = "other" /\ r.more
Unknown(r) ==
  \/ r.cmd = "unsubscribe" /\ r.chns = <<>>
  \/ r.cmd = "other" /\ ~r.more

ServeGet(c) ==
  /\ Selecting(c, "idle") /\ Ready(c) /\ Request(c).cmd = "get"
  /\ Consume(c)
  /\ Write(c, [type |-> "value", val |-> keyval[Request(c).key]])
  /\ UNCHANGED <<dbVars, server, permits, phase, signal, todo, sent, clientVars>>

ServeSet(c) ==
  /\ Selecting(c, "idle") /\ Ready(c) /\ Request(c).cmd = "set"
  /\ Consume(c)
  /\ DbSet(Request(c).key, Request(c).val)
  /\ Write(c, [type |-> "ok"])
  /\ UNCHANGED <<server, permits, phase, signal, todo, sent, clientVars>>

PublishReply(ch) ==
  IF ch \in pubsub THEN [type |-> "int", n |-> Cardinality(Receivers(ch))]
  ELSE [type |-> "error"]

\* Bug: a publication to a channel nobody created gets no answer.
ServePublishSilently(c) ==
  /\ Selecting(c, "idle") /\ Ready(c) /\ Request(c).cmd = "publish"
  /\ Consume(c)
  /\ DbPublish(Request(c).chn)
  /\ IF Request(c).chn \in pubsub THEN Write(c, PublishReply(Request(c).chn))
     ELSE UNCHANGED writing
  /\ UNCHANGED <<server, permits, phase, signal, todo, sent, clientVars>>

ServePublish(c) ==
  /\ Selecting(c, "idle") /\ Ready(c) /\ Request(c).cmd = "publish"
  /\ Consume(c)
  /\ DbPublish(Request(c).chn)
  /\ Write(c, PublishReply(Request(c).chn))
  /\ UNCHANGED <<server, permits, phase, signal, todo, sent, clientVars>>

ServeUnknown(c) ==
  /\ Selecting(c, "idle") /\ Ready(c) /\ Unknown(Request(c))
  /\ Consume(c)
  /\ Write(c, [type |-> "error"])
  /\ UNCHANGED <<dbVars, server, permits, phase, signal, todo, sent, clientVars>>

ServeSubscribe(c) ==
  /\ Selecting(c, "idle") /\ Ready(c) /\ Request(c).cmd = "subscribe"
  /\ Consume(c)
  /\ phase' = [phase EXCEPT ![c] = "stream"]
  /\ todo' = [todo EXCEPT ![c] = Request(c).chns]
  /\ UNCHANGED <<dbVars, server, permits, signal, writing, sent, clientVars>>

\* Bug: the panic ends the task without returning its permit.
RejectKeepsPermit(c) ==
  /\ Selecting(c, "idle") /\ Ready(c) /\ Rejected(Request(c))
  /\ Consume(c)
  /\ phase' = [phase EXCEPT ![c] = "gone"]
  /\ UNCHANGED <<dbVars, server, permits, signal, taskVars, clientVars>>

\* from_frame(..).unwrap() panics: unwinding drops what the task holds.
Reject(c) ==
  /\ Selecting(c, "idle") /\ Ready(c) /\ Rejected(Request(c))
  /\ Consume(c)
  /\ phase' = [phase EXCEPT ![c] = "exiting"]
  /\ UNCHANGED <<dbVars, server, permits, signal, taskVars, clientVars>>

-----------------------------------------------------------------------------
(* The streaming loop of Subscribe::apply *)

\* Bug: a second SUBSCRIBE to a channel replaces its receiver.
AckFreshReceiver(c) ==
  LET ch == Head(todo[c]) IN
  /\ phase[c] = "stream" /\ writing[c] = NoFrame /\ todo[c] # <<>>
  /\ todo' = [todo EXCEPT ![c] = Tail(@)]
  /\ DbSubscribe(c, ch)
  /\ Write(c, [type |-> "subscribe", chn |-> ch,
               n |-> Cardinality(subs[c] \cup {ch})])
  /\ UNCHANGED <<server, permits, phase, signal, nread, sent, clientVars>>

\* Bug: the count is of the requests, not of the channels held.
AckCountsTwice(c) ==
  LET ch == Head(todo[c]) IN
  /\ phase[c] = "stream" /\ writing[c] = NoFrame /\ todo[c] # <<>>
  /\ todo' = [todo EXCEPT ![c] = Tail(@)]
  /\ IF ch \in subs[c] THEN UNCHANGED dbVars ELSE DbSubscribe(c, ch)
  /\ Write(c, [type |-> "subscribe", chn |-> ch, n |-> Cardinality(subs[c]) + 1])
  /\ UNCHANGED <<server, permits, phase, signal, nread, sent, clientVars>>

\* One turn of the `for chn in _chns` loop: no new receiver for a channel the
\* stream map already has.  The write that ends the turn is FlushFrame.
AckSubscription(c) ==
  LET ch == Head(todo[c]) IN
  /\ phase[c] = "stream" /\ writing[c] = NoFrame /\ todo[c] # <<>>
  /\ todo' = [todo EXCEPT ![c] = Tail(@)]
  /\ IF ch \in subs[c] THEN UNCHANGED dbVars ELSE DbSubscribe(c, ch)
  /\ Write(c, [type |-> "subscribe", chn |-> ch,
               n |-> Cardinality(subs[c] \cup {ch})])
  /\ UNCHANGED <<server, permits, phase, signal, nread, sent, clientVars>>

Deliver(c, ch) ==
  /\ Selecting(c, "stream")
  /\ Poll(c, ch)
  /\ Write(c, [type |-> "message", chn |-> ch, pos |-> NextMessage(c, ch)])
  /\ UNCHANGED <<server, permits, phase, signal, nread, todo, sent, clientVars>>

StreamSubscribe(c) ==
  /\ Selecting(c, "stream") /\ Ready(c) /\ Request(c).cmd = "subscribe"
  /\ Consume(c)
  /\ todo' = [todo EXCEPT ![c] = Request(c).chns]
  /\ UNCHANGED <<dbVars, server, permits, phase, signal, writing, sent, clientVars>>

\* Bug: the reply is written and the receivers stay.
StreamUnsubscribeReplyOnly(c) ==
  /\ Selecting(c, "stream") /\ Ready(c) /\ Request(c).cmd = "unsubscribe"
  /\ Consume(c)
  /\ LET chns == IF Request(c).chns = <<>> THEN subs[c] ELSE Elems(Request(c).chns)
     IN  Write(c, [type |-> "unsubscribe", chns |-> chns,
                   n |-> Cardinality(subs[c] \ chns)])
  /\ UNCHANGED <<dbVars, server, permits, phase, signal, todo, sent, clientVars>>

\* UNSUBSCRIBE without channels stands for all of them.
StreamUnsubscribe(c) ==
  /\ Selecting(c, "stream") /\ Ready(c) /\ Request(c).cmd = "unsubscribe"
  /\ Consume(c)
  /\ LET chns == IF Request(c).chns = <<>> THEN subs[c] ELSE Elems(Request(c).chns)
     IN  /\ DropReceivers(c, chns)
         /\ Write(c, [type |-> "unsubscribe", chns |-> chns,
                      n |-> Cardinality(subs[c] \ chns)])
  /\ UNCHANGED <<server, permits, phase, signal, todo, sent, clientVars>>

\* Requests handle_cmd_in_stream fails on: of the ones it does not support,
\* finish() rejects all that carry arguments before the error frame is used.
RejectedInStream(r) ==
  r.cmd \in {"get", "set", "publish", "malformed"} \/ (r.cmd = "other" /\ r.more)

StreamRefuse(c) ==
  /\ Selecting(c, "stream") /\ Ready(c)
  /\ Request(c).cmd = "short" \/ (Request(c).cmd = "other" /\ ~Request(c).more)
  /\ Consume(c)
  /\ Write(c, [type |-> "error"])
  /\ UNCHANGED <<dbVars, server, permits, phase, signal, todo, sent, clientVars>>

\* apply() ends: its stream map is dropped, the task is back in its own loop.
LeaveStream(c) ==
  /\ DropReceivers(c, Chans)
  /\ phase' = [phase EXCEPT ![c] = "idle"]

StreamReject(c) ==
  /\ Selecting(c, "stream") /\ Ready(c) /\ RejectedInStream(Request(c))
  /\ Consume(c)
  /\ LeaveStream(c)
  /\ UNCHANGED <<server, permits, signal, taskVars, clientVars>>

-----------------------------------------------------------------------------
(* Writes, end of stream, shutdown and end of a task *)

FlushFrame(c) ==
  /\ writing[c] # NoFrame
  /\ sent' = [sent EXCEPT ![c] = Append(@, writing[c])]
  /\ Write(c, NoFrame)
  /\ UNCHANGED <<dbVars, server, permits, phase, signal, nread, todo, clientVars>>

\* The peer is gone: apply() returns the error, which the task only prints.
WriteFails(c) ==
  /\ writing[c] # NoFrame
  /\ c \in closed
  /\ Write(c, NoFrame)
  /\ todo' = [todo EXCEPT ![c] = <<>>]
  /\ IF phase[c] = "stream" THEN LeaveStream(c) ELSE UNCHANGED <<dbVars, phase>>
  /\ UNCHANGED <<server, permits, signal, nread, sent, clientVars>>

\* The read finds the end of the stream, or an error: a connection that was
\* reset loses the requests not yet read.
SeeEndOfStream(c) ==
  /\ c \in closed
  /\ \/ /\ Selecting(c, "stream")
        /\ LeaveStream(c)
     \/ /\ Selecting(c, "idle")
        /\ phase' = [phase EXCEPT ![c] = "exiting"]
        /\ UNCHANGED dbVars
  /\ UNCHANGED <<server, permits, signal, nread, taskVars, clientVars>>

\* Both loops test is_shutdown(), so the notification ends both.
SeeShutdown(c) ==
  /\ Selecting(c, "idle") \/ Selecting(c, "stream")
  /\ signal[c] = "fired"
  /\ signal' = [signal EXCEPT ![c] = "seen"]
  /\ phase' = [phase EXCEPT ![c] = "exiting"]
  /\ DropReceivers(c, Chans)
  /\ UNCHANGED <<server, permits, nread, taskVars, clientVars>>

\* The task's locals are dropped (socket, store handle): other handles come and
\* go between the reading of the count and its own release.
DropStore(c) ==
  /\ phase[c] = "exiting"
  /\ DropHandle
  /\ phase' = [phase EXCEPT ![c] = "releasing"]
  /\ UNCHANGED <<server, permits, signal, nread, taskVars, clientVars>>

\* The handle no longer counts; then the permit is dropped.
Finish(c) ==
  /\ phase[c] = "releasing"
  /\ ReleaseHandle
  /\ phase' = [phase EXCEPT ![c] = "gone"]
  /\ permits' = permits + 1
  /\ UNCHANGED <<server, signal, nread, taskVars, clientVars>>

-----------------------------------------------------------------------------
(* The clients: any program that speaks the protocol *)

Connect(c) ==
  /\ phase[c] = "new" /\ Accepting
  /\ phase' = [phase EXCEPT ![c] = "queued"]
  /\ UNCHANGED <<dbVars, server, permits, signal, nread, taskVars, clientVars>>

Connected(c) == phase[c] \in {"queued"} \cup Running /\ c \notin closed

Send(c) ==
  /\ Connected(c)
  /\ Len(reqs[c]) < MaxRequests[c]
  /\ \E r \in Requests[c] : reqs' = [reqs EXCEPT ![c] = Append(@, r)]
  /\ UNCHANGED <<dbVars, server, permits, phase, signal, nread, taskVars, closed>>

Close(c) ==
  /\ Connected(c)
  /\ closed' = closed \cup {c}
  /\ UNCHANGED <<dbVars, server, permits, phase, signal, nread, taskVars, reqs>>

-----------------------------------------------------------------------------
Serve(c) ==
  \/ ServeGet(c) \/ ServeSet(c) \/ ServePublish(c) \/ ServeUnknown(c)
  \/ ServeSubscribe(c) \/ Reject(c)

Stream(c) ==
  \/ AckSubscription(c) \/ StreamSubscribe(c) \/ StreamUnsubscribe(c)
  \/ StreamRefuse(c) \/ StreamReject(c)
  \/ \E ch \in Chans : Deliver(c, ch)

Task(c) ==
  \/ Serve(c) \/ Stream(c)
  \/ FlushFrame(c) \/ WriteFails(c) \/ SeeEndOfStream(c) \/ SeeShutdown(c)
  \/ DropStore(c) \/ Finish(c)

Client(c) == Connect(c) \/ Send(c) \/ Close(c)

Next ==
  \/ AcquirePermit \/ CtrlC \/ NotifyShutdown \/ EndMain
  \/ \E c \in Conns : Accept(c) \/ Task(c) \/ Client(c)

Spec == Init /\ [][Next]_vars

\* The runtime runs every task that can go on, and a write ends because clients
\* keep reading; nothing obliges them to send or to close, or the operator to
\* press ctrl-c.  Weak fairness is enough because MaxRequests bounds the traffic:
\* without the bound a branch would also need the random polling of select!.
Fairness ==
  /\ WF_vars(AcquirePermit) /\ WF_vars(NotifyShutdown) /\ WF_vars(EndMain)
  /\ \A c \in Conns : WF_vars(Accept(c)) /\ WF_vars(Task(c))

FairSpec == Spec /\ Fairness

-----------------------------------------------------------------------------
(* Properties *)

\* Every variable keeps its type.
TypeOK ==
  /\ DbTypeOK
  /\ server \in {"acquire", "accept", "stopping", "draining", "end"}
  /\ permits \in Nat
  /\ phase \in [Conns -> Phases]
  /\ signal \in [Conns -> {"none", "armed", "fired", "seen"}]
  /\ reqs \in [Conns -> Seq(AnyRequest)]
  /\ nread \in [Conns -> Nat]
  /\ closed \in SUBSET Conns
  /\ todo \in [Conns -> Seq(Chans)]
  /\ writing \in [Conns -> Frame \cup {NoFrame}]
  /\ sent \in [Conns -> Seq(Frame)]

\* Permits are neither lost nor minted, whichever way a task ends (end of
\* stream, panic on a bad frame, shutdown) and although ctrl-c drops the accept
\* loop while it may hold one.
PermitsConserved ==
  permits + Cardinality(Tasks) + (IF server = "accept" THEN 1 ELSE 0) = MaxConns

\* main() returns only when no connection task is left.
EndMeansDrained == server = "end" => Tasks = {}

\* Once main() has notified, every task still in one of its loops has the notification
\* waiting: none was accepted too late to be told.
ShutdownReachesAll ==
  Notified => \A c \in Conns : phase[c] \in {"idle", "stream"} => signal[c] = "fired"

\* What makes ShutdownReachesAll inductive: until main() notifies, a task in its
\* loops is armed, so that the notification finds every one of them listening.
SignalInv ==
  \A c \in Conns : phase[c] \in {"idle", "stream"} =>
    signal[c] = (IF Notified THEN "fired" ELSE "armed")

\* What a reply to a request may be, outside a stream.
Answers(r, frm) ==
  CASE r.cmd = "get" -> frm.type = "value"
    [] r.cmd = "set" -> frm.type = "ok"
    [] r.cmd = "publish" -> frm.type \in {"int", "error"}
    [] OTHER -> frm.type = "error"

BeforeStream(c, i) == \A j \in 1..i : reqs[c][j].cmd # "subscribe"

\* A SET that was carried out, asked for by the i-th request of c.
WasSet(c, i, k) ==
  i <= nread[c] /\ reqs[c][i].cmd = "set" /\ reqs[c][i].key = k /\ BeforeStream(c, i)

\* What was written stays readable: a key somebody has set is never found absent
\* while connections are accepted or a task is still in its loops, whatever
\* connections end meanwhile and however the drops of their handles interleave.
WritesStay ==
  Accepting \/ (\E d \in Conns : phase[d] \in {"idle", "stream"}) =>
    \A c \in Conns, k \in Keys :
      (\E i \in 1..Len(reqs[c]) : WasSet(c, i, k)) => keyval[k] # Absent

\* What makes WritesStay inductive: the count is of the handles there are, one of
\* server_start until it is dropped and one of each task.
RefsInv ==
  refs = Cardinality(Tasks) + (IF Notified THEN 0 ELSE 1)

\* Pipelined requests are answered one for one and in order: the i-th frame
\* a connection gets answers its i-th request, until it subscribes.
AnswersInOrder ==
  \A c \in Conns \ closed :
    /\ \A i \in 1..Len(sent[c]) :
         BeforeStream(c, IF i <= Len(reqs[c]) THEN i ELSE Len(reqs[c]))
           => i <= nread[c] /\ Answers(reqs[c][i], sent[c][i])
    /\ Selecting(c, "idle") /\ BeforeStream(c, nread[c]) => Len(sent[c]) = nread[c]

IsMessage(frm, ch) == frm.type = "message" /\ frm.chn = ch
Confirms(frm, ch) == frm.type = "subscribe" /\ frm.chn = ch
Ends(frm, ch) == frm.type = "unsubscribe" /\ ch \in frm.chns

\* On the wire a message of a channel comes after a confirmation of its
\* subscription that no UNSUBSCRIBE reply has ended.
MessagesOnlyWhileSubscribed ==
  \A c \in Conns, ch \in Chans : \A i \in 1..Len(sent[c]) :
    IsMessage(sent[c][i], ch) =>
      \E j \in 1..(i - 1) : Confirms(sent[c][j], ch)
                              /\ \A k \in j..i : ~Ends(sent[c][k], ch)

\* A connection is given the messages of a channel in the order they were
\* published and none twice, across unsubscribing and subscribing again.
DeliveredInOrder ==
  \A c \in Conns, ch \in Chans : \A i, j \in 1..Len(sent[c]) :
    i < j /\ IsMessage(sent[c][i], ch) /\ IsMessage(sent[c][j], ch)
      => sent[c][i].pos < sent[c][j].pos

\* What makes DeliveredInOrder inductive: a receiver is at least as far as any
\* message it gave, and no further than its channel.
CursorInv ==
  \A c \in Conns, ch \in Chans :
    /\ cursor[c][ch] <= tail[ch]
    /\ IsMessage(writing[c], ch) => writing[c].pos <= cursor[c][ch]
    /\ \A i \in 1..Len(sent[c]) : IsMessage(sent[c][i], ch) =>
         /\ sent[c][i].pos <= cursor[c][ch]
         /\ IsMessage(writing[c], ch) => sent[c][i].pos < writing[c].pos

\* The messages a receiver may still be given: newer than the last it was
\* given, and not overwritten by Capacity newer ones.
Waiting(c, ch) ==
  {m \in 1..tail[ch] : cursor[c][ch] < m /\ tail[ch] - m < Capacity}

\* A receiver moves only by handing over its message, and that is the oldest one
\* waiting: a lagged receiver passes over what was overwritten and nothing else,
\* and subscribing again to a channel loses nothing that is waiting.
SkipsOnlyOverwritten ==
  [][\A c \in Conns, ch \in Chans :
       ch \in subs[c] /\ ch \in subs'[c] /\ cursor'[c][ch] # cursor[c][ch]
         => /\ writing'[c] = [type |-> "message", chn |-> ch, pos |-> cursor'[c][ch]]
            /\ cursor'[c][ch] \in Waiting(c, ch)
            /\ \A m \in Waiting(c, ch) : cursor'[c][ch] <= m]_vars

\* The channels a client believes to hold from the first i frames it got.
Held(c, i) ==
  {ch \in Chans : \E j \in 1..i : Confirms(sent[c][j], ch)
                                    /\ \A k \in j..i : ~Ends(sent[c][k], ch)}

\* The count in a confirmation is the number of distinct channels the client
\* holds (the comment at clients/client.rs:107-114), as long as no request of
\* its has made the server drop the stream.
CountsMatchWire ==
  \A c \in Conns \ closed :
    (\A i \in 1..nread[c] : RejectedInStream(reqs[c][i]) => BeforeStream(c, i)) =>
      \A i \in 1..Len(sent[c]) : sent[c][i].type \in {"subscribe", "unsubscribe"}
        => sent[c][i].n = Cardinality(Held(c, i))

\* "Only `EndOfStream` errors are handled at runtime. All other errors result
\* in the connection being terminated" (parse.rs:19-21).  Not so in a stream.
ParseErrorTerminates ==
  [][\A c \in Conns :
       /\ nread'[c] # nread[c]
       /\ \/ phase[c] = "idle" /\ Rejected(Request(c))
          \/ phase[c] = "stream" /\ RejectedInStream(Request(c))
       => phase'[c] \in {"exiting", "gone"}]_vars

\* After ctrl-c the server ends: every task is told, stops and gives back its
\* permit, streams blocked on a slow reader included.
ShutdownCompletes == server = "stopping" ~> server = "end"

\* A subscriber that stays is brought up to date.
BacklogDrains ==
  \A c \in Conns, ch \in Chans :
    ch \in subs[c] /\ Backlog(c, ch) > 0 ~> ch \notin subs[c] \/ Backlog(c, ch) = 0

\* A request of an accepted connection is answered unless its task ends.
RequestsAnswered ==
  \A c \in Conns : \A i \in 1..MaxRequests[c] :
    (phase[c] = "idle" /\ i <= Len(reqs[c]) /\ BeforeStream(c, i))
      ~> (Len(sent[c]) >= i \/ phase[c] = "gone" \/ c \in closed)
=============================================================================
