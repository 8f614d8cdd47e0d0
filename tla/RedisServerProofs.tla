------------------------- MODULE RedisServerProofs --------------------------
(***************************************************************************)
(* Proofs about RedisServer: its types, the semaphore's accounting, the    *)
(* reach of the shutdown notification and the life of the data; that the   *)
(* messages of a channel are delivered in order, none twice, skipping only *)
(* what the ring has lost; and what a client can tell from the wire: its   *)
(* requests are answered one for one and in order until it subscribes, a   *)
(* message of a channel comes only within a subscription to it, and the    *)
(* replies count the channels the client holds.  For any number of         *)
(* connections, channels, keys and requests, and any capacity of the rings.*)
(***************************************************************************)
EXTENDS RedisServer, FiniteSetTheorems, TLAPS

-----------------------------------------------------------------------------
(* What a request of each kind carries *)

LEMMA RequestFields ==
  ASSUME NEW r \in AnyRequest
  PROVE  /\ r.cmd = "get" => r.key \in Keys
         /\ r.cmd = "set" => r.key \in Keys /\ r.val \in Vals
         /\ r.cmd = "publish" => r.chn \in Chans
         /\ r.cmd \in {"subscribe", "unsubscribe"} => r.chns \in Seq(Chans)
  BY DEF AnyRequest

\* The request a task is about to read is one the client sent.
LEMMA RequestType ==
  ASSUME TypeOK, NEW c \in Conns, Ready(c)
  PROVE  Request(c) \in AnyRequest
  <1>1. nread[c] \in Nat /\ reqs[c] \in Seq(AnyRequest)
    BY DEF TypeOK
  <1>2. nread[c] + 1 \in 1..Len(reqs[c])
    BY <1>1 DEF Ready
  <1> QED
    BY <1>1, <1>2 DEF Request

\* A set of channels has a size.
LEMMA ChannelCount ==
  ASSUME NEW S \in SUBSET Chans
  PROVE  Cardinality(S) \in Nat
  BY FiniteAssumption, FS_Subset, FS_CardinalityType

LEMMA ReceiverCount ==
  ASSUME NEW ch
  PROVE  Cardinality(Receivers(ch)) \in Nat
  BY FiniteAssumption, FS_Subset, FS_CardinalityType, Receivers(ch) \in SUBSET Conns
     DEF Receivers

-----------------------------------------------------------------------------
(* Type correctness *)

LEMMA InitTypeOK == Init => TypeOK
  <1> SUFFICES ASSUME Init PROVE TypeOK
    OBVIOUS
  <1> USE BoundsAssumption DEF Init, DbInit
  <1>1. DbTypeOK
    BY DEF DbTypeOK
  <1>2. /\ server \in {"acquire", "accept", "stopping", "draining", "end"}
        /\ permits \in Nat
        /\ phase \in [Conns -> Phases]
        /\ signal \in [Conns -> {"none", "armed", "fired", "seen"}]
    BY DEF Phases
  <1>3. /\ reqs \in [Conns -> Seq(AnyRequest)]
        /\ nread \in [Conns -> Nat]
        /\ closed \in SUBSET Conns
        /\ todo \in [Conns -> Seq(Chans)]
        /\ writing \in [Conns -> Frame \cup {NoFrame}]
        /\ sent \in [Conns -> Seq(Frame)]
    OBVIOUS
  <1> QED
    BY <1>1, <1>2, <1>3 DEF TypeOK

\* The steps of the commands served outside a stream.
LEMMA ServeTypeOK ==
  ASSUME TypeOK, NEW c \in Conns, Serve(c)
  PROVE  TypeOK'
  <1> USE DEF TypeOK, DbTypeOK
  <1>0. Ready(c) => Request(c) \in AnyRequest
    BY RequestType
  <1>1. CASE ServeGet(c)
    <2>1. Request(c).key \in Keys
      BY <1>0, <1>1, RequestFields DEF ServeGet
    <2>2. [type |-> "value", val |-> keyval[Request(c).key]] \in Frame
      BY <2>1 DEF Frame
    <2> QED
      BY <1>1, <2>2 DEF ServeGet, Consume, Write, dbVars, clientVars
  <1>2. CASE ServeSet(c)
    <2>1. Request(c).key \in Keys /\ Request(c).val \in Vals
      BY <1>0, <1>2, RequestFields DEF ServeSet
    <2>2. [type |-> "ok"] \in Frame
      BY DEF Frame
    <2> QED
      BY <1>2, <2>1, <2>2 DEF ServeSet, DbSet, Consume, Write, clientVars
  <1>3. CASE ServePublish(c)
    <2> DEFINE ch == Request(c).chn
    <2>1. ch \in Chans
      BY <1>0, <1>3, RequestFields DEF ServePublish
    <2>2. PublishReply(ch) \in Frame
      BY ReceiverCount DEF PublishReply, Frame
    <2>3. tail' \in [Chans -> Nat]
      BY <1>3, <2>1 DEF ServePublish, DbPublish
    <2> QED
      BY <1>3, <2>2, <2>3 DEF ServePublish, DbPublish, Consume, Write, clientVars
  <1>4. CASE ServeUnknown(c)
    <2>1. [type |-> "error"] \in Frame
      BY DEF Frame
    <2> QED
      BY <1>4, <2>1 DEF ServeUnknown, Consume, Write, dbVars, clientVars
  <1>5. CASE ServeSubscribe(c)
    <2>1. Request(c).chns \in Seq(Chans)
      BY <1>0, <1>5, RequestFields DEF ServeSubscribe
    <2> QED
      BY <1>5, <2>1 DEF ServeSubscribe, Consume, dbVars, clientVars, Phases
  <1>6. CASE Reject(c)
    BY <1>6 DEF Reject, Consume, dbVars, taskVars, clientVars, Phases
  <1> QED
    BY <1>1, <1>2, <1>3, <1>4, <1>5, <1>6 DEF Serve

\* The steps of the streaming loop.
LEMMA StreamTypeOK ==
  ASSUME TypeOK, NEW c \in Conns, Stream(c)
  PROVE  TypeOK'
  <1> USE DEF TypeOK, DbTypeOK
  <1>0. Ready(c) => Request(c) \in AnyRequest
    BY RequestType
  <1>1. CASE AckSubscription(c)
    <2> DEFINE ch == Head(todo[c])
               frm == [type |-> "subscribe", chn |-> ch,
                       n |-> Cardinality(subs[c] \cup {ch})]
    <2>1. ch \in Chans /\ Tail(todo[c]) \in Seq(Chans)
      BY <1>1 DEF AckSubscription
    <2>2. frm \in Frame
      BY <2>1, ChannelCount DEF Frame
    <2>3. DbTypeOK'
      <3>1. CASE ch \in subs[c]
        BY <1>1, <3>1 DEF AckSubscription, dbVars
      <3>2. CASE ch \notin subs[c]
        <4>1. DbSubscribe(c, ch)
          BY <1>1, <3>2 DEF AckSubscription
        <4> HIDE DEF ch
        <4> QED
          BY <4>1, <2>1 DEF DbSubscribe
      <3> QED
        BY <3>1, <3>2
    <2>4. todo' \in [Conns -> Seq(Chans)]
      BY <1>1, <2>1 DEF AckSubscription
    <2>5. writing' = [writing EXCEPT ![c] = frm]
      BY <1>1 DEF AckSubscription, Write
    <2> QED
      BY <1>1, <2>2, <2>3, <2>4, <2>5 DEF AckSubscription, clientVars
  <1>2. CASE StreamSubscribe(c)
    <2>1. Request(c).chns \in Seq(Chans)
      BY <1>0, <1>2, RequestFields DEF StreamSubscribe
    <2> QED
      BY <1>2, <2>1 DEF StreamSubscribe, Consume, dbVars, clientVars
  <1>3. CASE StreamUnsubscribe(c)
    <2> DEFINE chns == IF Request(c).chns = <<>> THEN subs[c] ELSE Elems(Request(c).chns)
               frm == [type |-> "unsubscribe", chns |-> chns,
                       n |-> Cardinality(subs[c] \ chns)]
    <2>1. Request(c).chns \in Seq(Chans)
      BY <1>0, <1>3, RequestFields DEF StreamUnsubscribe
    <2>2. chns \in SUBSET Chans
      BY <2>1 DEF Elems
    <2>3. frm \in Frame
      BY <2>2, ChannelCount DEF Frame
    <2>4. writing' = [writing EXCEPT ![c] = frm]
      BY <1>3 DEF StreamUnsubscribe, Write
    <2>5. DbTypeOK'
      BY <1>3 DEF StreamUnsubscribe, DropReceivers
    <2>6. nread' = [nread EXCEPT ![c] = @ + 1]
      BY <1>3 DEF StreamUnsubscribe, Consume
    <2>7. UNCHANGED <<server, permits, phase, signal, todo, sent, reqs, closed>>
      BY <1>3 DEF StreamUnsubscribe, clientVars
    <2> HIDE DEF frm
    <2> QED
      BY <2>3, <2>4, <2>5, <2>6, <2>7
  <1>4. CASE StreamRefuse(c)
    <2>1. [type |-> "error"] \in Frame
      BY DEF Frame
    <2> QED
      BY <1>4, <2>1 DEF StreamRefuse, Consume, Write, dbVars, clientVars
  <1>5. CASE StreamReject(c)
    BY <1>5 DEF StreamReject, LeaveStream, DropReceivers, Consume, taskVars,
                clientVars, Phases
  <1>6. ASSUME NEW ch \in Chans, Deliver(c, ch) PROVE TypeOK'
    <2>1. NextMessage(c, ch) \in Nat
      BY CapacityAssumption DEF NextMessage, Backlog
    <2>2. [type |-> "message", chn |-> ch, pos |-> NextMessage(c, ch)] \in Frame
      BY <2>1 DEF Frame
    <2> QED
      BY <1>6, <2>1, <2>2 DEF Deliver, Poll, Write, clientVars
  <1> QED
    BY <1>1, <1>2, <1>3, <1>4, <1>5, <1>6 DEF Stream

\* The other steps of a task.
LEMMA TaskTypeOK ==
  ASSUME TypeOK, NEW c \in Conns, Task(c)
  PROVE  TypeOK'
  <1> USE DEF TypeOK, DbTypeOK
  <1>1. CASE FlushFrame(c)
    <2>1. writing[c] \in Frame
      BY <1>1 DEF FlushFrame
    <2> QED
      BY <1>1, <2>1 DEF FlushFrame, Write, dbVars, clientVars
  <1>2. CASE WriteFails(c)
    <2>1. CASE phase[c] = "stream"
      <3>1. LeaveStream(c)
        BY <1>2, <2>1 DEF WriteFails
      <3> QED
        BY <1>2, <3>1 DEF WriteFails, LeaveStream, DropReceivers, Write, clientVars, Phases
    <2>2. CASE phase[c] # "stream"
      BY <1>2, <2>2 DEF WriteFails, Write, dbVars, clientVars
    <2> QED
      BY <2>1, <2>2
  <1>3. CASE SeeEndOfStream(c)
    <2>1. CASE Selecting(c, "stream") /\ LeaveStream(c)
      BY <1>3, <2>1 DEF SeeEndOfStream, LeaveStream, DropReceivers, taskVars,
                        clientVars, Phases
    <2>2. CASE /\ Selecting(c, "idle")
               /\ phase' = [phase EXCEPT ![c] = "exiting"]
               /\ UNCHANGED dbVars
      BY <1>3, <2>2 DEF SeeEndOfStream, dbVars, taskVars, clientVars, Phases
    <2> QED
      BY <1>3, <2>1, <2>2 DEF SeeEndOfStream
  <1>4. CASE SeeShutdown(c)
    BY <1>4 DEF SeeShutdown, DropReceivers, taskVars, clientVars, Phases
  <1>5. CASE DropStore(c)
    BY <1>5 DEF DropStore, DropHandle, taskVars, clientVars, Phases
  <1>6. CASE Finish(c)
    BY <1>6 DEF Finish, ReleaseHandle, taskVars, clientVars, Phases
  <1> QED
    BY <1>1, <1>2, <1>3, <1>4, <1>5, <1>6, ServeTypeOK, StreamTypeOK DEF Task

LEMMA NextTypeOK == TypeOK /\ [Next]_vars => TypeOK'
  <1> SUFFICES ASSUME TypeOK, [Next]_vars PROVE TypeOK'
    OBVIOUS
  <1> USE DEF TypeOK, DbTypeOK
  <1>1. CASE AcquirePermit
    BY <1>1 DEF AcquirePermit, dbVars, taskVars, clientVars
  <1>2. CASE CtrlC
    BY <1>2 DEF CtrlC, DropHandle, taskVars, clientVars
  <1>3. CASE EndMain
    BY <1>3 DEF EndMain, dbVars, taskVars, clientVars
  <1>4. ASSUME NEW c \in Conns, Accept(c) PROVE TypeOK'
    BY <1>4 DEF Accept, CloneHandle, taskVars, clientVars, Phases
  <1>5. ASSUME NEW c \in Conns, Client(c) PROVE TypeOK'
    <2>1. CASE Connect(c)
      BY <2>1 DEF Connect, dbVars, taskVars, clientVars, Phases
    <2>2. CASE Send(c)
      <3>1. PICK r \in Requests[c] : reqs' = [reqs EXCEPT ![c] = Append(@, r)]
        BY <2>2 DEF Send
      <3>2. r \in AnyRequest
        BY RequestsAssumption
      <3> QED
        BY <2>2, <3>1, <3>2 DEF Send, dbVars, taskVars
    <2>3. CASE Close(c)
      BY <2>3 DEF Close, dbVars, taskVars
    <2> QED
      BY <1>5, <2>1, <2>2, <2>3 DEF Client
  <1>6. CASE UNCHANGED vars
    BY <1>6 DEF vars, dbVars, taskVars, clientVars
  <1>7. CASE NotifyShutdown
    BY <1>7 DEF NotifyShutdown, ReleaseHandle, taskVars, clientVars, Phases
  <1> QED
    BY <1>1, <1>2, <1>3, <1>4, <1>5, <1>6, <1>7, TaskTypeOK DEF Next

\* Every reachable state is well typed (RedisServer's type invariant).
THEOREM TypeCorrect == Spec => []TypeOK
  BY InitTypeOK, NextTypeOK, PTL DEF Spec

-----------------------------------------------------------------------------
(* The semaphore *)

LEMMA TasksFinite ==
  /\ IsFiniteSet(Tasks)
  /\ Cardinality(Tasks) \in Nat
  BY FiniteAssumption, FS_Subset, FS_CardinalityType, Tasks \in SUBSET Conns DEF Tasks

\* Only the end of a task changes the set of running tasks and the permits.
LEMMA TaskStepKeepsTasks ==
  ASSUME TypeOK, NEW c \in Conns, Task(c), ~Finish(c)
  PROVE  /\ Tasks' = Tasks
         /\ UNCHANGED <<server, permits>>
  <1> USE DEF Tasks, Running, TypeOK
  <1>1. CASE Serve(c)
    BY <1>1 DEF Serve, ServeGet, ServeSet, ServePublish, ServeUnknown,
                ServeSubscribe, Reject, Selecting
  <1>2. CASE Stream(c)
    <2>1. CASE StreamReject(c)
      BY <2>1 DEF StreamReject, LeaveStream, Selecting
    <2>2. CASE \E ch \in Chans : Deliver(c, ch)
      BY <2>2 DEF Deliver
    <2> QED
      BY <1>2, <2>1, <2>2 DEF Stream, AckSubscription, StreamSubscribe,
                              StreamUnsubscribe, StreamRefuse
  <1>3. CASE FlushFrame(c)
    BY <1>3 DEF FlushFrame
  <1>4. CASE WriteFails(c)
    <2>1. CASE phase[c] = "stream"
      BY <1>4, <2>1 DEF WriteFails, LeaveStream
    <2>2. CASE phase[c] # "stream"
      BY <1>4, <2>2 DEF WriteFails
    <2> QED
      BY <2>1, <2>2
  <1>5. CASE SeeEndOfStream(c)
    BY <1>5 DEF SeeEndOfStream, LeaveStream, Selecting
  <1>6. CASE SeeShutdown(c) \/ DropStore(c)
    BY <1>6 DEF SeeShutdown, DropStore, Selecting
  <1> QED
    BY <1>1, <1>2, <1>3, <1>4, <1>5, <1>6 DEF Task

LEMMA PermitsStep ==
  TypeOK /\ PermitsConserved /\ [Next]_vars => PermitsConserved'
  <1> SUFFICES ASSUME TypeOK, PermitsConserved, [Next]_vars PROVE PermitsConserved'
    OBVIOUS
  <1> USE BoundsAssumption, TasksFinite DEF PermitsConserved
  <1>0. permits \in Nat /\ phase \in [Conns -> Phases]
    BY DEF TypeOK
  <1>1. CASE AcquirePermit
    <2>1. Tasks' = Tasks
      BY <1>1 DEF AcquirePermit, Tasks
    <2> QED
      BY <1>0, <1>1, <2>1 DEF AcquirePermit
  <1>2. CASE CtrlC \/ NotifyShutdown
    <2>1. Tasks' = Tasks
      BY <1>0, <1>2 DEF CtrlC, NotifyShutdown, Tasks, Running
    <2> QED
      BY <1>0, <1>2, <2>1 DEF CtrlC, NotifyShutdown, Accepting
  <1>3. CASE EndMain
    BY <1>0, <1>3, Tasks' = Tasks DEF EndMain, Tasks
  <1>4. ASSUME NEW c \in Conns, Accept(c) PROVE PermitsConserved'
    <2>1. c \notin Tasks /\ Tasks' = Tasks \cup {c}
      BY <1>0, <1>4 DEF Accept, Tasks, Running
    <2>2. Cardinality(Tasks') = Cardinality(Tasks) + 1
      BY <2>1, FS_AddElement
    <2> QED
      BY <1>0, <1>4, <2>2 DEF Accept
  <1>5. ASSUME NEW c \in Conns, Task(c) PROVE PermitsConserved'
    <2>1. CASE Finish(c)
      <3>1. c \in Tasks /\ Tasks' = Tasks \ {c}
        BY <1>0, <2>1 DEF Finish, Tasks, Running
      <3>2. Cardinality(Tasks') = Cardinality(Tasks) - 1
        BY <3>1, FS_RemoveElement
      <3> QED
        BY <1>0, <2>1, <3>2 DEF Finish
    <2>2. CASE ~Finish(c)
      BY <1>5, <2>2, TaskStepKeepsTasks
    <2> QED
      BY <2>1, <2>2
  <1>6. ASSUME NEW c \in Conns, Client(c) PROVE PermitsConserved'
    <2>1. Tasks' = Tasks
      BY <1>0, <1>6 DEF Client, Connect, Send, Close, Tasks, Running
    <2> QED
      BY <1>6, <2>1 DEF Client, Connect, Send, Close
  <1>7. CASE UNCHANGED vars
    BY <1>7, Tasks' = Tasks DEF vars, Tasks
  <1> QED
    BY <1>1, <1>2, <1>3, <1>4, <1>5, <1>6, <1>7 DEF Next

LEMMA InitPermits == Init => PermitsConserved
  <1> SUFFICES ASSUME Init PROVE PermitsConserved
    OBVIOUS
  <1>1. Tasks = {}
    BY DEF Init, Tasks, Running
  <1> QED
    BY <1>1, FS_EmptySet, BoundsAssumption DEF Init, PermitsConserved

\* No permit is lost or minted (PermitsConserved of server.rs:47-59 and 22-29).
THEOREM PermitsAreConserved == Spec => []PermitsConserved
  BY InitPermits, PermitsStep, TypeCorrect, PTL DEF Spec

-----------------------------------------------------------------------------
(* The shutdown *)

\* A task never comes back to its loops.
LEMMA TaskLeavesLoops ==
  ASSUME TypeOK, NEW c \in Conns, Task(c), NEW d \in Conns, phase'[d] \in {"idle", "stream"}
  PROVE  phase[d] \in {"idle", "stream"}
  <1>0. phase \in [Conns -> Phases]
    BY DEF TypeOK
  <1>1. CASE Serve(c)
    BY <1>0, <1>1 DEF Serve, ServeGet, ServeSet, ServePublish, ServeUnknown,
                      ServeSubscribe, Reject, Selecting
  <1>2. CASE Stream(c)
    BY <1>0, <1>2 DEF Stream, AckSubscription, StreamSubscribe, StreamUnsubscribe,
                      StreamRefuse, StreamReject, Deliver, LeaveStream, Selecting
  <1>3. CASE FlushFrame(c)
    BY <1>3 DEF FlushFrame
  <1>4. CASE WriteFails(c)
    <2>1. CASE phase[c] = "stream"
      BY <1>0, <1>4, <2>1 DEF WriteFails, LeaveStream
    <2>2. CASE phase[c] # "stream"
      BY <1>4, <2>2 DEF WriteFails
    <2> QED
      BY <2>1, <2>2
  <1>5. CASE SeeEndOfStream(c)
    BY <1>0, <1>5 DEF SeeEndOfStream, LeaveStream, Selecting
  <1>6. CASE SeeShutdown(c) \/ DropStore(c) \/ Finish(c)
    BY <1>0, <1>6 DEF SeeShutdown, DropStore, Finish
  <1> QED
    BY <1>1, <1>2, <1>3, <1>4, <1>5, <1>6 DEF Task

\* A task enters its loops armed, and only the notification fires it.
LEMMA SignalStep == TypeOK /\ SignalInv /\ [Next]_vars => SignalInv'
  <1> SUFFICES ASSUME TypeOK, SignalInv, [Next]_vars PROVE SignalInv'
    OBVIOUS
  <1> USE DEF SignalInv, Notified
  <1>0. /\ phase \in [Conns -> Phases]
        /\ signal \in [Conns -> {"none", "armed", "fired", "seen"}]
    BY DEF TypeOK
  <1>1. CASE AcquirePermit \/ EndMain
    BY <1>1 DEF AcquirePermit, EndMain
  <1>2. CASE CtrlC \/ NotifyShutdown
    BY <1>0, <1>2 DEF CtrlC, NotifyShutdown, Accepting
  <1>3. ASSUME NEW c \in Conns, Accept(c) PROVE SignalInv'
    BY <1>0, <1>3 DEF Accept
  <1>4. ASSUME NEW c \in Conns, Task(c) PROVE SignalInv'
    <2>1. CASE SeeShutdown(c)
      BY <1>0, <2>1 DEF SeeShutdown
    <2>2. CASE ~SeeShutdown(c)
      <3>1. UNCHANGED <<server, signal>>
        BY <1>4, <2>2 DEF Task, Serve, ServeGet, ServeSet, ServePublish,
             ServeUnknown, ServeSubscribe, Reject, Stream, AckSubscription,
             StreamSubscribe, StreamUnsubscribe, StreamRefuse, StreamReject,
             Deliver, FlushFrame, WriteFails, SeeEndOfStream, DropStore, Finish
      <3> QED
        BY <1>4, <3>1, TaskLeavesLoops
    <2> QED
      BY <2>1, <2>2
  <1>5. ASSUME NEW c \in Conns, Client(c) PROVE SignalInv'
    BY <1>0, <1>5 DEF Client, Connect, Send, Close
  <1>6. CASE UNCHANGED vars
    BY <1>6 DEF vars
  <1> QED
    BY <1>1, <1>2, <1>3, <1>4, <1>5, <1>6 DEF Next

LEMMA SignalInvariant == Spec => []SignalInv
  <1>1. Init => SignalInv
    BY DEF Init, SignalInv, Notified
  <1> QED
    BY <1>1, SignalStep, TypeCorrect, PTL DEF Spec

\* Once main() has notified, every task still in a loop finds the notification waiting.
THEOREM NobodyMissesShutdown == Spec => []ShutdownReachesAll
  <1>1. SignalInv => ShutdownReachesAll
    BY DEF SignalInv, ShutdownReachesAll
  <1> QED
    BY <1>1, SignalInvariant, PTL

\* main() returns only when every task has ended: its permits are all back.
THEOREM EndAfterTasks == Spec => []EndMeansDrained
  <1>1. Init => EndMeansDrained
    BY DEF Init, EndMeansDrained
  <1>2. TypeOK /\ PermitsConserved /\ EndMeansDrained /\ [Next]_vars => EndMeansDrained'
    <2> SUFFICES ASSUME TypeOK, PermitsConserved, EndMeansDrained, [Next]_vars,
                        server' = "end"
                 PROVE  Tasks' = {}
      BY DEF EndMeansDrained
    <2> USE DEF EndMeansDrained
    <2>0. phase \in [Conns -> Phases]
      BY DEF TypeOK
    <2>1. CASE EndMain
      <3>1. Cardinality(Tasks) = 0
        BY <2>1, TasksFinite, BoundsAssumption DEF EndMain, PermitsConserved
      <3>2. Tasks = {}
        BY <3>1, TasksFinite, FS_EmptySet
      <3> QED
        BY <2>1, <3>2 DEF EndMain, Tasks
    <2>2. CASE AcquirePermit \/ CtrlC \/ NotifyShutdown
      BY <2>2 DEF AcquirePermit, CtrlC, NotifyShutdown
    <2>3. ASSUME NEW c \in Conns, Accept(c) PROVE Tasks' = {}
      BY <2>3 DEF Accept
    <2>4. ASSUME NEW c \in Conns, Task(c) PROVE Tasks' = {}
      <3>1. CASE Finish(c)
        BY <2>0, <3>1 DEF Finish, Tasks, Running
      <3>2. CASE ~Finish(c)
        BY <2>4, <3>2, TaskStepKeepsTasks
      <3> QED
        BY <3>1, <3>2
    <2>5. ASSUME NEW c \in Conns, Client(c) PROVE Tasks' = {}
      BY <2>0, <2>5 DEF Client, Connect, Send, Close, Tasks, Running
    <2>6. CASE UNCHANGED vars
      BY <2>6 DEF vars, Tasks
    <2> QED
      BY <2>1, <2>2, <2>3, <2>4, <2>5, <2>6 DEF Next
  <1> QED
    BY <1>1, <1>2, TypeCorrect, PermitsAreConserved, PTL DEF Spec

-----------------------------------------------------------------------------
(* Delivery, for any interleaving of publishers and subscribers and any way *)
(* a subscriber leaves and comes back                                       *)

DeliveryInv == TypeOK /\ CursorInv /\ DeliveredInOrder

\* Frames of message type carry a channel and a position.
LEMMA MessageFields ==
  ASSUME NEW frm \in Frame \cup {NoFrame}, frm.type = "message"
  PROVE  frm.chn \in Chans /\ frm.pos \in Nat
  BY DEF Frame, NoFrame

LEMMA SentType ==
  ASSUME TypeOK, NEW c \in Conns, NEW i \in 1..Len(sent[c])
  PROVE  sent[c][i] \in Frame
  BY DEF TypeOK

\* What the two properties tolerate: receivers that move forward within their
\* channel, channels that grow and writes that are not messages.
LEMMA QuietStep ==
  ASSUME DeliveryInv, TypeOK', sent' = sent,
         \A c \in Conns, ch \in Chans :
           cursor[c][ch] <= cursor'[c][ch] /\ cursor'[c][ch] <= tail'[ch],
         \A c \in Conns : writing'[c] = writing[c] \/ writing'[c].type # "message"
  PROVE  DeliveryInv'
  <1>1. DeliveredInOrder'
    BY DEF DeliveryInv, DeliveredInOrder, IsMessage
  <1>2. ASSUME NEW c \in Conns, NEW ch \in Chans
        PROVE  /\ IsMessage(writing'[c], ch) => writing'[c].pos <= cursor'[c][ch]
               /\ \A i \in 1..Len(sent[c]) : IsMessage(sent[c][i], ch) =>
                    /\ sent[c][i].pos <= cursor'[c][ch]
                    /\ IsMessage(writing'[c], ch) => sent[c][i].pos < writing'[c].pos
    <2>1. cursor[c][ch] \in Nat /\ cursor'[c][ch] \in Nat
      BY DEF DeliveryInv, TypeOK, DbTypeOK
    <2>2. cursor[c][ch] <= cursor'[c][ch]
      OBVIOUS
    <2>3. IsMessage(writing'[c], ch) =>
            writing'[c] = writing[c] /\ writing[c].pos \in Nat /\ writing[c].pos <= cursor[c][ch]
      BY MessageFields DEF DeliveryInv, TypeOK, CursorInv, IsMessage
    <2>4. ASSUME NEW i \in 1..Len(sent[c]), IsMessage(sent[c][i], ch)
          PROVE  /\ sent[c][i].pos \in Nat /\ sent[c][i].pos <= cursor[c][ch]
                 /\ IsMessage(writing[c], ch) => sent[c][i].pos < writing[c].pos
      BY <2>4, SentType, MessageFields DEF DeliveryInv, CursorInv, IsMessage
    <2> QED
      BY <2>1, <2>2, <2>3, <2>4
  <1>3. CursorInv'
    BY <1>2 DEF CursorInv
  <1> QED
    BY <1>1, <1>3 DEF DeliveryInv

\* A receiver's next message is one it has not given and the channel has.
LEMMA NextIsNew ==
  ASSUME DeliveryInv, NEW c \in Conns, NEW ch \in Chans, Backlog(c, ch) > 0
  PROVE  /\ NextMessage(c, ch) \in Nat
         /\ cursor[c][ch] < NextMessage(c, ch)
         /\ NextMessage(c, ch) <= tail[ch]
  <1>1. cursor[c][ch] \in Nat /\ tail[ch] \in Nat
    BY DEF DeliveryInv, TypeOK, DbTypeOK
  <1> QED
    BY <1>1, CapacityAssumption DEF Backlog, NextMessage

LEMMA DeliverStep ==
  ASSUME DeliveryInv, TypeOK', NEW c \in Conns, NEW ch \in Chans, Deliver(c, ch)
  PROVE  DeliveryInv'
  <1> DEFINE p == NextMessage(c, ch)
             frm == [type |-> "message", chn |-> ch, pos |-> p]
  <1>1. Backlog(c, ch) > 0
    BY DEF Deliver, Poll
  <1>2. p \in Nat /\ cursor[c][ch] < p /\ p <= tail[ch] /\ cursor[c][ch] \in Nat
    BY <1>1, NextIsNew DEF DeliveryInv, TypeOK, DbTypeOK
  <1>3. /\ cursor' = [cursor EXCEPT ![c][ch] = p]
        /\ writing' = [writing EXCEPT ![c] = frm]
        /\ UNCHANGED <<tail, sent>>
    BY DEF Deliver, Poll, Write
  <1>4. frm.type = "message" /\ frm.chn = ch /\ frm.pos = p
    OBVIOUS
  <1> HIDE DEF p, frm
  <1>5. DeliveredInOrder'
    BY <1>3 DEF DeliveryInv, DeliveredInOrder, IsMessage
  <1>6. ASSUME NEW d \in Conns, NEW dh \in Chans
        PROVE  /\ cursor'[d][dh] <= tail'[dh]
               /\ IsMessage(writing'[d], dh) => writing'[d].pos <= cursor'[d][dh]
               /\ \A i \in 1..Len(sent[d]) : IsMessage(sent[d][i], dh) =>
                    /\ sent[d][i].pos <= cursor'[d][dh]
                    /\ IsMessage(writing'[d], dh) => sent[d][i].pos < writing'[d].pos
    <2>1. /\ cursor[d][dh] <= tail[dh]
          /\ IsMessage(writing[d], dh) => writing[d].pos <= cursor[d][dh]
          /\ \A i \in 1..Len(sent[d]) : IsMessage(sent[d][i], dh) =>
               /\ sent[d][i].pos \in Nat
               /\ sent[d][i].pos <= cursor[d][dh]
               /\ IsMessage(writing[d], dh) => sent[d][i].pos < writing[d].pos
      BY SentType, MessageFields DEF DeliveryInv, CursorInv, IsMessage
    <2>2. /\ writing'[d] = IF d = c THEN frm ELSE writing[d]
          /\ cursor'[d][dh] = IF d = c /\ dh = ch THEN p ELSE cursor[d][dh]
      BY <1>3 DEF DeliveryInv, TypeOK, DbTypeOK
    <2>3. CASE d = c /\ dh = ch
      BY <1>2, <1>3, <1>4, <2>1, <2>2, <2>3 DEF IsMessage
    <2>4. CASE d = c /\ dh # ch
      BY <1>3, <1>4, <2>1, <2>2, <2>4 DEF IsMessage
    <2>5. CASE d # c
      BY <1>3, <2>1, <2>2, <2>5
    <2> QED
      BY <2>3, <2>4, <2>5
  <1>7. CursorInv'
    BY <1>3, <1>6 DEF CursorInv
  <1> QED
    BY <1>5, <1>7 DEF DeliveryInv

LEMMA FlushStep ==
  ASSUME DeliveryInv, TypeOK', NEW c \in Conns, FlushFrame(c)
  PROVE  DeliveryInv'
  <1>1. /\ sent' = [sent EXCEPT ![c] = Append(@, writing[c])]
        /\ writing' = [writing EXCEPT ![c] = NoFrame]
        /\ UNCHANGED <<cursor, tail>>
    BY DEF FlushFrame, Write, dbVars
  <1>2. ASSUME NEW d \in Conns
        PROVE  /\ Len(sent[d]) \in Nat
               /\ d # c => sent'[d] = sent[d] /\ writing'[d] = writing[d]
               /\ writing'[c] = NoFrame
               /\ Len(sent'[c]) = Len(sent[c]) + 1
               /\ \A i \in 1..Len(sent[c]) : sent'[c][i] = sent[c][i]
               /\ sent'[c][Len(sent[c]) + 1] = writing[c]
    BY <1>1 DEF DeliveryInv, TypeOK
  <1>3. \A i \in 1..Len(sent'[c]) : i \in 1..Len(sent[c]) \/ i = Len(sent[c]) + 1
    BY <1>2
  <1>4. ASSUME NEW d \in Conns, NEW ch \in Chans, NEW i \in 1..Len(sent'[d]),
               NEW j \in 1..Len(sent'[d]), i < j,
               IsMessage(sent'[d][i], ch), IsMessage(sent'[d][j], ch)
        PROVE  sent'[d][i].pos < sent'[d][j].pos
    <2>1. CASE d # c
      BY <1>2, <1>4, <2>1 DEF DeliveryInv, DeliveredInOrder
    <2>2. CASE d = c
      <3>1. i \in 1..Len(sent[c])
        BY <1>2, <1>4, <2>2
      <3>2. CASE j \in 1..Len(sent[c])
        BY <1>2, <1>4, <2>2, <3>1, <3>2 DEF DeliveryInv, DeliveredInOrder
      <3>3. CASE j = Len(sent[c]) + 1
        BY <1>2, <1>4, <2>2, <3>1, <3>3 DEF DeliveryInv, CursorInv
      <3> QED
        BY <1>3, <2>2, <3>2, <3>3
    <2> QED
      BY <2>1, <2>2
  <1>5. ASSUME NEW d \in Conns, NEW ch \in Chans
        PROVE  /\ cursor'[d][ch] <= tail'[ch]
               /\ IsMessage(writing'[d], ch) => writing'[d].pos <= cursor'[d][ch]
               /\ \A i \in 1..Len(sent'[d]) : IsMessage(sent'[d][i], ch) =>
                    /\ sent'[d][i].pos <= cursor'[d][ch]
                    /\ IsMessage(writing'[d], ch) => sent'[d][i].pos < writing'[d].pos
    <2>1. CASE d # c
      BY <1>1, <1>2, <2>1 DEF DeliveryInv, CursorInv
    <2>2. CASE d = c
      <3>1. ~IsMessage(writing'[d], ch)
        BY <1>2, <2>2 DEF IsMessage, NoFrame
      <3>2. ASSUME NEW i \in 1..Len(sent'[d]), IsMessage(sent'[d][i], ch)
            PROVE  sent'[d][i].pos <= cursor'[d][ch]
        BY <1>1, <1>2, <1>3, <2>2, <3>2 DEF DeliveryInv, CursorInv
      <3> QED
        BY <1>1, <3>1, <3>2 DEF DeliveryInv, CursorInv
    <2> QED
      BY <2>1, <2>2
  <1> QED
    BY <1>4, <1>5 DEF DeliveryInv, CursorInv, DeliveredInOrder

\* The other steps.
LEMMA OtherStep ==
  ASSUME DeliveryInv, TypeOK', [Next]_vars,
         ~ \E c \in Conns : FlushFrame(c) \/ \E ch \in Chans : Deliver(c, ch)
  PROVE  DeliveryInv'
  <1>0. /\ cursor \in [Conns -> [Chans -> Nat]] /\ tail \in [Chans -> Nat]
        /\ writing \in [Conns -> Frame \cup {NoFrame}]
        /\ \A c \in Conns, ch \in Chans : cursor[c][ch] <= tail[ch]
    BY DEF DeliveryInv, CursorInv, TypeOK, DbTypeOK
  <1> DEFINE Forward == /\ sent' = sent
                        /\ \A c \in Conns, ch \in Chans :
                             cursor[c][ch] <= cursor'[c][ch] /\ cursor'[c][ch] <= tail'[ch]
             Still == UNCHANGED <<sent, cursor, tail>>
             Quiet == \A c \in Conns :
                        writing'[c] = writing[c] \/ writing'[c].type # "message"
  <1>1. Still => Forward
    BY <1>0
  <1>2. ASSUME NEW c \in Conns, NEW frm, Write(c, frm), frm.type # "message"
        PROVE  Quiet
    BY <1>0, <1>2 DEF Write
  <1>3. writing' = writing => Quiet
    OBVIOUS
  <1> HIDE DEF Still, Quiet, Forward
  <1>4. ASSUME NEW c \in Conns, Serve(c) PROVE Forward /\ Quiet
    <2>1. CASE ServePublish(c)
      <3>1. Forward
        BY <1>0, <2>1 DEF Forward, ServePublish, DbPublish
      <3>2. PublishReply(Request(c).chn).type # "message"
        BY DEF PublishReply
      <3> QED
        BY <1>2, <2>1, <3>1, <3>2 DEF ServePublish
    <2>2. CASE ServeGet(c)
      BY <1>1, <1>2, <2>2 DEF ServeGet, Still, dbVars
    <2>3. CASE ServeSet(c)
      BY <1>1, <1>2, <2>3 DEF ServeSet, DbSet, Still
    <2>4. CASE ServeUnknown(c)
      BY <1>1, <1>2, <2>4 DEF ServeUnknown, Still, dbVars
    <2>5. CASE ServeSubscribe(c) \/ Reject(c)
      BY <1>1, <1>3, <2>5 DEF ServeSubscribe, Reject, Still, dbVars, taskVars
    <2> QED
      BY <1>4, <2>1, <2>2, <2>3, <2>4, <2>5 DEF Serve
  <1>5. ASSUME NEW c \in Conns, Stream(c) PROVE Forward /\ Quiet
    <2>1. CASE AckSubscription(c)
      <3>1. Quiet
        BY <1>2, <2>1 DEF AckSubscription
      <3>2. CASE UNCHANGED dbVars
        BY <1>1, <2>1, <3>1, <3>2 DEF AckSubscription, Still, dbVars
      <3>3. CASE DbSubscribe(c, Head(todo[c]))
        <4>1. cursor' = [cursor EXCEPT ![c][Head(todo[c])] = tail[Head(todo[c])]]
          BY <3>3 DEF DbSubscribe
        <4>2. tail' = tail /\ sent' = sent
          BY <2>1, <3>3 DEF DbSubscribe, AckSubscription
        <4>3. ASSUME NEW d \in Conns, NEW ch \in Chans
              PROVE  cursor'[d][ch] \in {cursor[d][ch], tail[ch]}
          BY <1>0, <4>1
        <4> QED
          BY <1>0, <3>1, <4>2, <4>3 DEF Forward
      <3> QED
        BY <2>1, <3>2, <3>3 DEF AckSubscription
    <2>2. CASE StreamSubscribe(c)
      BY <1>1, <1>3, <2>2 DEF StreamSubscribe, Still, dbVars
    <2>3. CASE StreamUnsubscribe(c)
      BY <1>1, <1>2, <2>3 DEF StreamUnsubscribe, DropReceivers, Still
    <2>4. CASE StreamRefuse(c)
      BY <1>1, <1>2, <2>4 DEF StreamRefuse, Still, dbVars
    <2>5. CASE StreamReject(c)
      BY <1>1, <1>3, <2>5 DEF StreamReject, LeaveStream, DropReceivers, Still, taskVars
    <2> QED
      BY <1>5, <2>1, <2>2, <2>3, <2>4, <2>5 DEF Stream
  <1>6. ASSUME NEW c \in Conns, Task(c) PROVE Forward /\ Quiet
    <2>1. CASE WriteFails(c)
      BY <1>1, <1>2, <2>1 DEF WriteFails, LeaveStream, DropReceivers, Still, dbVars, NoFrame
    <2>2. CASE SeeEndOfStream(c)
      BY <1>1, <1>3, <2>2 DEF SeeEndOfStream, LeaveStream, DropReceivers, Still, dbVars, taskVars
    <2>3. CASE SeeShutdown(c)
      BY <1>1, <1>3, <2>3 DEF SeeShutdown, DropReceivers, Still, taskVars
    <2>4. CASE DropStore(c) \/ Finish(c)
      BY <1>1, <1>3, <2>4 DEF DropStore, Finish, DropHandle, ReleaseHandle, Still, taskVars
    <2> QED
      BY <1>4, <1>5, <1>6, <2>1, <2>2, <2>3, <2>4 DEF Task
  <1>7. ASSUME AcquirePermit \/ EndMain \/ UNCHANGED vars PROVE Forward /\ Quiet
    BY <1>1, <1>3, <1>7 DEF AcquirePermit, EndMain, vars, Still, dbVars, taskVars
  <1>8. ASSUME CtrlC \/ NotifyShutdown PROVE Forward /\ Quiet
    BY <1>1, <1>3, <1>8 DEF CtrlC, NotifyShutdown, DropHandle, ReleaseHandle, Still, taskVars
  <1>9. ASSUME NEW c \in Conns, Accept(c) \/ Client(c) PROVE Forward /\ Quiet
    BY <1>1, <1>3, <1>9 DEF Accept, CloneHandle, Client, Connect, Send, Close, Still, dbVars,
       taskVars
  <1>10. Forward /\ Quiet
    BY <1>6, <1>7, <1>8, <1>9 DEF Next
  <1> QED
    BY <1>10, QuietStep DEF Forward, Quiet

\* A subscriber gets the messages of a channel in the order of their numbers
\* and none twice (DeliveredInOrder; subscribe.rs and the rings of db.rs).
THEOREM MessagesInOrder == Spec => []DeliveredInOrder
  <1>1. Init => DeliveryInv
    <2> SUFFICES ASSUME Init PROVE DeliveryInv
      OBVIOUS
    <2>1. TypeOK
      BY InitTypeOK
    <2>2. CursorInv /\ DeliveredInOrder
      BY DEF Init, DbInit, CursorInv, DeliveredInOrder, IsMessage, NoFrame
    <2> QED
      BY <2>1, <2>2 DEF DeliveryInv
  <1>2. DeliveryInv /\ [Next]_vars => DeliveryInv'
    <2> SUFFICES ASSUME DeliveryInv, [Next]_vars PROVE DeliveryInv'
      OBVIOUS
    <2>1. TypeOK'
      BY NextTypeOK DEF DeliveryInv
    <2> QED
      BY <2>1, DeliverStep, FlushStep, OtherStep
  <1>3. DeliveryInv => DeliveredInOrder
    BY DEF DeliveryInv
  <1> QED
    BY <1>1, <1>2, <1>3, PTL DEF Spec

-----------------------------------------------------------------------------
(* What a receiver may skip *)

\* Only a poll moves a receiver that exists, and to the oldest message waiting.
LEMMA PollMoves ==
  ASSUME TypeOK, [Next]_vars, NEW c \in Conns, NEW ch \in Chans,
         ch \in subs[c], cursor'[c][ch] # cursor[c][ch]
  PROVE  /\ writing'[c] = [type |-> "message", chn |-> ch, pos |-> cursor'[c][ch]]
         /\ cursor'[c][ch] \in Waiting(c, ch)
         /\ \A m \in Waiting(c, ch) : cursor'[c][ch] <= m
  <1>1. /\ cursor \in [Conns -> [Chans -> Nat]] /\ tail \in [Chans -> Nat]
        /\ writing \in [Conns -> Frame \cup {NoFrame}]
    BY DEF TypeOK, DbTypeOK
  <1>2. cursor' # cursor
    OBVIOUS
  <1>3. ASSUME NEW d \in Conns, NEW dh \in Chans, Deliver(d, dh)
        PROVE  d = c /\ dh = ch
    BY <1>1, <1>3 DEF Deliver, Poll
  <1>4. ASSUME NEW d \in Conns, AckSubscription(d) PROVE FALSE
    <2>1. DbSubscribe(d, Head(todo[d])) /\ Head(todo[d]) \notin subs[d]
      BY <1>2, <1>4 DEF AckSubscription, dbVars
    <2>2. d = c => Head(todo[d]) # ch
      BY <2>1
    <2>3. cursor' = [cursor EXCEPT ![d][Head(todo[d])] = tail[Head(todo[d])]]
      BY <2>1 DEF DbSubscribe
    <2>4. cursor'[c][ch] = cursor[c][ch]
      BY <1>1, <2>2, <2>3, Zenon
    <2> QED
      BY <2>4
  <1>5. ASSUME NEW d \in Conns, Task(d) PROVE Deliver(c, ch)
    <2>1. CASE Serve(d)
      BY <1>2, <2>1 DEF Serve, ServeGet, ServeSet, DbSet, ServePublish, DbPublish, ServeUnknown,
         ServeSubscribe, Reject, dbVars
    <2>2. CASE Stream(d)
      <3>1. CASE \/ StreamSubscribe(d) \/ StreamUnsubscribe(d) \/ StreamRefuse(d) \/ StreamReject(d)
        BY <1>2, <3>1 DEF StreamSubscribe, StreamUnsubscribe, StreamRefuse, StreamReject,
           LeaveStream, DropReceivers, dbVars
      <3> QED
        BY <1>3, <1>4, <2>2, <3>1 DEF Stream
    <2>3. CASE \/ FlushFrame(d) \/ WriteFails(d) \/ SeeEndOfStream(d) \/ SeeShutdown(d)
               \/ DropStore(d) \/ Finish(d)
      BY <1>2, <2>3 DEF FlushFrame, WriteFails, SeeEndOfStream, SeeShutdown, DropStore, Finish,
         LeaveStream, DropReceivers, DropHandle, ReleaseHandle, dbVars
    <2> QED
      BY <1>5, <2>1, <2>2, <2>3 DEF Task
  <1>6. Deliver(c, ch)
    <2>1. ASSUME NEW d \in Conns, Accept(d) \/ Client(d) PROVE FALSE
      BY <1>2, <2>1 DEF Accept, CloneHandle, Client, Connect, Send, Close, dbVars
    <2>2. AcquirePermit \/ EndMain \/ CtrlC \/ NotifyShutdown \/ UNCHANGED vars => FALSE
      BY <1>2 DEF AcquirePermit, EndMain, CtrlC, NotifyShutdown, DropHandle, ReleaseHandle, vars,
         dbVars
    <2> QED
      BY <1>5, <2>1, <2>2 DEF Next
  <1>7. /\ cursor'[c][ch] = NextMessage(c, ch)
        /\ writing'[c] = [type |-> "message", chn |-> ch, pos |-> NextMessage(c, ch)]
        /\ Backlog(c, ch) > 0
    BY <1>1, <1>6 DEF Deliver, Poll, Write
  <1>8. /\ NextMessage(c, ch) \in Waiting(c, ch)
        /\ \A m \in Waiting(c, ch) : NextMessage(c, ch) <= m
    BY <1>1, <1>7, CapacityAssumption DEF NextMessage, Backlog, Waiting
  <1> QED
    BY <1>7, <1>8

\* A receiver is handed the oldest message that it has not had and the ring still
\* keeps, for rings of any size (SkipsOnlyOverwritten).
THEOREM NothingKeptIsSkipped == Spec => SkipsOnlyOverwritten
  <1> DEFINE Moves == \A c \in Conns, ch \in Chans :
               ch \in subs[c] /\ ch \in subs'[c] /\ cursor'[c][ch] # cursor[c][ch]
                 => /\ writing'[c] = [type |-> "message", chn |-> ch, pos |-> cursor'[c][ch]]
                    /\ cursor'[c][ch] \in Waiting(c, ch)
                    /\ \A m \in Waiting(c, ch) : cursor'[c][ch] <= m
  <1>1. TypeOK /\ [Next]_vars => Moves
    BY PollMoves
  <1> QED
    BY <1>1, TypeCorrect, PTL DEF Spec, SkipsOnlyOverwritten

-----------------------------------------------------------------------------
(* Replies *)

\* Requests are read once and only when they are there; a frame is in hand
\* only in one of the loops; only a SUBSCRIBE leads into the second.
ReadInv(c) ==
  /\ nread[c] <= Len(reqs[c])
  /\ phase[c] \notin {"idle", "stream"} => writing[c] = NoFrame
  /\ phase[c] = "stream" => ~BeforeStream(c, nread[c])

\* Until the connection subscribes every request read has its frame, the last
\* one's perhaps still in hand.
CountInv(c) ==
  phase[c] \in {"new", "queued", "idle"} /\ BeforeStream(c, nread[c]) =>
    nread[c] = Len(sent[c]) + (IF writing[c] = NoFrame THEN 0 ELSE 1)

InHandInv(c) ==
  writing[c] # NoFrame /\ BeforeStream(c, nread[c]) =>
    Answers(reqs[c][nread[c]], writing[c])

\* The first SUBSCRIBE comes after no more frames than requests.
SubscribeInv(c) ==
  ~BeforeStream(c, nread[c]) =>
    \E p \in 1..nread[c] : reqs[c][p].cmd = "subscribe" /\ p <= Len(sent[c]) + 1

SentInv(c) ==
  \A i \in 1..Len(sent[c]) :
    BeforeStream(c, IF i <= Len(reqs[c]) THEN i ELSE Len(reqs[c]))
      => i <= nread[c] /\ Answers(reqs[c][i], sent[c][i])

Answered(c) ==
  /\ ReadInv(c)
  /\ c \notin closed => CountInv(c) /\ InHandInv(c) /\ SubscribeInv(c) /\ SentInv(c)

AnswerInv == TypeOK /\ \A c \in Conns : Answered(c)

LEMMA LocalType ==
  ASSUME TypeOK, NEW c \in Conns
  PROVE  /\ nread[c] \in Nat /\ Len(reqs[c]) \in Nat /\ Len(sent[c]) \in Nat
         /\ reqs[c] \in Seq(AnyRequest) /\ sent[c] \in Seq(Frame)
  BY DEF TypeOK

\* Nothing is read or written for c; it may move on to a phase that promises less.
LEMMA CalmStep ==
  ASSUME AnswerInv, NEW c \in Conns,
         reqs'[c] = reqs[c], nread'[c] = nread[c], sent'[c] = sent[c],
         writing'[c] = writing[c], c \in closed => c \in closed',
         phase'[c] = "stream" => phase[c] = "stream",
         phase'[c] \in {"new", "queued", "idle"} =>
           phase[c] \in {"new", "queued", "idle"} \/ c \in closed,
         phase'[c] \notin {"idle", "stream"} => writing[c] = NoFrame
  PROVE  Answered(c)'
  <1>1. Answered(c)
    BY DEF AnswerInv
  <1>2. \A m : BeforeStream(c, m)' <=> BeforeStream(c, m)
    BY DEF BeforeStream
  <1>3. ReadInv(c)'
    BY <1>1, <1>2 DEF Answered, ReadInv
  <1>4. c \notin closed' => CountInv(c)' /\ InHandInv(c)' /\ SubscribeInv(c)'
    BY <1>1, <1>2 DEF Answered, CountInv, InHandInv, SubscribeInv
  <1>5. c \notin closed' => SentInv(c)'
    BY <1>1, <1>2 DEF Answered, SentInv
  <1> QED
    BY <1>3, <1>4, <1>5 DEF Answered

\* A request is read.  What was read before it stays before a SUBSCRIBE, or not.
LEMMA OneMore ==
  ASSUME TypeOK, NEW c \in Conns, Ready(c), reqs'[c] = reqs[c], nread'[c] = nread[c] + 1
  PROVE  /\ BeforeStream(c, nread[c])' <=>
              BeforeStream(c, nread[c]) /\ Request(c).cmd # "subscribe"
         /\ nread[c] + 1 <= Len(reqs[c]) /\ nread[c] + 1 \in Nat
         /\ Request(c) = reqs[c][nread[c] + 1]
  BY LocalType DEF BeforeStream, Ready, Request

LEMMA ReadStep ==
  ASSUME AnswerInv, NEW c \in Conns, Ready(c), writing[c] = NoFrame,
         reqs'[c] = reqs[c], nread'[c] = nread[c] + 1, sent'[c] = sent[c], closed' = closed,
         \/ /\ phase[c] = "idle" /\ phase'[c] = "idle" /\ Request(c).cmd # "subscribe"
            /\ writing'[c] # NoFrame /\ Answers(Request(c), writing'[c])
         \/ /\ phase[c] = "idle" /\ phase'[c] = "exiting" /\ Request(c).cmd # "subscribe"
            /\ writing'[c] = NoFrame
         \/ /\ phase[c] = "idle" /\ phase'[c] = "stream" /\ Request(c).cmd = "subscribe"
            /\ writing'[c] = NoFrame
         \/ /\ phase[c] = "stream" /\ phase'[c] \in {"stream", "idle"}
  PROVE  Answered(c)'
  <1>1. /\ BeforeStream(c, nread[c])' <=>
             BeforeStream(c, nread[c]) /\ Request(c).cmd # "subscribe"
        /\ nread[c] + 1 <= Len(reqs[c]) /\ nread[c] \in Nat /\ Len(sent[c]) \in Nat
        /\ Request(c) = reqs[c][nread[c] + 1]
    BY OneMore, LocalType DEF AnswerInv
  <1>2. Answered(c) /\ (phase[c] = "stream" => ~BeforeStream(c, nread[c]))
    BY DEF AnswerInv, Answered, ReadInv
  <1>3. ReadInv(c)'
    BY <1>1, <1>2 DEF ReadInv
  <1>4. ASSUME c \notin closed PROVE CountInv(c)' /\ InHandInv(c)'
    <2>1. BeforeStream(c, nread[c])' =>
            /\ nread[c] = Len(sent[c])
            /\ \/ phase'[c] = "idle" /\ writing'[c] # NoFrame
                                     /\ Answers(Request(c), writing'[c])
               \/ phase'[c] = "exiting" /\ writing'[c] = NoFrame
      BY <1>1, <1>2, <1>4 DEF Answered, CountInv
    <2>2. CountInv(c)'
      BY <1>1, <2>1 DEF CountInv
    <2>3. InHandInv(c)'
      BY <1>1, <2>1 DEF InHandInv
    <2> QED
      BY <2>2, <2>3
  <1>5. ASSUME c \notin closed PROVE SubscribeInv(c)'
    <2>1. CASE BeforeStream(c, nread[c])
      <3>1. nread[c] = Len(sent[c]) /\ phase[c] = "idle"
        BY <1>2, <1>5, <2>1 DEF Answered, CountInv
      <3> QED
        BY <1>1, <2>1, <3>1 DEF SubscribeInv
    <2>2. CASE ~BeforeStream(c, nread[c])
      <3>1. PICK p \in 1..nread[c] : reqs[c][p].cmd = "subscribe" /\ p <= Len(sent[c]) + 1
        BY <1>2, <1>5, <2>2 DEF Answered, SubscribeInv
      <3>2. p \in 1..(nread[c] + 1)
        BY <1>1
      <3> QED
        BY <3>1, <3>2 DEF SubscribeInv
    <2> QED
      BY <2>1, <2>2
  <1>6. ASSUME c \notin closed PROVE SentInv(c)'
    <2>1. \A m : BeforeStream(c, m)' <=> BeforeStream(c, m)
      BY DEF BeforeStream
    <2>2. \A i \in 1..Len(sent[c]) : i <= nread[c] => i <= nread'[c]
      BY <1>1
    <2> QED
      BY <1>2, <1>6, <2>1, <2>2 DEF Answered, SentInv
  <1> QED
    BY <1>3, <1>4, <1>5, <1>6 DEF Answered

\* A frame is taken in hand in the stream.
LEMMA StreamWriteStep ==
  ASSUME AnswerInv, NEW c \in Conns, phase[c] = "stream", phase'[c] = "stream",
         reqs'[c] = reqs[c], nread'[c] = nread[c], sent'[c] = sent[c], closed' = closed
  PROVE  Answered(c)'
  <1>1. Answered(c) /\ ~BeforeStream(c, nread[c])
    BY DEF AnswerInv, Answered, ReadInv
  <1>2. \A m : BeforeStream(c, m)' <=> BeforeStream(c, m)
    BY DEF BeforeStream
  <1>3. ReadInv(c)' /\ CountInv(c)' /\ InHandInv(c)'
    BY <1>1, <1>2 DEF Answered, ReadInv, CountInv, InHandInv
  <1>4. c \notin closed => SubscribeInv(c)' /\ SentInv(c)'
    BY <1>1, <1>2 DEF Answered, SubscribeInv, SentInv
  <1> QED
    BY <1>3, <1>4 DEF Answered

\* The frame in hand reaches the client.
LEMMA WrittenStep ==
  ASSUME AnswerInv, TypeOK', NEW c \in Conns, FlushFrame(c)
  PROVE  Answered(c)'
  <1> DEFINE n == Len(sent[c])
  <1>1. /\ n \in Nat /\ Len(sent'[c]) = n + 1
        /\ \A i \in 1..n : sent'[c][i] = sent[c][i]
        /\ sent'[c][n + 1] = writing[c] /\ writing[c] # NoFrame /\ writing'[c] = NoFrame
        /\ UNCHANGED <<phase, reqs, nread, closed>>
    BY DEF FlushFrame, Write, clientVars, AnswerInv, TypeOK
  <1>2. Answered(c) /\ nread[c] \in Nat /\ Len(reqs[c]) \in Nat
    BY LocalType DEF AnswerInv
  <1>3. \A m : BeforeStream(c, m)' <=> BeforeStream(c, m)
    BY <1>1 DEF BeforeStream
  <1>4. phase[c] \in {"idle", "stream"} /\ nread[c] <= Len(reqs[c])
    BY <1>1, <1>2 DEF Answered, ReadInv
  <1>5. ReadInv(c)' /\ InHandInv(c)'
    BY <1>1, <1>2, <1>3 DEF Answered, ReadInv, InHandInv
  <1>6. ASSUME c \notin closed, BeforeStream(c, nread[c])
        PROVE  nread[c] = n + 1 /\ Answers(reqs[c][n + 1], writing[c])
    BY <1>1, <1>2, <1>4, <1>6 DEF Answered, ReadInv, CountInv, InHandInv
  <1>7. ASSUME c \notin closed, ~BeforeStream(c, nread[c])
        PROVE  /\ SubscribeInv(c)'
               /\ ~BeforeStream(c, IF n + 1 <= Len(reqs[c]) THEN n + 1 ELSE Len(reqs[c]))
    <2>1. PICK p \in 1..nread[c] : reqs[c][p].cmd = "subscribe" /\ p <= n + 1
      BY <1>2, <1>7 DEF Answered, SubscribeInv
    <2>2. p <= Len(reqs[c]) /\ p <= Len(sent'[c]) + 1
      BY <1>1, <1>2, <1>4, <2>1
    <2>3. SubscribeInv(c)'
      BY <1>1, <2>1, <2>2 DEF SubscribeInv
    <2>4. p \in 1..(IF n + 1 <= Len(reqs[c]) THEN n + 1 ELSE Len(reqs[c]))
      BY <1>1, <1>2, <2>1, <2>2
    <2> QED
      BY <2>1, <2>3, <2>4 DEF BeforeStream
  <1> HIDE DEF n
  <1>8. ASSUME c \notin closed PROVE CountInv(c)' /\ SubscribeInv(c)'
    BY <1>1, <1>3, <1>6, <1>7, <1>8 DEF CountInv, SubscribeInv
  <1>9. ASSUME c \notin closed PROVE SentInv(c)'
    <2> SUFFICES ASSUME NEW i \in 1..(n + 1),
                        BeforeStream(c, IF i <= Len(reqs[c]) THEN i ELSE Len(reqs[c]))
                 PROVE  i <= nread[c] /\ Answers(reqs[c][i], sent'[c][i])
      BY <1>1, <1>3 DEF SentInv
    <2>1. CASE i \in 1..n
      BY <1>1, <1>2, <1>9, <2>1 DEF Answered, SentInv, n
    <2>2. CASE i = n + 1
      BY <1>1, <1>2, <1>6, <1>7, <1>9, <2>2
    <2> QED
      BY <1>1, <2>1, <2>2
  <1> QED
    BY <1>1, <1>5, <1>8, <1>9 DEF Answered

\* The client sends a request: what it asked before stays.
LEMMA SentRequestStep ==
  ASSUME AnswerInv, TypeOK', NEW c \in Conns, NEW r, Send(c),
         reqs' = [reqs EXCEPT ![c] = Append(@, r)]
  PROVE  Answered(c)'
  <1> DEFINE m == Len(reqs[c])
  <1>1. /\ m \in Nat /\ Len(reqs'[c]) = m + 1 /\ nread[c] \in Nat
        /\ \A i \in 1..m : reqs'[c][i] = reqs[c][i]
        /\ UNCHANGED <<phase, nread, sent, writing, closed>>
    BY LocalType DEF Send, taskVars, AnswerInv, TypeOK
  <1>2. Answered(c) /\ nread[c] <= m /\ Len(sent[c]) \in Nat
    BY LocalType DEF AnswerInv, Answered, ReadInv
  <1> HIDE DEF m
  <1>3. \A i \in 0..m : BeforeStream(c, i)' <=> BeforeStream(c, i)
    BY <1>1 DEF BeforeStream
  <1>4. BeforeStream(c, nread[c])' <=> BeforeStream(c, nread[c])
    BY <1>1, <1>2 DEF BeforeStream
  <1>5. ReadInv(c)' /\ (c \notin closed => CountInv(c)')
    <2>1. nread[c] <= m + 1
      BY <1>1, <1>2
    <2>2. ReadInv(c)'
      BY <1>1, <1>2, <1>4, <2>1 DEF Answered, ReadInv
    <2> QED
      BY <1>1, <1>2, <1>4, <2>2 DEF Answered, CountInv
  <1>6. ASSUME c \notin closed PROVE InHandInv(c)'
    <2>1. BeforeStream(c, nread[c]) /\ writing[c] # NoFrame => nread[c] \in 1..m
      BY <1>1, <1>2, <1>6 DEF Answered, ReadInv, CountInv
    <2> QED
      BY <1>1, <1>2, <1>4, <1>6, <2>1 DEF Answered, InHandInv
  <1>7. ASSUME c \notin closed PROVE SubscribeInv(c)'
    <2>1. \A p \in 1..nread[c] : reqs'[c][p] = reqs[c][p]
      BY <1>1, <1>2
    <2> QED
      BY <1>1, <1>2, <1>4, <1>7, <2>1 DEF Answered, SubscribeInv
  <1>8. ASSUME c \notin closed PROVE SentInv(c)'
    <2> SUFFICES ASSUME NEW i \in 1..Len(sent[c]),
                        \A k \in 1..(IF i <= m + 1 THEN i ELSE m + 1) : reqs'[c][k].cmd # "subscribe"
                 PROVE  i <= nread[c] /\ Answers(reqs'[c][i], sent[c][i])
      BY <1>1 DEF SentInv, BeforeStream
    <2>1. BeforeStream(c, IF i <= m THEN i ELSE m)
      BY <1>1 DEF BeforeStream
    <2>2. i <= nread[c] /\ Answers(reqs[c][i], sent[c][i])
      BY <1>2, <1>8, <2>1 DEF Answered, SentInv, m
    <2>3. i \in 1..m
      BY <1>1, <1>2, <2>2
    <2> QED
      BY <1>1, <2>2, <2>3
  <1> QED
    BY <1>1, <1>5, <1>6, <1>7, <1>8 DEF Answered

-----------------------------------------------------------------------------
(* The steps *)

LEMMA ServeAnswers ==
  ASSUME AnswerInv, TypeOK', NEW c \in Conns, Serve(c)
  PROVE  Answered(c)'
  <1>1. /\ Ready(c) /\ writing[c] = NoFrame /\ phase[c] = "idle"
        /\ UNCHANGED <<reqs, sent, closed>>
        /\ nread' = [nread EXCEPT ![c] = @ + 1]
    BY DEF Serve, ServeGet, ServeSet, ServePublish, ServeUnknown, ServeSubscribe, Reject,
       Selecting, Consume, clientVars, taskVars
  <1>2. nread'[c] = nread[c] + 1
    BY <1>1 DEF AnswerInv, TypeOK
  <1>3. \A frm : Write(c, frm) => writing'[c] = frm
    BY DEF Write, AnswerInv, TypeOK
  <1>4. CASE ServeGet(c) \/ ServeSet(c) \/ ServePublish(c) \/ ServeUnknown(c)
    <2>1. /\ phase' = phase /\ Request(c).cmd # "subscribe"
          /\ \E frm : Write(c, frm) /\ frm.type # "none" /\ Answers(Request(c), frm)
      <3>1. CASE ServeGet(c)
        BY <3>1 DEF ServeGet, Answers
      <3>2. CASE ServeSet(c)
        BY <3>2 DEF ServeSet, Answers
      <3>3. CASE ServePublish(c)
        BY <3>3 DEF ServePublish, PublishReply, Answers
      <3>4. CASE ServeUnknown(c)
        BY <3>4 DEF ServeUnknown, Unknown, Answers
      <3> QED
        BY <1>4, <3>1, <3>2, <3>3, <3>4
    <2>2. writing'[c] # NoFrame /\ Answers(Request(c), writing'[c])
      BY <1>3, <2>1 DEF NoFrame
    <2> QED
      BY <1>1, <1>2, <2>1, <2>2, ReadStep
  <1>5. CASE Reject(c)
    <2>1. phase'[c] = "exiting" /\ writing' = writing /\ Request(c).cmd # "subscribe"
      BY <1>5 DEF Reject, Rejected, taskVars, AnswerInv, TypeOK
    <2> QED
      BY <1>1, <1>2, <2>1, ReadStep
  <1>6. CASE ServeSubscribe(c)
    <2>1. phase'[c] = "stream" /\ writing' = writing /\ Request(c).cmd = "subscribe"
      BY <1>6 DEF ServeSubscribe, AnswerInv, TypeOK
    <2> QED
      BY <1>1, <1>2, <2>1, ReadStep
  <1> QED
    BY <1>4, <1>5, <1>6 DEF Serve

LEMMA StreamAnswers ==
  ASSUME AnswerInv, TypeOK', NEW c \in Conns, Stream(c)
  PROVE  Answered(c)'
  <1>1. CASE StreamSubscribe(c) \/ StreamUnsubscribe(c) \/ StreamRefuse(c) \/ StreamReject(c)
    <2>1. /\ Ready(c) /\ writing[c] = NoFrame /\ phase[c] = "stream"
          /\ UNCHANGED <<reqs, sent, closed>>
          /\ nread' = [nread EXCEPT ![c] = @ + 1]
          /\ phase' \in {phase, [phase EXCEPT ![c] = "idle"]}
      BY <1>1 DEF StreamSubscribe, StreamUnsubscribe, StreamRefuse, StreamReject, LeaveStream,
         Selecting, Consume, clientVars, taskVars
    <2>2. nread'[c] = nread[c] + 1 /\ phase'[c] \in {"stream", "idle"}
      BY <2>1 DEF AnswerInv, TypeOK
    <2> QED
      BY <2>1, <2>2, ReadStep
  <1>2. CASE AckSubscription(c) \/ \E ch \in Chans : Deliver(c, ch)
    <2>1. phase[c] = "stream" /\ UNCHANGED <<phase, reqs, nread, sent, closed>>
      BY <1>2 DEF AckSubscription, Deliver, Selecting, clientVars
    <2> QED
      BY <2>1, StreamWriteStep
  <1> QED
    BY <1>1, <1>2 DEF Stream

LEMMA TaskAnswers ==
  ASSUME AnswerInv, TypeOK', NEW c \in Conns, Task(c)
  PROVE  Answered(c)'
  <1>1. CASE Serve(c) \/ Stream(c) \/ FlushFrame(c)
    BY <1>1, ServeAnswers, StreamAnswers, WrittenStep
  <1>2. CASE WriteFails(c)
    <2>1. /\ c \in closed /\ UNCHANGED <<reqs, nread, sent, closed>>
          /\ writing'[c] = NoFrame /\ phase'[c] # "stream"
      BY <1>2 DEF WriteFails, LeaveStream, Write, clientVars, AnswerInv, TypeOK
    <2>2. nread[c] <= Len(reqs[c])
      BY DEF AnswerInv, Answered, ReadInv
    <2> QED
      BY <2>1, <2>2 DEF Answered, ReadInv
  <1>3. CASE SeeEndOfStream(c) \/ SeeShutdown(c) \/ DropStore(c) \/ Finish(c)
    <2>1. /\ UNCHANGED <<reqs, nread, sent, writing, closed>>
          /\ \/ c \in closed /\ phase'[c] \in {"idle", "exiting"} /\ writing[c] = NoFrame
             \/ /\ phase'[c] \in {"exiting", "releasing", "gone"}
                /\ writing[c] = NoFrame \/ phase[c] \in {"exiting", "releasing"}
      BY <1>3 DEF SeeEndOfStream, SeeShutdown, DropStore, Finish, Selecting, LeaveStream, clientVars,
         taskVars, AnswerInv, TypeOK
    <2>2. phase[c] \in {"exiting", "releasing"} => writing[c] = NoFrame
      BY DEF AnswerInv, Answered, ReadInv
    <2> QED
      BY <2>1, <2>2, CalmStep
  <1> QED
    BY <1>1, <1>2, <1>3 DEF Task

LEMMA ClientAnswers ==
  ASSUME AnswerInv, TypeOK', NEW c \in Conns, Accept(c) \/ Client(c)
  PROVE  Answered(c)'
  <1>1. CASE Send(c)
    BY <1>1, SentRequestStep DEF Send
  <1>2. CASE Accept(c) \/ Connect(c) \/ Close(c)
    <2>1. /\ UNCHANGED <<reqs, nread, sent, writing>> /\ closed \subseteq closed'
          /\ \/ phase'[c] = phase[c]
             \/ phase[c] \in {"new", "queued"} /\ phase'[c] \in {"queued", "idle"}
      BY <1>2 DEF Accept, Connect, Close, clientVars, taskVars, AnswerInv, TypeOK
    <2>2. phase[c] \notin {"idle", "stream"} => writing[c] = NoFrame
      BY DEF AnswerInv, Answered, ReadInv
    <2> QED
      BY <2>1, <2>2, CalmStep
  <1> QED
    BY <1>1, <1>2 DEF Client

\* A step of one connection leaves the others' requests and frames alone.
LEMMA Elsewhere ==
  ASSUME AnswerInv, NEW c \in Conns, Accept(c) \/ Task(c) \/ Client(c), NEW d \in Conns, d # c
  PROVE  /\ reqs'[d] = reqs[d] /\ nread'[d] = nread[d] /\ sent'[d] = sent[d]
         /\ writing'[d] = writing[d] /\ phase'[d] = phase[d]
         /\ d \in closed => d \in closed'
  <1> USE DEF Write, Consume, clientVars, taskVars, AnswerInv, TypeOK
  <1>1. CASE Serve(c)
    BY <1>1 DEF Serve, ServeGet, ServeSet, ServePublish, ServeUnknown, ServeSubscribe, Reject
  <1>2. CASE Stream(c)
    BY <1>2 DEF Stream, AckSubscription, Deliver, StreamSubscribe, StreamUnsubscribe,
       StreamRefuse, StreamReject, LeaveStream
  <1>3. CASE \/ FlushFrame(c) \/ WriteFails(c) \/ SeeEndOfStream(c) \/ SeeShutdown(c)
             \/ DropStore(c) \/ Finish(c)
    BY <1>3 DEF FlushFrame, WriteFails, SeeEndOfStream, SeeShutdown, DropStore, Finish, LeaveStream
  <1>4. CASE Accept(c) \/ Client(c)
    BY <1>4 DEF Accept, Client, Connect, Send, Close
  <1> QED
    BY <1>1, <1>2, <1>3, <1>4 DEF Task

LEMMA AnswerInvariant == Spec => []AnswerInv
  <1>1. Init => AnswerInv
    <2> SUFFICES ASSUME Init PROVE AnswerInv
      OBVIOUS
    <2>1. TypeOK
      BY InitTypeOK
    <2>2. ASSUME NEW c \in Conns PROVE Answered(c)
      <3>1. /\ nread[c] = 0 /\ Len(sent[c]) = 0 /\ Len(reqs[c]) = 0
            /\ writing[c] = NoFrame /\ phase[c] = "new" /\ BeforeStream(c, 0)
        BY DEF Init, BeforeStream
      <3> QED
        BY <3>1 DEF Answered, ReadInv, CountInv, InHandInv, SubscribeInv, SentInv
    <2> QED
      BY <2>1, <2>2 DEF AnswerInv
  <1>2. AnswerInv /\ [Next]_vars => AnswerInv'
    <2> SUFFICES ASSUME AnswerInv, [Next]_vars PROVE AnswerInv'
      OBVIOUS
    <2>1. TypeOK'
      BY NextTypeOK DEF AnswerInv
    <2>2. ASSUME NEW c \in Conns, Accept(c) \/ Task(c) \/ Client(c), NEW d \in Conns
          PROVE  Answered(d)'
      <3>1. CASE d = c
        BY <2>1, <2>2, <3>1, TaskAnswers, ClientAnswers
      <3>2. CASE d # c
        <4>1. phase[d] \notin {"idle", "stream"} => writing[d] = NoFrame
          BY DEF AnswerInv, Answered, ReadInv
        <4> QED
          BY <2>2, <3>2, <4>1, Elsewhere, CalmStep
      <3> QED
        BY <3>1, <3>2
    <2>3. ASSUME AcquirePermit \/ EndMain \/ CtrlC \/ NotifyShutdown \/ UNCHANGED vars,
                 NEW d \in Conns
          PROVE  Answered(d)'
      <3>1. /\ UNCHANGED <<reqs, nread, sent, writing, closed>>
            /\ phase'[d] = phase[d] \/ (phase[d] = "queued" /\ phase'[d] = "gone")
        BY <2>3 DEF AcquirePermit, EndMain, CtrlC, NotifyShutdown, vars, clientVars, taskVars,
           AnswerInv, TypeOK
      <3>2. phase[d] \notin {"idle", "stream"} => writing[d] = NoFrame
        BY DEF AnswerInv, Answered, ReadInv
      <3> QED
        BY <3>1, <3>2, CalmStep
    <2> QED
      BY <2>1, <2>2, <2>3 DEF Next, AnswerInv
  <1> QED
    BY <1>1, <1>2, PTL DEF Spec

\* Pipelined requests get their answers one for one and in order
\* (AnswersInOrder; the loop of process_single_request in server.rs).
THEOREM RepliesInOrder == Spec => []AnswersInOrder
  <1>1. AnswerInv => AnswersInOrder
    <2> SUFFICES ASSUME AnswerInv, NEW c \in Conns \ closed
                 PROVE  /\ SentInv(c)
                        /\ Selecting(c, "idle") /\ BeforeStream(c, nread[c]) =>
                             Len(sent[c]) = nread[c]
      BY DEF AnswersInOrder, SentInv
    <2>1. CountInv(c) /\ SentInv(c)
      BY DEF AnswerInv, Answered
    <2>2. nread[c] \in Nat /\ Len(sent[c]) \in Nat
      BY LocalType DEF AnswerInv
    <2>3. Selecting(c, "idle") /\ BeforeStream(c, nread[c]) => Len(sent[c]) = nread[c]
      BY <2>1, <2>2 DEF CountInv, Selecting
    <2> QED
      BY <2>1, <2>3
  <1> QED
    BY <1>1, AnswerInvariant, PTL

-----------------------------------------------------------------------------
(* The life of the data *)

LEMMA RefsStep ==
  TypeOK /\ RefsInv /\ [Next]_vars => RefsInv'
  <1> SUFFICES ASSUME TypeOK, RefsInv, [Next]_vars PROVE RefsInv'
    OBVIOUS
  <1> USE TasksFinite DEF RefsInv, Notified
  <1>0. refs \in Int /\ phase \in [Conns -> Phases]
    BY DEF TypeOK, DbTypeOK
  <1>1. CASE AcquirePermit \/ EndMain
    BY <1>1, Tasks' = Tasks DEF AcquirePermit, EndMain, Tasks, dbVars
  <1>2. CASE CtrlC
    BY <1>2, Tasks' = Tasks DEF CtrlC, DropHandle, Accepting, Tasks
  <1>3. CASE NotifyShutdown
    <2>1. Tasks' = Tasks
      BY <1>0, <1>3 DEF NotifyShutdown, Tasks, Running
    <2> QED
      BY <1>0, <1>3, <2>1 DEF NotifyShutdown, ReleaseHandle
  <1>4. ASSUME NEW c \in Conns, Accept(c) PROVE RefsInv'
    <2>1. c \notin Tasks /\ Tasks' = Tasks \cup {c}
      BY <1>0, <1>4 DEF Accept, Tasks, Running
    <2>2. Cardinality(Tasks') = Cardinality(Tasks) + 1
      BY <2>1, FS_AddElement
    <2> QED
      BY <1>0, <1>4, <2>2 DEF Accept, CloneHandle
  <1>5. ASSUME NEW c \in Conns, Task(c) PROVE RefsInv'
    <2>1. CASE Finish(c)
      <3>1. c \in Tasks /\ Tasks' = Tasks \ {c}
        BY <1>0, <2>1 DEF Finish, Tasks, Running
      <3>2. Cardinality(Tasks') = Cardinality(Tasks) - 1
        BY <3>1, FS_RemoveElement
      <3> QED
        BY <1>0, <2>1, <3>2 DEF Finish, ReleaseHandle
    <2>2. CASE ~Finish(c)
      <3>1. refs' = refs
        BY <1>5, <2>2 DEF Task, Serve, ServeGet, ServeSet, DbSet, ServePublish, DbPublish,
           ServeUnknown, ServeSubscribe, Reject, Stream, AckSubscription, DbSubscribe, Deliver, Poll,
           StreamSubscribe, StreamUnsubscribe, StreamRefuse, StreamReject, LeaveStream, DropReceivers,
           FlushFrame, WriteFails, SeeEndOfStream, SeeShutdown, DropStore, DropHandle, dbVars
      <3> QED
        BY <1>5, <2>2, <3>1, TaskStepKeepsTasks
    <2> QED
      BY <2>1, <2>2
  <1>6. ASSUME NEW c \in Conns, Client(c) PROVE RefsInv'
    <2>1. Tasks' = Tasks
      BY <1>0, <1>6 DEF Client, Connect, Send, Close, Tasks, Running
    <2> QED
      BY <1>6, <2>1 DEF Client, Connect, Send, Close, dbVars
  <1>7. CASE UNCHANGED vars
    BY <1>7, Tasks' = Tasks DEF vars, Tasks, dbVars
  <1> QED
    BY <1>1, <1>2, <1>3, <1>4, <1>5, <1>6, <1>7 DEF Next

LEMMA RefsInvariant == Spec => []RefsInv
  <1>1. Init => RefsInv
    <2> SUFFICES ASSUME Init PROVE RefsInv
      OBVIOUS
    <2>1. Tasks = {}
      BY DEF Init, Tasks, Running
    <2> QED
      BY <2>1, FS_EmptySet DEF Init, DbInit, RefsInv, Notified
  <1> QED
    BY <1>1, RefsStep, TypeCorrect, PTL DEF Spec

\* Somebody may still ask for the data.
InUse == Accepting \/ \E d \in Conns : phase[d] \in {"idle", "stream"}

LEMMA UseEnds ==
  ASSUME TypeOK, [Next]_vars, InUse'
  PROVE  InUse
  <1>0. phase \in [Conns -> Phases]
    BY DEF TypeOK
  <1>1. ASSUME NEW c \in Conns, Task(c) PROVE InUse
    <2>1. server' = server
      BY <1>1 DEF Task, Serve, ServeGet, ServeSet, ServePublish, ServeUnknown, ServeSubscribe, Reject,
         Stream, AckSubscription, StreamSubscribe, StreamUnsubscribe, StreamRefuse, StreamReject,
         Deliver, FlushFrame, WriteFails, SeeEndOfStream, SeeShutdown, DropStore, Finish
    <2> QED
      BY <1>1, <2>1, TaskLeavesLoops DEF InUse, Accepting
  <1>2. ASSUME NEW c \in Conns, Accept(c) PROVE InUse
    BY <1>2 DEF Accept, InUse, Accepting
  <1>3. ASSUME NEW c \in Conns, Client(c) PROVE InUse
    BY <1>0, <1>3 DEF Client, Connect, Send, Close, InUse, Accepting
  <1>4. CASE AcquirePermit \/ CtrlC \/ UNCHANGED vars
    BY <1>4 DEF AcquirePermit, CtrlC, vars, InUse, Accepting
  <1>5. CASE NotifyShutdown \/ EndMain
    BY <1>0, <1>5 DEF NotifyShutdown, EndMain, InUse, Accepting
  <1> QED
    BY <1>1, <1>2, <1>3, <1>4, <1>5 DEF Next

\* Whoever reads a count of one is the last: nobody may ask any more.
LEMMA LastHandle ==
  ASSUME TypeOK, RefsInv, refs = 1,
         CtrlC \/ \E c \in Conns : DropStore(c)
  PROVE  ~InUse'
  <1>0. phase \in [Conns -> Phases]
    BY DEF TypeOK
  <1>1. CASE CtrlC
    <2>1. Cardinality(Tasks) = 0
      BY <1>1, TasksFinite DEF CtrlC, RefsInv, Accepting, Notified
    <2>2. Tasks = {}
      BY <2>1, TasksFinite, FS_EmptySet
    <2> QED
      BY <1>1, <2>2 DEF CtrlC, InUse, Accepting, Tasks, Running
  <1>2. ASSUME NEW c \in Conns, DropStore(c) PROVE ~InUse'
    <2>1. c \in Tasks /\ server' = server
      BY <1>2 DEF DropStore, Tasks, Running
    <2>2. Cardinality(Tasks \ {c}) = Cardinality(Tasks) - 1 /\ IsFiniteSet(Tasks \ {c})
      BY <2>1, TasksFinite, FS_RemoveElement
    <2>3. Cardinality(Tasks \ {c}) \in Nat
      BY <2>2, FS_CardinalityType
    <2>4. Notified /\ Cardinality(Tasks \ {c}) = 0
      BY <2>2, <2>3, TasksFinite DEF RefsInv
    <2>5. Tasks \ {c} = {}
      BY <2>2, <2>4, FS_EmptySet
    <2> QED
      BY <1>0, <1>2, <2>1, <2>4, <2>5 DEF DropStore, InUse, Accepting, Notified, Tasks, Running
  <1> QED
    BY <1>1, <1>2

\* A key that is set stays set until nobody may ask for it.
LEMMA KeysStay ==
  ASSUME TypeOK, RefsInv, [Next]_vars, InUse', NEW k \in Keys, keyval[k] # Absent
  PROVE  keyval'[k] # Absent
  <1>1. ASSUME NEW c \in Conns, Serve(c) PROVE keyval'[k] # Absent
    <2>1. CASE ServeSet(c)
      <3>1. /\ Request(c).val \in Vals
            /\ keyval' = [keyval EXCEPT ![Request(c).key] = Request(c).val]
        BY <2>1, RequestType, RequestFields DEF ServeSet, DbSet
      <3> QED
        BY <3>1, AbsentAssumption DEF TypeOK, DbTypeOK
    <2>2. CASE ~ServeSet(c)
      BY <1>1, <2>2 DEF Serve, ServeGet, ServePublish, DbPublish, ServeUnknown, ServeSubscribe,
         Reject, dbVars
    <2> QED
      BY <2>1, <2>2
  <1>2. ASSUME NEW c \in Conns, Stream(c) PROVE keyval'[k] # Absent
    BY <1>2 DEF Stream, AckSubscription, DbSubscribe, Deliver, Poll, StreamSubscribe,
       StreamUnsubscribe, StreamRefuse, StreamReject, LeaveStream, DropReceivers, dbVars
  <1>3. ASSUME CtrlC \/ \E c \in Conns : DropStore(c) PROVE keyval' = keyval
    <2>1. refs # 1
      BY <1>3, LastHandle
    <2> QED
      BY <1>3, <2>1 DEF CtrlC, DropStore, DropHandle
  <1>4. ASSUME NEW c \in Conns, Task(c) PROVE keyval'[k] # Absent
    <2>1. CASE \/ FlushFrame(c) \/ WriteFails(c) \/ SeeEndOfStream(c) \/ SeeShutdown(c)
               \/ Finish(c)
      BY <2>1 DEF FlushFrame, WriteFails, SeeEndOfStream, SeeShutdown, Finish, ReleaseHandle,
         LeaveStream, DropReceivers, dbVars
    <2> QED
      BY <1>1, <1>2, <1>3, <1>4, <2>1 DEF Task
  <1>5. ASSUME NEW c \in Conns, Accept(c) \/ Client(c) PROVE keyval' = keyval
    BY <1>5 DEF Accept, CloneHandle, Client, Connect, Send, Close, dbVars
  <1>6. AcquirePermit \/ NotifyShutdown \/ EndMain \/ UNCHANGED vars => keyval' = keyval
    BY DEF AcquirePermit, NotifyShutdown, ReleaseHandle, EndMain, vars, dbVars
  <1> QED
    BY <1>3, <1>4, <1>5, <1>6 DEF Next

\* A SET is carried out before, or by this step.
LEMMA SetsAreServed ==
  ASSUME AnswerInv, TypeOK', [Next]_vars, NEW c \in Conns, NEW k \in Keys,
         NEW i \in 1..Len(reqs'[c]), WasSet(c, i, k)'
  PROVE  \/ i \in 1..Len(reqs[c]) /\ WasSet(c, i, k)
         \/ ServeSet(c) /\ Request(c).key = k
  <1> USE DEF WasSet, BeforeStream
  <1>0. /\ nread \in [Conns -> Nat] /\ nread[c] <= Len(reqs[c])
        /\ reqs \in [Conns -> Seq(AnyRequest)] /\ Len(reqs[c]) \in Nat
        /\ phase[c] = "stream" => ~BeforeStream(c, nread[c])
    BY DEF AnswerInv, TypeOK, Answered, ReadInv
  <1>1. ASSUME nread'[c] = nread[c],
               reqs'[c] = reqs[c] \/ \E r : reqs'[c] = Append(reqs[c], r)
        PROVE  i \in 1..Len(reqs[c]) /\ WasSet(c, i, k)
    <2>1. i \in 1..Len(reqs[c])
      BY <1>0, <1>1
    <2>2. ASSUME NEW j \in 1..i PROVE reqs'[c][j] = reqs[c][j]
      <3>1. j \in 1..Len(reqs[c])
        BY <1>0, <2>1
      <3> QED
        BY <1>0, <1>1, <3>1
    <2> QED
      BY <1>1, <2>1, <2>2
  <1>2. ASSUME Serve(c) \/ Stream(c), reqs' = reqs, nread'[c] = nread[c] + 1, i = nread[c] + 1
        PROVE  ServeSet(c) /\ Request(c).key = k
    <2>1. Request(c).cmd = "set" /\ Request(c).key = k
      BY <1>2 DEF Request
    <2>2. phase[c] # "stream"
      BY <1>0, <1>2
    <2>3. ~Stream(c)
      BY <2>2 DEF Stream, AckSubscription, Deliver, StreamSubscribe, StreamUnsubscribe, StreamRefuse,
         StreamReject, Selecting
    <2> QED
      BY <1>2, <2>1, <2>3 DEF Serve, ServeGet, ServePublish, ServeUnknown, ServeSubscribe, Reject,
         Rejected, Unknown
  <1>3. ASSUME Serve(c) \/ Stream(c), reqs' = reqs, nread'[c] = nread[c] + 1, i # nread[c] + 1
        PROVE  i \in 1..Len(reqs[c]) /\ WasSet(c, i, k)
    BY <1>0, <1>3
  <1>4. CASE Serve(c) \/ Stream(c)
    <2>1. reqs' = reqs /\ nread'[c] \in {nread[c], nread[c] + 1}
      BY <1>0, <1>4 DEF Serve, ServeGet, ServeSet, ServePublish, ServeUnknown, ServeSubscribe, Reject,
         Stream, AckSubscription, Deliver, StreamSubscribe, StreamUnsubscribe, StreamRefuse,
         StreamReject, Consume, clientVars
    <2> QED
      BY <1>1, <1>2, <1>3, <1>4, <2>1
  <1>5. CASE \/ FlushFrame(c) \/ WriteFails(c) \/ SeeEndOfStream(c) \/ SeeShutdown(c)
             \/ DropStore(c) \/ Finish(c)
    BY <1>1, <1>5 DEF FlushFrame, WriteFails, SeeEndOfStream, SeeShutdown, DropStore, Finish,
       clientVars
  <1>6. CASE Accept(c) \/ Client(c)
    <2>1. nread' = nread /\ (reqs' = reqs \/ \E r : reqs' = [reqs EXCEPT ![c] = Append(@, r)])
      BY <1>6 DEF Accept, Client, Connect, Send, Close, clientVars
    <2> QED
      BY <1>0, <1>1, <2>1
  <1>7. CASE AcquirePermit \/ CtrlC \/ NotifyShutdown \/ EndMain \/ UNCHANGED vars
    BY <1>1, <1>7 DEF AcquirePermit, CtrlC, NotifyShutdown, EndMain, vars, clientVars
  <1>8. ASSUME NEW d \in Conns, d # c, Accept(d) \/ Task(d) \/ Client(d)
        PROVE  i \in 1..Len(reqs[c]) /\ WasSet(c, i, k)
    BY <1>1, <1>8, Elsewhere
  <1> QED
    BY <1>4, <1>5, <1>6, <1>7, <1>8 DEF Next, Task

\* A key that was set is there as long as anybody may ask for it: the map is
\* cleared by the last handle only, whatever handles are cloned and dropped while
\* a task is dropping its own (WritesStay; Clone and Drop of db.rs, and server.rs).
THEOREM DataOutlives == Spec => []WritesStay
  <1>1. Init => WritesStay
    BY DEF Init, WritesStay, WasSet
  <1>2. AnswerInv /\ AnswerInv' /\ RefsInv /\ WritesStay /\ [Next]_vars => WritesStay'
    <2> SUFFICES ASSUME AnswerInv, AnswerInv', RefsInv, WritesStay, [Next]_vars, InUse',
                        NEW c \in Conns, NEW k \in Keys, NEW i \in 1..Len(reqs'[c]),
                        WasSet(c, i, k)'
                 PROVE  keyval'[k] # Absent
      BY DEF WritesStay, InUse, Accepting
    <2>1. TypeOK /\ TypeOK'
      BY DEF AnswerInv
    <2>2. CASE i \in 1..Len(reqs[c]) /\ WasSet(c, i, k)
      <3>1. InUse
        BY <2>1, UseEnds
      <3>2. keyval[k] # Absent
        BY <2>2, <3>1 DEF WritesStay, InUse
      <3> QED
        BY <2>1, <3>2, KeysStay
    <2>3. CASE ServeSet(c) /\ Request(c).key = k
      <3>1. Request(c).val \in Vals /\ keyval' = [keyval EXCEPT ![k] = Request(c).val]
        BY <2>1, <2>3, RequestType, RequestFields DEF ServeSet, DbSet
      <3> QED
        BY <2>1, <3>1, AbsentAssumption DEF TypeOK, DbTypeOK
    <2> QED
      BY <2>1, <2>2, <2>3, SetsAreServed
  <1> QED
    BY <1>1, <1>2, AnswerInvariant, RefsInvariant, PTL DEF Spec

-----------------------------------------------------------------------------
(* Subscriptions *)

\* Among the first n frames of the wire the last word on ch is a confirmation.
Open(c, ch, n) ==
  \E j \in 1..n : Confirms(sent[c][j], ch) /\ \A k \in j..n : ~Ends(sent[c][k], ch)

\* A receiver belongs to a stream and to a subscription that is on the wire,
\* or about to be.
ReceiverInv ==
  \A c \in Conns, ch \in Chans : ch \in subs[c] =>
    /\ phase[c] = "stream"
    /\ ~Ends(writing[c], ch)
    /\ Confirms(writing[c], ch) \/ Open(c, ch, Len(sent[c]))

\* A message that is being written follows an open subscription, even when
\* the receiver it came from is gone by now.
WritingInv ==
  \A c \in Conns, ch \in Chans :
    IsMessage(writing[c], ch) => Open(c, ch, Len(sent[c]))

SubInv == TypeOK /\ ReceiverInv /\ WritingInv /\ MessagesOnlyWhileSubscribed

LEMMA NoFrameIs ==
  ASSUME NEW ch
  PROVE  ~Confirms(NoFrame, ch) /\ ~Ends(NoFrame, ch) /\ ~IsMessage(NoFrame, ch)
  BY DEF Confirms, Ends, IsMessage, NoFrame

LEMMA SentUnchanged ==
  ASSUME sent' = sent
  PROVE  /\ \A c, ch, n : Open(c, ch, n)' <=> Open(c, ch, n)
         /\ MessagesOnlyWhileSubscribed' <=> MessagesOnlyWhileSubscribed
  BY DEF Open, MessagesOnlyWhileSubscribed

\* Receivers that stay belong to a stream that stays, and what is written to
\* them ends nothing.
LEMMA QuietSubscriptions ==
  ASSUME SubInv, TypeOK', sent' = sent,
         \A c \in Conns, ch \in Chans : ch \in subs'[c] =>
           /\ ch \in subs[c] /\ phase'[c] = "stream"
           /\ \/ writing'[c] = writing[c]
              \/ writing[c] = NoFrame /\ ~Ends(writing'[c], ch),
         \A c \in Conns : writing'[c] = writing[c] \/ writing'[c].type # "message"
  PROVE  SubInv'
  <1>1. ASSUME NEW c \in Conns, NEW ch \in Chans, ch \in subs'[c]
        PROVE  /\ phase'[c] = "stream" /\ ~Ends(writing'[c], ch)
               /\ Confirms(writing'[c], ch) \/ Open(c, ch, Len(sent[c]))
    BY <1>1, NoFrameIs DEF SubInv, ReceiverInv
  <1>2. ASSUME NEW c \in Conns, NEW ch \in Chans, IsMessage(writing'[c], ch)
        PROVE  Open(c, ch, Len(sent[c]))
    BY <1>2 DEF SubInv, WritingInv, IsMessage
  <1>3. ReceiverInv' /\ WritingInv'
    BY <1>1, <1>2, SentUnchanged DEF ReceiverInv, WritingInv
  <1> QED
    BY <1>3, SentUnchanged DEF SubInv

LEMMA AckStep ==
  ASSUME SubInv, TypeOK', NEW c \in Conns, AckSubscription(c)
  PROVE  SubInv'
  <1> DEFINE new == Head(todo[c])
             frm == [type |-> "subscribe", chn |-> new, n |-> Cardinality(subs[c] \cup {new})]
  <1>1. /\ writing[c] = NoFrame /\ phase[c] = "stream"
        /\ writing' = [writing EXCEPT ![c] = frm]
        /\ UNCHANGED <<phase, sent>>
        /\ subs' = [subs EXCEPT ![c] = @ \cup {new}] \/ (subs' = subs /\ new \in subs[c])
    BY DEF AckSubscription, Write, DbSubscribe, dbVars
  <1>2. frm.type = "subscribe" /\ frm.chn = new
    OBVIOUS
  <1> HIDE DEF new, frm
  <1>3. ASSUME NEW d \in Conns, NEW ch \in Chans, ch \in subs'[d]
        PROVE  /\ phase[d] = "stream" /\ ~Ends(writing'[d], ch)
               /\ Confirms(writing'[d], ch) \/ Open(d, ch, Len(sent[d]))
    <2>1. CASE d = c
      <3>1. writing'[c] = frm
        BY <1>1 DEF SubInv, TypeOK
      <3>2. ch \in subs[c] \/ ch = new
        BY <1>1, <1>3, <2>1 DEF SubInv, TypeOK, DbTypeOK
      <3> QED
        BY <1>1, <1>2, <2>1, <3>1, <3>2, NoFrameIs DEF SubInv, ReceiverInv, Confirms, Ends
    <2>2. CASE d # c
      <3>1. writing'[d] = writing[d] /\ subs'[d] = subs[d]
        BY <1>1, <2>2 DEF SubInv, TypeOK, DbTypeOK
      <3> QED
        BY <1>3, <3>1 DEF SubInv, ReceiverInv
    <2> QED
      BY <2>1, <2>2
  <1>4. ASSUME NEW d \in Conns, NEW ch \in Chans, IsMessage(writing'[d], ch)
        PROVE  Open(d, ch, Len(sent[d]))
    <2>1. writing'[d] = writing[d]
      BY <1>1, <1>2, <1>4 DEF SubInv, TypeOK, IsMessage
    <2> QED
      BY <1>4, <2>1 DEF SubInv, WritingInv
  <1>5. ReceiverInv' /\ WritingInv'
    BY <1>1, <1>3, <1>4, SentUnchanged DEF ReceiverInv, WritingInv
  <1> QED
    BY <1>1, <1>5, SentUnchanged DEF SubInv

LEMMA MessageStep ==
  ASSUME SubInv, TypeOK', NEW c \in Conns, NEW ch \in Chans, Deliver(c, ch)
  PROVE  SubInv'
  <1> DEFINE frm == [type |-> "message", chn |-> ch, pos |-> NextMessage(c, ch)]
  <1>1. /\ writing[c] = NoFrame /\ ch \in subs[c]
        /\ writing' = [writing EXCEPT ![c] = frm]
        /\ UNCHANGED <<phase, subs, sent>>
    BY DEF Deliver, Selecting, Poll, Write
  <1>2. frm.type = "message" /\ frm.chn = ch
    OBVIOUS
  <1> HIDE DEF frm
  <1>3. \A dh \in Chans : dh \in subs[c] => Open(c, dh, Len(sent[c]))
    BY <1>1, NoFrameIs DEF SubInv, ReceiverInv
  <1>4. \A d \in Conns : writing'[d] = IF d = c THEN frm ELSE writing[d]
    BY <1>1 DEF SubInv, TypeOK
  <1>5. ASSUME NEW d \in Conns, NEW dh \in Chans, dh \in subs[d]
        PROVE  /\ phase[d] = "stream" /\ ~Ends(writing'[d], dh)
               /\ Confirms(writing'[d], dh) \/ Open(d, dh, Len(sent[d]))
    BY <1>2, <1>3, <1>4, <1>5 DEF SubInv, ReceiverInv, Ends
  <1>6. ASSUME NEW d \in Conns, NEW dh \in Chans, IsMessage(writing'[d], dh)
        PROVE  Open(d, dh, Len(sent[d]))
    BY <1>1, <1>2, <1>3, <1>4, <1>6 DEF SubInv, WritingInv, IsMessage
  <1>7. ReceiverInv' /\ WritingInv'
    BY <1>1, <1>5, <1>6, SentUnchanged DEF ReceiverInv, WritingInv
  <1> QED
    BY <1>1, <1>7, SentUnchanged DEF SubInv

\* The frame reaches the wire: a confirmation opens its channel, and what was
\* open stays open unless the frame ends it.
LEMMA WireStep ==
  ASSUME SubInv, TypeOK', NEW c \in Conns, FlushFrame(c)
  PROVE  SubInv'
  <1> DEFINE n == Len(sent[c])
             frm == writing[c]
  <1>1. /\ sent' = [sent EXCEPT ![c] = Append(@, frm)]
        /\ writing' = [writing EXCEPT ![c] = NoFrame]
        /\ UNCHANGED <<phase, subs>>
    BY DEF FlushFrame, Write, dbVars
  <1>2. /\ n \in Nat /\ Len(sent'[c]) = n + 1
        /\ \A i \in 1..n : sent'[c][i] = sent[c][i]
        /\ sent'[c][n + 1] = frm
        /\ writing'[c] = NoFrame
        /\ \A d \in Conns : d # c => sent'[d] = sent[d] /\ writing'[d] = writing[d]
    BY <1>1 DEF SubInv, TypeOK
  <1> HIDE DEF n, frm
  <1>3. ASSUME NEW ch \in Chans, NEW i \in 1..n, Open(c, ch, i)
        PROVE  Open(c, ch, i)'
    BY <1>2, <1>3 DEF Open
  <1>4. ASSUME NEW ch \in Chans, ~Ends(frm, ch), Confirms(frm, ch) \/ Open(c, ch, n)
        PROVE  \A m : m = n + 1 => Open(c, ch, m)'
    <2>1. CASE Confirms(frm, ch)
      BY <1>2, <1>4, <2>1 DEF Open
    <2>2. CASE Open(c, ch, n)
      <3>1. PICK j \in 1..n : Confirms(sent[c][j], ch) /\ \A k \in j..n : ~Ends(sent[c][k], ch)
        BY <2>2 DEF Open
      <3>2. Confirms(sent'[c][j], ch) /\ \A k \in j..(n + 1) : ~Ends(sent'[c][k], ch)
        BY <1>2, <1>4, <3>1
      <3>3. j \in 1..(n + 1)
        BY <1>2
      <3> QED
        BY <3>2, <3>3 DEF Open
    <2> QED
      BY <1>4, <2>1, <2>2
  <1>5. ReceiverInv'
    <2> SUFFICES ASSUME NEW d \in Conns, NEW ch \in Chans, ch \in subs[d]
                 PROVE  /\ phase[d] = "stream" /\ ~Ends(writing'[d], ch)
                        /\ Confirms(writing'[d], ch) \/ Open(d, ch, Len(sent[d]))'
      BY <1>1 DEF ReceiverInv
    <2>1. CASE d = c
      BY <1>2, <1>4, <2>1, NoFrameIs DEF SubInv, ReceiverInv, n, frm
    <2>2. CASE d # c
      BY <1>2, <2>2 DEF SubInv, ReceiverInv, Open
    <2> QED
      BY <2>1, <2>2
  <1>6. WritingInv'
    <2> SUFFICES ASSUME NEW d \in Conns, NEW ch \in Chans, IsMessage(writing'[d], ch)
                 PROVE  Open(d, ch, Len(sent[d]))'
      BY DEF WritingInv
    <2>1. d # c
      BY <1>2, NoFrameIs
    <2> QED
      BY <1>2, <2>1 DEF SubInv, WritingInv, Open
  <1>7. MessagesOnlyWhileSubscribed'
    <2> SUFFICES ASSUME NEW d \in Conns, NEW ch \in Chans, NEW i \in 1..Len(sent'[d]),
                        IsMessage(sent'[d][i], ch)
                 PROVE  \E j \in 1..(i - 1) : Confirms(sent'[d][j], ch)
                                                /\ \A k \in j..i : ~Ends(sent'[d][k], ch)
      BY DEF MessagesOnlyWhileSubscribed
    <2>1. CASE d # c
      BY <1>2, <2>1 DEF SubInv, MessagesOnlyWhileSubscribed
    <2>2. CASE d = c /\ i \in 1..n
      <3>1. PICK j \in 1..(i - 1) : Confirms(sent[c][j], ch)
                                      /\ \A k \in j..i : ~Ends(sent[c][k], ch)
        BY <1>2, <2>2 DEF SubInv, MessagesOnlyWhileSubscribed, n
      <3> QED
        BY <1>2, <2>2, <3>1
    <2>3. CASE d = c /\ i = n + 1
      <3>1. IsMessage(frm, ch)
        BY <1>2, <2>3
      <3>2. PICK j \in 1..n : Confirms(sent[c][j], ch) /\ \A k \in j..n : ~Ends(sent[c][k], ch)
        BY <3>1 DEF SubInv, WritingInv, Open, n, frm
      <3>3. ~Ends(frm, ch)
        BY <3>1 DEF IsMessage, Ends
      <3> QED
        BY <1>2, <2>3, <3>2, <3>3
    <2> QED
      BY <1>2, <2>1, <2>2, <2>3
  <1> QED
    BY <1>5, <1>6, <1>7 DEF SubInv

LEMMA QuietNext ==
  ASSUME SubInv, TypeOK', [Next]_vars,
         ~ \E c \in Conns : \/ AckSubscription(c) \/ FlushFrame(c)
                            \/ \E ch \in Chans : Deliver(c, ch)
  PROVE  SubInv'
  <1>0. /\ subs \in [Conns -> SUBSET Chans] /\ phase \in [Conns -> Phases]
        /\ writing \in [Conns -> Frame \cup {NoFrame}]
        /\ \A c \in Conns, ch \in Chans : ch \in subs[c] => phase[c] = "stream"
    BY DEF SubInv, ReceiverInv, TypeOK, DbTypeOK
  <1> DEFINE Stays(d) == \A ch \in Chans : ch \in subs'[d] =>
                           /\ ch \in subs[d] /\ phase'[d] = "stream"
                           /\ \/ writing'[d] = writing[d]
                              \/ writing[d] = NoFrame /\ ~Ends(writing'[d], ch)
             Quiet(d) == writing'[d] = writing[d] \/ writing'[d].type # "message"
             Calm == sent' = sent /\ \A d \in Conns : Stays(d) /\ Quiet(d)
  <1>1. ASSUME NEW c \in Conns, sent' = sent, Stays(c), Quiet(c),
               \A d \in Conns \ {c} :
                 subs'[d] = subs[d] /\ phase'[d] = phase[d] /\ writing'[d] = writing[d]
        PROVE  Calm
    <2>1. \A d \in Conns : d # c => Stays(d) /\ Quiet(d)
      BY <1>0, <1>1
    <2> QED
      BY <1>1, <2>1
  <1>2. ASSUME NEW c \in Conns, phase[c] # "stream" PROVE subs[c] = {}
    BY <1>0, <1>2
  <1> HIDE DEF Calm
  <1>3. ASSUME NEW c \in Conns, Serve(c) PROVE Calm
    <2>1. /\ writing[c] = NoFrame /\ subs[c] = {} /\ UNCHANGED <<subs, sent>>
          /\ \E frm \in {writing'[c]} : frm = writing[c] \/ frm.type # "message"
      BY <1>0, <1>2, <1>3 DEF Serve, ServeGet, ServeSet, ServePublish, PublishReply, ServeUnknown,
         ServeSubscribe, Reject, Selecting, Write, dbVars, DbSet, DbPublish, taskVars
    <2>2. \A d \in Conns \ {c} : phase'[d] = phase[d] /\ writing'[d] = writing[d]
      BY <1>0, <1>3 DEF Serve, ServeGet, ServeSet, ServePublish, ServeUnknown,
         ServeSubscribe, Reject, Write, taskVars
    <2> QED
      BY <1>0, <1>1, <2>1, <2>2
  <1>4. ASSUME NEW c \in Conns, Stream(c) PROVE Calm
    <2>1. CASE StreamSubscribe(c) \/ StreamReject(c)
      BY <1>0, <1>1, <2>1 DEF StreamSubscribe, StreamReject, LeaveStream, DropReceivers, dbVars,
         taskVars, Selecting
    <2>2. CASE StreamUnsubscribe(c)
      <3> DEFINE chns == IF Request(c).chns = <<>> THEN subs[c] ELSE Elems(Request(c).chns)
                 frm == [type |-> "unsubscribe", chns |-> chns, n |-> Cardinality(subs[c] \ chns)]
      <3>1. /\ writing[c] = NoFrame /\ phase[c] = "stream"
            /\ subs' = [subs EXCEPT ![c] = @ \ chns]
            /\ writing' = [writing EXCEPT ![c] = frm]
            /\ UNCHANGED <<phase, sent>>
        BY <2>2 DEF StreamUnsubscribe, Selecting, DropReceivers, Write
      <3>2. frm.type = "unsubscribe" /\ frm.chns = chns
        OBVIOUS
      <3> HIDE DEF chns, frm
      <3>3. /\ writing'[c] = frm /\ subs'[c] = subs[c] \ chns
            /\ \A d \in Conns \ {c} : subs'[d] = subs[d] /\ writing'[d] = writing[d]
        BY <1>0, <3>1
      <3>4. \A ch \in Chans : ch \in subs'[c] => ch \in subs[c] /\ ~Ends(frm, ch)
        BY <3>2, <3>3 DEF Ends
      <3> QED
        BY <1>1, <3>1, <3>2, <3>3, <3>4
    <2>3. CASE StreamRefuse(c)
      <3>1. /\ writing[c] = NoFrame /\ phase[c] = "stream"
            /\ writing' = [writing EXCEPT ![c] = [type |-> "error"]]
            /\ UNCHANGED <<subs, phase, sent>>
        BY <2>3 DEF StreamRefuse, Selecting, Write, dbVars
      <3>2. \A ch : ~Ends([type |-> "error"], ch)
        BY DEF Ends
      <3>3. writing'[c] = [type |-> "error"] /\ [type |-> "error"].type # "message"
        BY <1>0, <3>1
      <3> QED
        BY <1>0, <1>1, <3>1, <3>2, <3>3
    <2> QED
      BY <1>4, <2>1, <2>2, <2>3 DEF Stream
  <1>5. ASSUME NEW c \in Conns, Task(c) PROVE Calm
    <2>1. CASE WriteFails(c)
      <3>1. /\ sent' = sent /\ writing' = [writing EXCEPT ![c] = NoFrame]
            /\ subs' = [subs EXCEPT ![c] = {}]
            /\ \A d \in Conns \ {c} : phase'[d] = phase[d]
        BY <1>0, <1>2, <2>1 DEF WriteFails, LeaveStream, DropReceivers, Write, dbVars
      <3> QED
        BY <1>0, <1>1, <3>1 DEF NoFrame
    <2>2. CASE SeeEndOfStream(c) \/ SeeShutdown(c)
      BY <1>0, <1>1, <1>2, <2>2 DEF SeeEndOfStream, SeeShutdown, Selecting, LeaveStream,
         DropReceivers, dbVars, taskVars
    <2>3. CASE DropStore(c) \/ Finish(c)
      BY <1>0, <1>1, <1>2, <2>3 DEF DropStore, Finish, DropHandle, ReleaseHandle, taskVars
    <2> QED
      BY <1>3, <1>4, <1>5, <2>1, <2>2, <2>3 DEF Task
  <1>6. ASSUME AcquirePermit \/ EndMain \/ UNCHANGED vars PROVE Calm
    BY <1>0, <1>6 DEF AcquirePermit, EndMain, vars, dbVars, taskVars, Calm
  <1>7. ASSUME CtrlC \/ NotifyShutdown PROVE Calm
    BY <1>0, <1>7 DEF CtrlC, NotifyShutdown, DropHandle, ReleaseHandle, taskVars, Calm
  <1>8. ASSUME NEW c \in Conns, Accept(c) \/ Client(c) PROVE Calm
    BY <1>0, <1>1, <1>8 DEF Accept, CloneHandle, Client, Connect, Send, Close, dbVars, taskVars
  <1>9. Calm
    BY <1>5, <1>6, <1>7, <1>8 DEF Next
  <1> QED
    BY <1>9, QuietSubscriptions DEF Calm

\* Messages are written only to a subscription that the client has seen
\* confirmed and not ended (MessagesOnlyWhileSubscribed; subscribe.rs).
THEOREM OnlyWhileSubscribed == Spec => []MessagesOnlyWhileSubscribed
  <1>1. Init => SubInv
    <2> SUFFICES ASSUME Init PROVE SubInv
      OBVIOUS
    <2>1. TypeOK
      BY InitTypeOK
    <2>2. ReceiverInv /\ WritingInv /\ MessagesOnlyWhileSubscribed
      BY NoFrameIs DEF Init, DbInit, ReceiverInv, WritingInv, MessagesOnlyWhileSubscribed
    <2> QED
      BY <2>1, <2>2 DEF SubInv
  <1>2. SubInv /\ [Next]_vars => SubInv'
    <2> SUFFICES ASSUME SubInv, [Next]_vars PROVE SubInv'
      OBVIOUS
    <2>1. TypeOK'
      BY NextTypeOK DEF SubInv
    <2> QED
      BY <2>1, AckStep, WireStep, MessageStep, QuietNext
  <1>3. SubInv => MessagesOnlyWhileSubscribed
    BY DEF SubInv
  <1> QED
    BY <1>1, <1>2, <1>3, PTL DEF Spec

-----------------------------------------------------------------------------
(* The counts *)

Counting == {"subscribe", "unsubscribe"}

\* The clients CountsMatchWire is about.
Tame(c) ==
  c \notin closed /\ \A i \in 1..nread[c] : RejectedInStream(reqs[c][i]) => BeforeStream(c, i)

\* The channels the client will believe to hold once it has the frame in hand.
AfterFrame(c, held) ==
  CASE writing[c].type = "subscribe" -> held \cup {writing[c].chn}
    [] writing[c].type = "unsubscribe" -> held \ writing[c].chns
    [] OTHER -> held

\* The server's receivers are the channels the client will believe to hold.
HoldsInv(c) ==
  phase[c] \notin {"exiting", "releasing", "gone"} =>
    /\ subs[c] = AfterFrame(c, Held(c, Len(sent[c])))
    /\ writing[c].type \in Counting => writing[c].n = Cardinality(subs[c])

CountsInv(c) ==
  \A i \in 1..Len(sent[c]) :
    sent[c][i].type \in Counting => sent[c][i].n = Cardinality(Held(c, i))

Matches(c) == Tame(c) => HoldsInv(c) /\ CountsInv(c)

LEMMA HeldUnchanged ==
  ASSUME NEW c, sent'[c] = sent[c]
  PROVE  /\ \A i : Held(c, i)' = Held(c, i)
         /\ CountsInv(c)' <=> CountsInv(c)
  <1>1. \A i : Held(c, i)' = Held(c, i)
    BY DEF Held
  <1> QED
    BY <1>1 DEF CountsInv

\* What was read stays read, so that a client that is tame was so before.
LEMMA TameBefore ==
  ASSUME AnswerInv, TypeOK', NEW c \in Conns, Tame(c)',
         c \in closed => c \in closed',
         nread'[c] \in {nread[c], nread[c] + 1},
         \/ reqs'[c] = reqs[c]
         \/ nread'[c] = nread[c] /\ \E r : reqs'[c] = Append(reqs[c], r)
  PROVE  Tame(c)
  <1>1. nread[c] \in Nat /\ nread[c] <= Len(reqs[c]) /\ reqs[c] \in Seq(AnyRequest)
    BY LocalType DEF AnswerInv, Answered, ReadInv
  <1>2. \A i \in 1..nread[c] : i \in 1..nread'[c] /\ reqs'[c][i] = reqs[c][i]
    BY <1>1
  <1>3. \A i \in 1..nread[c] : BeforeStream(c, i)' => BeforeStream(c, i)
    BY <1>1, <1>2 DEF BeforeStream
  <1> QED
    BY <1>2, <1>3 DEF Tame

\* Nothing that counts is written and no receiver comes or goes.
LEMMA SameReceivers ==
  ASSUME NEW c, Matches(c), Tame(c)' => Tame(c), sent'[c] = sent[c],
         phase'[c] \notin {"exiting", "releasing", "gone"} =>
           /\ phase[c] \notin {"exiting", "releasing", "gone"} /\ subs'[c] = subs[c]
           /\ \/ writing'[c] = writing[c]
              \/ writing[c] = NoFrame /\ writing'[c].type \notin Counting
  PROVE  Matches(c)'
  <1>1. ASSUME Tame(c)', phase'[c] \notin {"exiting", "releasing", "gone"}
        PROVE  HoldsInv(c)'
    <2>1. HoldsInv(c) /\ phase[c] \notin {"exiting", "releasing", "gone"} /\ subs'[c] = subs[c]
      BY <1>1 DEF Matches
    <2>2. CASE writing'[c] = writing[c]
      BY <2>1, <2>2, HeldUnchanged DEF HoldsInv, AfterFrame
    <2>3. CASE writing[c] = NoFrame /\ writing'[c].type \notin Counting
      BY <2>1, <2>3, HeldUnchanged DEF HoldsInv, AfterFrame, NoFrame, Counting
    <2> QED
      BY <1>1, <2>2, <2>3
  <1> QED
    BY <1>1, HeldUnchanged DEF Matches, HoldsInv

\* The task left its loops: what is on the wire stays.
LEMMA LeftLoops ==
  ASSUME NEW c, Matches(c), Tame(c)' => Tame(c), sent'[c] = sent[c],
         phase'[c] \in {"exiting", "releasing", "gone"}
  PROVE  Matches(c)'
  BY HeldUnchanged DEF Matches, HoldsInv

\* A confirmation or its opposite is written, with the receivers to match.
LEMMA CountedWrite ==
  ASSUME AnswerInv, NEW c \in Conns, Matches(c), Tame(c)' => Tame(c), sent'[c] = sent[c],
         phase[c] = "stream", writing[c] = NoFrame,
         writing'[c].n = Cardinality(subs'[c]),
         \/ writing'[c].type = "subscribe" /\ subs'[c] = subs[c] \cup {writing'[c].chn}
         \/ writing'[c].type = "unsubscribe" /\ subs'[c] = subs[c] \ writing'[c].chns
  PROVE  Matches(c)'
  <1>1. ASSUME Tame(c)' PROVE HoldsInv(c)' /\ CountsInv(c)'
    <2>1. subs[c] = Held(c, Len(sent[c])) /\ CountsInv(c)
      BY <1>1 DEF Matches, HoldsInv, AfterFrame, NoFrame
    <2>2. subs'[c] = AfterFrame(c, Held(c, Len(sent[c])))'
      BY <2>1, HeldUnchanged DEF AfterFrame
    <2> QED
      BY <2>1, <2>2, HeldUnchanged DEF HoldsInv
  <1> QED
    BY <1>1 DEF Matches

\* The frame in hand reaches the client, who then believes what it says.
LEMMA CountedFlush ==
  ASSUME AnswerInv, NEW c \in Conns, Matches(c), FlushFrame(c)
  PROVE  Matches(c)'
  <1> DEFINE n == Len(sent[c])
  <1>1. /\ n \in Nat /\ Len(sent'[c]) = n + 1
        /\ \A i \in 1..n : sent'[c][i] = sent[c][i]
        /\ sent'[c][n + 1] = writing[c] /\ writing[c] # NoFrame /\ writing'[c] = NoFrame
        /\ UNCHANGED <<phase, subs, reqs, nread, closed>>
    BY DEF FlushFrame, Write, clientVars, dbVars, AnswerInv, TypeOK
  <1>2. phase[c] \notin {"exiting", "releasing", "gone"} /\ (Tame(c)' => Tame(c))
    BY <1>1 DEF AnswerInv, Answered, ReadInv, Tame, BeforeStream
  <1>3. writing[c] \in Frame
    BY <1>1 DEF AnswerInv, TypeOK
  <1> HIDE DEF n
  <1>4. ASSUME NEW i \in 1..n PROVE Held(c, i)' = Held(c, i)
    <2>1. \A j \in 1..i : sent'[c][j] = sent[c][j]
      BY <1>1
    <2>2. \A j \in 1..i : \A k \in j..i : sent'[c][k] = sent[c][k]
      BY <1>1
    <2> QED
      BY <2>1, <2>2 DEF Held, Confirms, Ends
  <1>5. \A m : m = n + 1 => Held(c, m)' = AfterFrame(c, Held(c, n))
    <2> SUFFICES ASSUME NEW m, m = n + 1 PROVE Held(c, m)' = AfterFrame(c, Held(c, n))
      OBVIOUS
    <2>1. \A ch \in Chans :
            ch \in Held(c, m)' <=>
              \/ Confirms(writing[c], ch) /\ ~Ends(writing[c], ch)
              \/ ~Ends(writing[c], ch) /\ ch \in Held(c, n)
      <3> TAKE ch \in Chans
      <3>1. ch \in Held(c, m)' <=>
              \E k \in 1..(n + 1) : Confirms(sent'[c][k], ch)
                                      /\ \A l \in k..(n + 1) : ~Ends(sent'[c][l], ch)
        BY DEF Held
      <3>2. ch \in Held(c, n) <=>
              \E k \in 1..n : Confirms(sent[c][k], ch) /\ \A l \in k..n : ~Ends(sent[c][l], ch)
        BY DEF Held
      <3>3. ASSUME NEW k \in 1..n
            PROVE  (Confirms(sent'[c][k], ch) /\ \A l \in k..(n + 1) : ~Ends(sent'[c][l], ch))
                   <=> /\ ~Ends(writing[c], ch)
                       /\ Confirms(sent[c][k], ch) /\ \A l \in k..n : ~Ends(sent[c][l], ch)
        BY <1>1, <3>3
      <3>4. (Confirms(sent'[c][n + 1], ch) /\ \A l \in (n + 1)..(n + 1) : ~Ends(sent'[c][l], ch))
            <=> Confirms(writing[c], ch) /\ ~Ends(writing[c], ch)
        BY <1>1
      <3>5. \A k \in 1..(n + 1) : k \in 1..n \/ k = n + 1
        BY <1>1
      <3>6. \A k \in 1..n : k \in 1..(n + 1)
        BY <1>1
      <3>7. n + 1 \in 1..(n + 1)
        BY <1>1
      <3> QED
        BY <3>1, <3>2, <3>3, <3>4, <3>5, <3>6, <3>7
    <2>2. Held(c, m)' \subseteq Chans /\ Held(c, n) \subseteq Chans
      BY DEF Held
    <2>3. CASE writing[c].type = "subscribe"
      <3>1. writing[c].chn \in Chans
        BY <1>3, <2>3 DEF Frame
      <3>2. AfterFrame(c, Held(c, n)) = Held(c, n) \cup {writing[c].chn}
        BY <2>3 DEF AfterFrame
      <3>3. \A ch \in Chans : ~Ends(writing[c], ch) /\ (Confirms(writing[c], ch) <=> ch = writing[c].chn)
        BY <2>3 DEF Ends, Confirms
      <3> QED
        BY <2>1, <2>2, <3>1, <3>2, <3>3
    <2>4. CASE writing[c].type = "unsubscribe"
      <3>1. AfterFrame(c, Held(c, n)) = Held(c, n) \ writing[c].chns
        BY <2>4 DEF AfterFrame
      <3>2. \A ch \in Chans : ~Confirms(writing[c], ch) /\ (Ends(writing[c], ch) <=> ch \in writing[c].chns)
        BY <2>4 DEF Ends, Confirms
      <3> QED
        BY <2>1, <2>2, <3>1, <3>2
    <2>5. CASE writing[c].type \notin Counting
      <3>1. AfterFrame(c, Held(c, n)) = Held(c, n)
        BY <2>5 DEF AfterFrame, Counting
      <3>2. \A ch \in Chans : ~Confirms(writing[c], ch) /\ ~Ends(writing[c], ch)
        BY <2>5 DEF Ends, Confirms, Counting
      <3> QED
        BY <2>1, <2>2, <3>1, <3>2
    <2> QED
      BY <2>3, <2>4, <2>5 DEF Counting
  <1>6. ASSUME Tame(c)' PROVE HoldsInv(c)' /\ CountsInv(c)'
    <2>1. /\ subs[c] = AfterFrame(c, Held(c, n)) /\ CountsInv(c)
          /\ writing[c].type \in Counting => writing[c].n = Cardinality(subs[c])
      BY <1>2, <1>6 DEF Matches, HoldsInv, n
    <2>2. \A m : m = n + 1 => Held(c, m)' = subs[c]
      BY <1>5, <2>1
    <2>3. subs'[c] = Held(c, Len(sent[c]))'
      BY <1>1, <2>2
    <2>4. HoldsInv(c)'
      BY <1>1, <2>3 DEF HoldsInv, AfterFrame, NoFrame, Counting
    <2>5. ASSUME NEW i \in 1..(n + 1), sent'[c][i].type \in Counting
          PROVE  sent'[c][i].n = Cardinality(Held(c, i)')
      <3>1. CASE i \in 1..n
        BY <1>1, <1>4, <2>1, <2>5, <3>1 DEF CountsInv, n
      <3>2. CASE i = n + 1
        BY <1>1, <2>1, <2>2, <2>5, <3>2
      <3> QED
        BY <1>1, <3>1, <3>2
    <2>6. CountsInv(c)'
      BY <1>1, <2>5 DEF CountsInv
    <2> QED
      BY <2>4, <2>6
  <1> QED
    BY <1>6 DEF Matches

LEMMA ConnectionStep ==
  ASSUME AnswerInv, TypeOK', NEW c \in Conns, Matches(c), Accept(c) \/ Task(c) \/ Client(c)
  PROVE  Matches(c)'
  <1>0. /\ subs \in [Conns -> SUBSET Chans] /\ phase \in [Conns -> Phases]
        /\ writing \in [Conns -> Frame \cup {NoFrame}] /\ nread \in [Conns -> Nat]
        /\ reqs \in [Conns -> Seq(AnyRequest)]
    BY DEF AnswerInv, TypeOK, DbTypeOK
  <1>1. CASE Serve(c)
    <2>1. /\ writing[c] = NoFrame /\ phase[c] = "idle"
          /\ UNCHANGED <<reqs, sent, closed, subs>>
          /\ nread' = [nread EXCEPT ![c] = @ + 1]
          /\ \/ writing' = writing
             \/ \E frm : Write(c, frm) /\ frm.type \in {"value", "ok", "int", "error"}
      BY <1>1 DEF Serve, ServeGet, ServeSet, ServePublish, PublishReply, ServeUnknown, ServeSubscribe,
         Reject, Selecting, Consume, clientVars, taskVars, dbVars, DbSet, DbPublish
    <2>2. Tame(c)' => Tame(c)
      BY <1>0, <2>1, TameBefore
    <2>3. writing'[c] = writing[c] \/ writing'[c].type \notin Counting
      BY <1>0, <2>1 DEF Write, Counting
    <2> QED
      BY <2>1, <2>2, <2>3, SameReceivers
  <1>2. CASE StreamSubscribe(c) \/ StreamUnsubscribe(c) \/ StreamRefuse(c) \/ StreamReject(c)
    <2>1. /\ writing[c] = NoFrame /\ phase[c] = "stream" /\ Ready(c)
          /\ UNCHANGED <<reqs, sent, closed>>
          /\ nread' = [nread EXCEPT ![c] = @ + 1]
      BY <1>2 DEF StreamSubscribe, StreamUnsubscribe, StreamRefuse, StreamReject, Selecting, Consume,
         clientVars, taskVars
    <2>2. Tame(c)' => Tame(c)
      BY <1>0, <2>1, TameBefore
    <2>3. CASE StreamSubscribe(c)
      BY <2>1, <2>2, <2>3, SameReceivers DEF StreamSubscribe, dbVars
    <2>4. CASE StreamRefuse(c)
      <3>1. UNCHANGED <<phase, subs>> /\ writing'[c].type = "error"
        BY <1>0, <2>4 DEF StreamRefuse, Write, dbVars
      <3> QED
        BY <2>1, <2>2, <3>1, SameReceivers DEF Counting
    <2>5. CASE StreamReject(c)
      <3>1. ~Tame(c)'
        <4>1. /\ RejectedInStream(Request(c)) /\ nread'[c] = nread[c] + 1
              /\ nread[c] + 1 \in 1..nread'[c]
          BY <1>0, <2>1, <2>5 DEF StreamReject
        <4>2. ~BeforeStream(c, nread[c])
          BY <2>1 DEF AnswerInv, Answered, ReadInv
        <4>3. ~BeforeStream(c, nread[c] + 1)
          <5>1. PICK j \in 1..nread[c] : reqs[c][j].cmd = "subscribe"
            BY <4>2 DEF BeforeStream
          <5>2. nread[c] \in Int
            BY <1>0
          <5>3. j \in 1..(nread[c] + 1)
            BY <5>1, <5>2
          <5> QED
            BY <5>1, <5>3, Zenon DEF BeforeStream
        <4> QED
          BY <2>1, <4>1, <4>3 DEF Tame, Request, BeforeStream
      <3> QED
        BY <3>1 DEF Matches
    <2>6. CASE StreamUnsubscribe(c)
      <3> DEFINE chns == IF Request(c).chns = <<>> THEN subs[c] ELSE Elems(Request(c).chns)
      <3>1. /\ subs'[c] = subs[c] \ chns
            /\ writing'[c] = [type |-> "unsubscribe", chns |-> chns,
                              n |-> Cardinality(subs[c] \ chns)]
        BY <1>0, <2>6 DEF StreamUnsubscribe, DropReceivers, Write
      <3> HIDE DEF chns
      <3>2. /\ writing'[c].type = "unsubscribe" /\ subs'[c] = subs[c] \ writing'[c].chns
            /\ writing'[c].n = Cardinality(subs'[c])
        BY <3>1
      <3> QED
        BY <2>1, <2>2, <3>2, CountedWrite
    <2> QED
      BY <1>2, <2>3, <2>4, <2>5, <2>6
  <1>3. CASE AckSubscription(c)
    <2> DEFINE new == Head(todo[c])
    <2>1. /\ phase[c] = "stream" /\ writing[c] = NoFrame
          /\ UNCHANGED <<sent, reqs, nread, closed>>
          /\ subs'[c] = subs[c] \cup {new}
          /\ writing'[c] = [type |-> "subscribe", chn |-> new,
                            n |-> Cardinality(subs[c] \cup {new})]
      BY <1>0, <1>3 DEF AckSubscription, Write, DbSubscribe, clientVars, dbVars
    <2> HIDE DEF new
    <2>2. Tame(c)' => Tame(c)
      BY <2>1 DEF Tame, BeforeStream
    <2>3. /\ writing'[c].type = "subscribe" /\ subs'[c] = subs[c] \cup {writing'[c].chn}
          /\ writing'[c].n = Cardinality(subs'[c])
      BY <2>1
    <2> QED
      BY <2>1, <2>2, <2>3, CountedWrite
  <1>4. CASE \E ch \in Chans : Deliver(c, ch)
    <2>1. /\ writing[c] = NoFrame /\ UNCHANGED <<phase, subs, sent, reqs, nread, closed>>
          /\ writing'[c].type = "message"
      BY <1>0, <1>4 DEF Deliver, Selecting, Poll, Write, clientVars
    <2>2. Tame(c)' => Tame(c)
      BY <2>1 DEF Tame, BeforeStream
    <2> QED
      BY <2>1, <2>2, SameReceivers DEF Counting
  <1>5. CASE FlushFrame(c)
    BY <1>5, CountedFlush
  <1>6. CASE WriteFails(c) \/ SeeEndOfStream(c) \/ Close(c)
    <2>1. c \in closed'
      BY <1>6 DEF WriteFails, SeeEndOfStream, Close, clientVars
    <2> QED
      BY <2>1 DEF Matches, Tame
  <1>7. CASE SeeShutdown(c) \/ DropStore(c) \/ Finish(c)
    <2>1. /\ phase'[c] \in {"exiting", "releasing", "gone"}
          /\ UNCHANGED <<sent, reqs, nread, closed>>
      BY <1>0, <1>7 DEF SeeShutdown, DropStore, Finish, taskVars, clientVars
    <2>2. Tame(c)' => Tame(c)
      BY <2>1 DEF Tame, BeforeStream
    <2> QED
      BY <2>1, <2>2, LeftLoops
  <1>8. CASE Accept(c) \/ Connect(c) \/ Send(c)
    <2>1. /\ UNCHANGED <<nread, sent, writing, closed, subs>>
          /\ phase[c] \notin {"exiting", "releasing", "gone"} \/ phase'[c] = phase[c]
          /\ reqs' = reqs \/ \E r : reqs' = [reqs EXCEPT ![c] = Append(@, r)]
      BY <1>8 DEF Accept, CloneHandle, Connect, Send, clientVars, taskVars, dbVars
    <2>2. reqs'[c] = reqs[c] \/ \E r : reqs'[c] = Append(reqs[c], r)
      BY <1>0, <2>1
    <2>3. Tame(c)' => Tame(c)
      BY <2>1, <2>2, TameBefore
    <2> QED
      BY <2>1, <2>3, SameReceivers
  <1> QED
    BY <1>1, <1>2, <1>3, <1>4, <1>5, <1>6, <1>7, <1>8 DEF Task, Stream, Client

\* A step of one connection leaves the others' receivers alone.
LEMMA OtherReceivers ==
  ASSUME AnswerInv, NEW c \in Conns, Accept(c) \/ Task(c) \/ Client(c), NEW d \in Conns, d # c
  PROVE  subs'[d] = subs[d]
  <1> USE DEF DropReceivers, DbSubscribe, dbVars, AnswerInv, TypeOK, DbTypeOK
  <1>1. CASE Serve(c)
    BY <1>1 DEF Serve, ServeGet, ServeSet, DbSet, ServePublish, DbPublish, ServeUnknown,
       ServeSubscribe, Reject
  <1>2. CASE Stream(c)
    BY <1>2 DEF Stream, AckSubscription, Deliver, Poll, StreamSubscribe, StreamUnsubscribe,
       StreamRefuse, StreamReject, LeaveStream
  <1>3. CASE \/ FlushFrame(c) \/ WriteFails(c) \/ SeeEndOfStream(c) \/ SeeShutdown(c)
             \/ DropStore(c) \/ Finish(c)
    BY <1>3 DEF FlushFrame, WriteFails, SeeEndOfStream, SeeShutdown, DropStore, Finish, LeaveStream,
       DropHandle, ReleaseHandle
  <1>4. CASE Accept(c) \/ Client(c)
    BY <1>4 DEF Accept, CloneHandle, Client, Connect, Send, Close
  <1> QED
    BY <1>1, <1>2, <1>3, <1>4 DEF Task

\* The count in a confirmation is the number of distinct channels the client
\* holds (CountsMatchWire; the comment at clients/client.rs:107-114).
THEOREM CountsAreRight == Spec => []CountsMatchWire
  <1> DEFINE All == \A c \in Conns : Matches(c)
  <1>1. Init => All
    <2> SUFFICES ASSUME Init, NEW c \in Conns PROVE Matches(c)
      OBVIOUS
    <2>1. Len(sent[c]) = 0 /\ writing[c] = NoFrame /\ subs[c] = {}
      BY DEF Init, DbInit
    <2>2. Held(c, 0) = {}
      BY DEF Held
    <2> QED
      BY <2>1, <2>2 DEF Matches, HoldsInv, CountsInv, AfterFrame, NoFrame, Counting
  <1>2. AnswerInv /\ AnswerInv' /\ All /\ [Next]_vars => All'
    <2> SUFFICES ASSUME AnswerInv, AnswerInv', All, [Next]_vars, NEW d \in Conns
                 PROVE  Matches(d)'
      OBVIOUS
    <2>1. TypeOK'
      BY DEF AnswerInv
    <2>2. ASSUME NEW c \in Conns, Accept(c) \/ Task(c) \/ Client(c)
          PROVE  Matches(d)'
      <3>1. CASE d = c
        BY <2>1, <2>2, <3>1, ConnectionStep
      <3>2. CASE d # c
        <4>1. /\ reqs'[d] = reqs[d] /\ nread'[d] = nread[d] /\ sent'[d] = sent[d]
              /\ writing'[d] = writing[d] /\ phase'[d] = phase[d] /\ subs'[d] = subs[d]
              /\ d \in closed => d \in closed'
          BY <2>2, <3>2, Elsewhere, OtherReceivers
        <4>2. Tame(d)' => Tame(d)
          BY <4>1 DEF Tame, BeforeStream
        <4> QED
          BY <4>1, <4>2, SameReceivers
      <3> QED
        BY <3>1, <3>2
    <2>3. ASSUME AcquirePermit \/ EndMain \/ CtrlC \/ NotifyShutdown \/ UNCHANGED vars
          PROVE  Matches(d)'
      <3>1. /\ UNCHANGED <<reqs, nread, sent, writing, closed, subs>>
            /\ phase'[d] = phase[d] \/ phase'[d] = "gone"
        BY <2>3 DEF AcquirePermit, EndMain, CtrlC, NotifyShutdown, DropHandle, ReleaseHandle, vars,
           clientVars, taskVars, dbVars, AnswerInv, TypeOK
      <3>2. Tame(d)' => Tame(d)
        BY <3>1 DEF Tame, BeforeStream
      <3> QED
        BY <3>1, <3>2, SameReceivers
    <2> QED
      BY <2>2, <2>3 DEF Next
  <1>3. All => CountsMatchWire
    BY DEF Matches, Tame, CountsInv, CountsMatchWire, Counting
  <1> HIDE DEF All
  <1> QED
    BY <1>1, <1>2, <1>3, AnswerInvariant, PTL DEF Spec
=============================================================================
