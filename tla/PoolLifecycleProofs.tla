------------------------ MODULE PoolLifecycleProofs ------------------------
(***************************************************************************)
(* Proofs about PoolLifecycle, for any number of connections, any capacity *)
(* of the broadcast channel and either template provider.                  *)
(***************************************************************************)
EXTENDS PoolLifecycle, TLAPS

\* The three parts are inductive together: a notice is only written by the
\* step that ends the session, and the manager only removes what a notice names.
IInv == TypeOK /\ OneNoticePerConnection /\ LiveSessionIsKnown

\* The tasks are different from each other.
LEMMA Tasks ==
  /\ CM \in Task /\ Server \in Task /\ Tp \in Task
  /\ CM # Server /\ CM # Tp /\ Server # Tp
  /\ \A d \in Downstream :
       /\ Reader(d) \in Task /\ Writer(d) \in Task /\ Session(d) \in Task
       /\ CM # Reader(d) /\ CM # Writer(d) /\ CM # Session(d)
       /\ Server # Reader(d) /\ Server # Writer(d) /\ Server # Session(d)
       /\ Tp # Reader(d) /\ Tp # Writer(d) /\ Tp # Session(d)
  /\ \A d, e \in Downstream :
       /\ Reader(d) # Session(e) /\ Writer(d) # Session(e) /\ Reader(d) # Writer(e)
       /\ Session(d) = Session(e) => d = e
BY DEF CM, Server, Tp, Reader, Writer, Session, Task

\* So are the messages.
LEMMA Messages ==
  /\ ShutdownAll \in Notice /\ EarlierShutdown \in Notice /\ EarlierShutdown # ShutdownAll
  /\ TemplateReceiverShutdown \in Status /\ ChannelManagerShutdown \in Status
  /\ \A d \in Downstream :
       /\ DownstreamShutdown(d) \in Notice /\ DownstreamShutdown(d) \in Status
       /\ DownstreamShutdown(d) # ShutdownAll /\ DownstreamShutdown(d) # EarlierShutdown
       /\ DownstreamShutdown(d) # TemplateReceiverShutdown
       /\ DownstreamShutdown(d) # ChannelManagerShutdown
  /\ \A d, e \in Downstream : DownstreamShutdown(d) = DownstreamShutdown(e) => d = e
BY NoneAssumption
   DEF ShutdownAll, EarlierShutdown, DownstreamShutdown, TemplateReceiverShutdown,
       ChannelManagerShutdown, Notice, Status

-----------------------------------------------------------------------------
(* What a queue's growth and shrinking does to the notices in it. *)

\* A notice at the end of the queue is the only one that is new.
LEMMA NoticesOfAppend ==
  ASSUME NEW S, NEW queue \in Seq(S), NEW message \in S, NEW d
  PROVE  /\ message # DownstreamShutdown(d) =>
              Notices(Append(queue, message), d) = Notices(queue, d)
         /\ message = DownstreamShutdown(d) =>
              Notices(Append(queue, message), d) = Notices(queue, d) \cup {Len(queue) + 1}
<1>1. /\ Append(queue, message) \in Seq(S)
      /\ DOMAIN Append(queue, message) = 1..(Len(queue) + 1)
      /\ \A i \in 1..Len(queue) : Append(queue, message)[i] = queue[i]
      /\ Append(queue, message)[Len(queue) + 1] = message
  OBVIOUS
<1>2. DOMAIN queue = 1..Len(queue) /\ Len(queue) \in Nat
  OBVIOUS
<1> QED
  BY <1>1, <1>2 DEF Notices

\* Taking the first message moves every other notice one place forward.
LEMMA NoticesOfTail ==
  ASSUME NEW S, NEW queue \in Seq(S), queue # <<>>, NEW d
  PROVE  Notices(Tail(queue), d) = {i \in 1..(Len(queue) - 1) : i + 1 \in Notices(queue, d)}
<1>1. /\ DOMAIN Tail(queue) = 1..(Len(queue) - 1)
      /\ \A i \in 1..(Len(queue) - 1) : Tail(queue)[i] = queue[i + 1]
      /\ DOMAIN queue = 1..Len(queue) /\ Len(queue) \in Nat
  OBVIOUS
<1> QED
  BY <1>1 DEF Notices

-----------------------------------------------------------------------------
(* The kinds of steps, as far as sessions and notices are concerned. *)

\* No message is sent or taken, and a session only goes on, or ends.
LEMMA QuietStep ==
  ASSUME IInv, UNCHANGED <<status, notify_shutdown, downstream>>,
         \A d \in Downstream :
           \/ task'[Session(d)] \in {task[Session(d)], "ended"}
           \/ task[Session(d)] = "setup" /\ task'[Session(d)] = "running"
  PROVE  OneNoticePerConnection' /\ LiveSessionIsKnown'
BY DEF IInv, OneNoticePerConnection, Notices, LiveSessionIsKnown, Live

\* A status that concerns no connection is reported, or ShutdownAll broadcast
\* and the status queue left.
LEMMA ReportStep ==
  ASSUME IInv, UNCHANGED downstream,
         \A d \in Downstream : task'[Session(d)] = task[Session(d)],
         \A d \in Downstream : Notices(status', d) \in {Notices(status, d), {}},
         \A d \in Downstream : Notices(notify_shutdown', d) = Notices(notify_shutdown, d)
  PROVE  OneNoticePerConnection' /\ LiveSessionIsKnown'
BY DEF IInv, OneNoticePerConnection, LiveSessionIsKnown, Live

\* A live session fails: it ends, and that is reported.
LEMMA FailStep ==
  ASSUME IInv, NEW d \in Downstream, Live(Session(d)),
         task'[Session(d)] = "ended",
         \A e \in Downstream \ {d} : task'[Session(e)] = task[Session(e)],
         Report(DownstreamShutdown(d)), UNCHANGED <<notify_shutdown, downstream>>
  PROVE  OneNoticePerConnection' /\ LiveSessionIsKnown'
<1>0. CASE main # "loop"
  BY <1>0, QuietStep DEF Report
<1> SUFFICES ASSUME main = "loop" PROVE OneNoticePerConnection' /\ LiveSessionIsKnown'
  BY <1>0
<1>1. status \in Seq(Status)
  BY DEF IInv, TypeOK
<1>2. Notices(status, d) = {} /\ Notices(notify_shutdown, d) = {}
  BY DEF IInv, OneNoticePerConnection, Live
<1>3. Notices(status', d) = {Len(status) + 1}
  BY <1>1, <1>2, Messages, NoticesOfAppend DEF Report
<1>4. \A e \in Downstream \ {d} : Notices(status', e) = Notices(status, e)
  BY <1>1, Messages, NoticesOfAppend DEF Report
<1>5. \A e \in Downstream : Notices(notify_shutdown', e) = Notices(notify_shutdown, e)
  OBVIOUS
<1>6. OneNoticePerConnection'
  <2> SUFFICES ASSUME NEW e \in Downstream
               PROVE  /\ \A i, j \in Notices(status', e) : i = j
                      /\ \A i, j \in Notices(notify_shutdown', e) : i = j
                      /\ Notices(status', e) = {} \/ Notices(notify_shutdown', e) = {}
                      /\ Notices(status', e) \cup Notices(notify_shutdown', e) # {}
                           => task'[Session(e)] = "ended"
    BY DEF OneNoticePerConnection
  <2>1. CASE e = d
    BY <2>1, <1>2, <1>3, <1>5
  <2>2. CASE e # d
    BY <2>2, <1>4, <1>5 DEF IInv, OneNoticePerConnection
  <2> QED
    BY <2>1, <2>2
<1>7. LiveSessionIsKnown'
  BY DEF IInv, LiveSessionIsKnown, Live
<1> QED
  BY <1>6, <1>7

-----------------------------------------------------------------------------
(* How the helpers of the actions keep the types. *)

\* A task that ends leaves the others where they were.
LEMMA EndsType ==
  ASSUME TypeOK, NEW r \in Task, Ends(r), UNCHANGED notify_shutdown
  PROVE  /\ task' \in [Task -> TaskState]
         /\ position' \in [Task -> 0..Len(notify_shutdown')]
         /\ task'[r] = "ended"
         /\ \A s \in Task \ {r} : task'[s] = task[s]
BY DEF TypeOK, Ends, Becomes, TaskState

\* So does a task that takes a notice, and its position stays in the channel.
LEMMA NoticeType ==
  ASSUME TypeOK, NEW r \in Task, NEW breaks, TakesNotice(r, breaks), UNCHANGED notify_shutdown
  PROVE  /\ task' \in [Task -> TaskState]
         /\ position' \in [Task -> 0..Len(notify_shutdown')]
         /\ task'[r] \in {task[r], "ended"}
         /\ \A s \in Task \ {r} : task'[s] = task[s]
<1>1. CASE Ends(r)
  BY <1>1, EndsType
<1>2. CASE Passed(r) /\ UNCHANGED task
  <2>1. position[r] \in Nat /\ Len(notify_shutdown) \in Nat
        /\ position[r] < Len(notify_shutdown) /\ NotifyCapacity \in Nat
    BY CapacityAssumption DEF TypeOK, TakesNotice, Unread
  <2>2. (IF Lagged(r) THEN Len(notify_shutdown) - NotifyCapacity ELSE position[r] + 1)
          \in 0..Len(notify_shutdown)
    BY <2>1 DEF Lagged, Unread
  <2>3. position' \in [Task -> 0..Len(notify_shutdown')]
    BY <1>2, <2>2 DEF TypeOK, Passed
  <2> QED
    BY <1>2, <2>3 DEF TypeOK
<1> QED
  BY <1>1, <1>2 DEF TakesNotice

\* The manager, the server and the Sv2Tp task may be left behind instead.
LEMMA ComponentNoticeType ==
  ASSUME TypeOK, NEW r \in Task, ComponentNotice(r), UNCHANGED notify_shutdown
  PROVE  /\ task' \in [Task -> TaskState]
         /\ position' \in [Task -> 0..Len(notify_shutdown')]
         /\ task'[r] \in {task[r], "ended", "lagged"}
         /\ \A s \in Task \ {r} : task'[s] = task[s]
<1>1. CASE TakesNotice(r, Hears(r, {ShutdownAll}))
  BY <1>1, NoticeType
<1>2. CASE Becomes(r, "lagged") /\ position' = [position EXCEPT ![r] = 0]
  <2>1. 0 \in 0..Len(notify_shutdown)
    BY DEF TypeOK
  <2> QED
    BY <1>2, <2>1 DEF TypeOK, Becomes, TaskState
<1> QED
  BY <1>1, <1>2 DEF ComponentNotice

\* A report keeps the status queue's type.
LEMMA ReportType ==
  ASSUME TypeOK, NEW s \in Status, Report(s)
  PROVE  status' \in Seq(Status)
BY DEF TypeOK, Report

\* What of the type invariant only depends on what most actions leave alone.
LEMMA RestType ==
  ASSUME TypeOK, UNCHANGED <<main, notify_shutdown, downstream, linkVars, tpVars, handleVars>>,
         status' \in Seq(Status), task' \in [Task -> TaskState],
         position' \in [Task -> 0..Len(notify_shutdown')]
  PROVE  TypeOK'
BY DEF TypeOK, linkVars, tpVars, handleVars

\* A connection's queues, of which a step changes the counts of one connection.
LinkTypes ==
  /\ frames \in 0..MaxFrames
  /\ inbound \in [Downstream -> 0..MaxFrames]
  /\ mining_queue \in [Downstream -> 0..MaxFrames]
  /\ \A d \in Downstream : inbound[d] + mining_queue[d] <= frames

\* A step that changes the counts of d alone, to i and q, keeps their types.
LEMMA LinkStep ==
  ASSUME TypeOK, NEW d \in Downstream,
         NEW i \in 0..MaxFrames, NEW q \in 0..MaxFrames,
         frames' = frames \/ frames' \in frames..MaxFrames, i + q <= frames',
         inbound' = [inbound EXCEPT ![d] = i] \/ (i = inbound[d] /\ UNCHANGED inbound),
         mining_queue' = [mining_queue EXCEPT ![d] = q]
           \/ (q = mining_queue[d] /\ UNCHANGED mining_queue)
  PROVE  LinkTypes'
<1>1. frames \in Nat /\ frames' \in 0..MaxFrames /\ frames <= frames'
  BY FramesAssumption DEF TypeOK
<1>2. /\ inbound' \in [Downstream -> 0..MaxFrames] /\ inbound'[d] = i
      /\ \A e \in Downstream \ {d} : inbound'[e] = inbound[e]
  BY DEF TypeOK
<1>3. /\ mining_queue' \in [Downstream -> 0..MaxFrames] /\ mining_queue'[d] = q
      /\ \A e \in Downstream \ {d} : mining_queue'[e] = mining_queue[e]
  BY DEF TypeOK
<1>4. \A e \in Downstream : inbound'[e] + mining_queue'[e] <= frames'
  <2> SUFFICES ASSUME NEW e \in Downstream
               PROVE  inbound'[e] + mining_queue'[e] <= frames'
    OBVIOUS
  <2>1. CASE e = d
    BY <2>1, <1>1, <1>2, <1>3
  <2>2. CASE e # d
    BY <2>2, <1>1, <1>2, <1>3 DEF TypeOK
  <2> QED
    BY <2>1, <2>2
<1> QED
  BY <1>1, <1>2, <1>3, <1>4 DEF LinkTypes

\* What is in a connection's queues, as numbers.
LEMMA Counts ==
  ASSUME TypeOK, NEW d \in Downstream
  PROVE  /\ MaxFrames \in Nat
         /\ frames \in 0..MaxFrames /\ inbound[d] \in 0..MaxFrames
         /\ mining_queue[d] \in 0..MaxFrames
         /\ inbound[d] + mining_queue[d] <= frames
BY FramesAssumption DEF TypeOK

-----------------------------------------------------------------------------
\* The invariant holds when the tasks have been spawned.
THEOREM InitInv == Init => IInv
<1> SUFFICES ASSUME Init PROVE IInv
  OBVIOUS
<1>1. TypeOK
  <2>1. task \in [Task -> TaskState]
    BY Zenon DEF Init, TaskState
  <2>2. status \in Seq(Status) /\ notify_shutdown \in Seq(Notice)
    BY EarlierAssumption, Messages DEF Init
  <2>3. position \in [Task -> 0..Len(notify_shutdown)]
    <3>1. Len(notify_shutdown) \in 0..Len(notify_shutdown) /\ 0 \in 0..Len(notify_shutdown)
      BY <2>2
    <3> QED
      BY <3>1 DEF Init
  <2>4. /\ frames \in 0..MaxFrames /\ inbound \in [Downstream -> 0..MaxFrames]
        /\ mining_queue \in [Downstream -> 0..MaxFrames]
        /\ \A d \in Downstream : inbound[d] + mining_queue[d] <= frames
    BY FramesAssumption DEF Init
  <2>5. core \in {"none", "connecting", "running", "ended"}
    BY DEF Init
  <2>6. /\ main \in {"loop", "joining", "aborted", "joining_all", "stopped"}
        /\ downstream \subseteq Downstream /\ token \in BOOLEAN
        /\ late \subseteq Task /\ joined \subseteq Task
    BY DEF Init
  <2> QED
    BY <2>1, <2>2, <2>3, <2>4, <2>5, <2>6 DEF TypeOK
<1>2. OneNoticePerConnection
  <2>1. \A d \in Downstream : Notices(status, d) = {} /\ Notices(notify_shutdown, d) = {}
    <3>1. DOMAIN status = {}
      BY DEF Init
    <3>2. \A i \in DOMAIN notify_shutdown : notify_shutdown[i] = EarlierShutdown
      BY EarlierAssumption DEF Init
    <3> QED
      BY <3>1, <3>2, Messages DEF Notices
  <2> QED
    BY <2>1 DEF OneNoticePerConnection
<1>3. LiveSessionIsKnown
  BY Tasks DEF Init, LiveSessionIsKnown, Live
<1> QED
  BY <1>1, <1>2, <1>3 DEF IInv

-----------------------------------------------------------------------------
(* The steps of one connection. *)

\* Every step of a connection's reader, writer and Downstream task, of its
\* setup by the server and of its messages to the manager keeps the invariant.
THEOREM ConnectionInv ==
  ASSUME IInv, NEW d \in Downstream, ConnectionStep(d)
  PROVE  IInv'
<1> USE Tasks
<1>0. TypeOK /\ status \in Seq(Status)
  BY DEF IInv, TypeOK
<1>1. CASE ReaderFrame(d)
  <2>1. CASE Ends(Reader(d)) /\ UNCHANGED <<frames, inbound>>
    <3>1. TypeOK'
      BY <1>0, <1>1, <2>1, EndsType, RestType DEF ReaderFrame, linkVars
    <3> QED
      BY <1>0, <1>1, <2>1, <3>1, EndsType, QuietStep DEF ReaderFrame, IInv
  <2>2. CASE UNCHANGED <<task, position>> /\ frames < MaxFrames
             /\ frames' = frames + 1
             /\ inbound' = [inbound EXCEPT ![d] = @ + 1]
    <3>1. /\ frames + 1 \in frames..MaxFrames /\ inbound[d] + 1 \in 0..MaxFrames
          /\ mining_queue[d] \in 0..MaxFrames
          /\ (inbound[d] + 1) + mining_queue[d] <= frames + 1
      BY <1>0, <2>2, Counts
    <3>2. UNCHANGED <<main, status, notify_shutdown, downstream, mining_queue, tpVars, handleVars>>
      BY <1>1 DEF ReaderFrame
    <3>3. LinkTypes'
      BY <1>0, <2>2, <3>1, <3>2, LinkStep
    <3>4. TypeOK'
      BY <1>0, <2>2, <3>2, <3>3 DEF LinkTypes, TypeOK, tpVars, handleVars
    <3> QED
      BY <2>2, <3>2, <3>4, QuietStep DEF IInv
  <2> QED
    BY <1>1, <2>1, <2>2 DEF ReaderFrame
<1>2. CASE ReaderFails(d)
  <2>1. TypeOK'
    BY <1>0, <1>2, EndsType, RestType DEF ReaderFails
  <2> QED
    BY <1>0, <1>2, <2>1, EndsType, QuietStep DEF ReaderFails, IInv
<1>3. CASE ReaderNotice(d)
  <2>1. TypeOK'
    BY <1>0, <1>3, NoticeType, RestType DEF ReaderNotice
  <2> QED
    BY <1>0, <1>3, <2>1, NoticeType, QuietStep DEF ReaderNotice, IInv
<1>4. CASE WriterFrame(d)
  <2>1. TypeOK'
    BY <1>0, <1>4, RestType DEF WriterFrame, Becomes, TypeOK, TaskState
  <2> QED
    BY <1>0, <1>4, <2>1, QuietStep DEF WriterFrame, Becomes, IInv, TypeOK
<1>5. CASE WriterWritten(d)
  <2>1. CASE Becomes(Writer(d), "running") /\ UNCHANGED position
    <3>1. TypeOK'
      BY <1>0, <1>5, <2>1, RestType DEF WriterWritten, Becomes, TypeOK, TaskState
    <3> QED
      BY <1>0, <1>5, <2>1, <3>1, QuietStep DEF WriterWritten, Becomes, IInv, TypeOK
  <2>2. CASE Ends(Writer(d))
    <3>1. TypeOK'
      BY <1>0, <1>5, <2>2, EndsType, RestType DEF WriterWritten
    <3> QED
      BY <1>0, <1>5, <2>2, <3>1, EndsType, QuietStep DEF WriterWritten, IInv
  <2> QED
    BY <1>5, <2>1, <2>2 DEF WriterWritten
<1>6. CASE WriterClosed(d)
  <2>1. TypeOK'
    BY <1>0, <1>6, EndsType, RestType DEF WriterClosed
  <2> QED
    BY <1>0, <1>6, <2>1, EndsType, QuietStep DEF WriterClosed, IInv
<1>7. CASE WriterNotice(d)
  <2>1. TypeOK'
    BY <1>0, <1>7, NoticeType, RestType DEF WriterNotice
  <2> QED
    BY <1>0, <1>7, <2>1, NoticeType, QuietStep DEF WriterNotice, IInv
<1>8. CASE SessionFrame(d)
  <2>1. /\ inbound' = [inbound EXCEPT ![d] = @ - 1] /\ inbound[d] > 0
        /\ UNCHANGED <<main, notify_shutdown, downstream, frames, tpVars, handleVars>>
        /\ task[Session(d)] = "running"
    BY <1>8 DEF SessionFrame
  <2>2. CASE /\ mining_queue' = [mining_queue EXCEPT ![d] = @ + 1]
             /\ UNCHANGED <<task, position, status>>
    <3>1. /\ frames \in 0..MaxFrames /\ inbound[d] - 1 \in 0..MaxFrames
          /\ mining_queue[d] + 1 \in 0..MaxFrames
          /\ (inbound[d] - 1) + (mining_queue[d] + 1) <= frames
      BY <1>0, <2>1, Counts
    <3>2. LinkTypes'
      BY <1>0, <2>1, <2>2, <3>1, LinkStep
    <3>3. TypeOK'
      BY <1>0, <2>1, <2>2, <3>2 DEF LinkTypes, TypeOK, tpVars, handleVars
    <3> QED
      BY <2>1, <2>2, <3>3, QuietStep DEF IInv
  <2>3. ASSUME UNCHANGED mining_queue PROVE LinkTypes'
    <3>1. /\ frames \in 0..MaxFrames /\ inbound[d] - 1 \in 0..MaxFrames
          /\ mining_queue[d] \in 0..MaxFrames
          /\ (inbound[d] - 1) + mining_queue[d] <= frames
      BY <1>0, <2>1, Counts
    <3> QED
      BY <1>0, <2>1, <2>3, <3>1, LinkStep
  <2>4. CASE UNCHANGED <<mining_queue, task, position, status>>
    <3>1. TypeOK'
      BY <1>0, <2>1, <2>4, <2>3 DEF LinkTypes, TypeOK, tpVars, handleVars
    <3> QED
      BY <2>1, <2>4, <3>1, QuietStep DEF IInv
  <2>5. CASE SessionFails(d) /\ UNCHANGED mining_queue
    <3>1. Ends(Session(d)) /\ Report(DownstreamShutdown(d)) /\ Live(Session(d))
      BY <2>1, <2>5 DEF SessionFails, Live
    <3>2. /\ task' \in [Task -> TaskState] /\ status' \in Seq(Status)
          /\ position' \in [Task -> 0..Len(notify_shutdown')]
      BY <1>0, <2>1, <3>1, EndsType, Messages, ReportType
    <3>3. TypeOK'
      BY <1>0, <2>1, <2>5, <2>3, <3>2 DEF LinkTypes, TypeOK, tpVars, handleVars
    <3> QED
      BY <1>0, <2>1, <3>1, <3>3, EndsType, FailStep DEF IInv
  <2> QED
    BY <1>8, <2>2, <2>4, <2>5 DEF SessionFrame
<1>9. CASE SessionClosed(d)
  <2>1. Ends(Session(d)) /\ Report(DownstreamShutdown(d)) /\ Live(Session(d))
    BY <1>9 DEF SessionClosed, SessionFails, Live
  <2>2. TypeOK'
    BY <1>0, <1>9, <2>1, EndsType, Messages, ReportType, RestType DEF SessionClosed
  <2> QED
    BY <1>0, <1>9, <2>1, <2>2, EndsType, FailStep DEF SessionClosed, IInv
<1>10. CASE SessionNotice(d)
  <2>1. TypeOK'
    BY <1>0, <1>10, NoticeType, RestType DEF SessionNotice
  <2> QED
    BY <1>0, <1>10, <2>1, NoticeType, QuietStep DEF SessionNotice, IInv
<1>11. CASE ServerConnects(d)
  <2>1. CASE task[CM] # "panicked"
    <3>1. /\ task[Session(d)] = "absent"
          /\ task' = [task EXCEPT ![Server] = "setting_up", ![Reader(d)] = "running",
                                  ![Writer(d)] = "running", ![Session(d)] = "setup"]
          /\ downstream' = downstream \cup {d} /\ Spawns({Reader(d), Writer(d)})
          /\ UNCHANGED <<main, status, notify_shutdown, linkVars, tpVars, joined>>
      <4>1. d \in Nat
        BY DownstreamAssumption
      <4> QED
        BY <1>11, <2>1, <4>1 DEF ServerConnects
    <3>2. task' \in [Task -> TaskState]
      BY <1>0, <3>1 DEF TypeOK, TaskState
    <3>3. position' \in [Task -> 0..Len(notify_shutdown')]
      <4>1. Len(notify_shutdown) \in 0..Len(notify_shutdown)
        BY <1>0 DEF TypeOK
      <4>2. position' = [position EXCEPT ![Reader(d)] = Len(notify_shutdown),
                                         ![Writer(d)] = Len(notify_shutdown),
                                         ![Session(d)] = Len(notify_shutdown)]
        BY <1>11, <2>1 DEF ServerConnects
      <4> QED
        BY <1>0, <3>1, <4>1, <4>2 DEF TypeOK
    <3>4. TypeOK'
      <4>1. late' \subseteq Task
        BY <1>0, <3>1 DEF TypeOK, Spawns
      <4> QED
        BY <1>0, <3>1, <3>2, <3>3, <4>1 DEF TypeOK, linkVars, tpVars
    <3>5. /\ task'[Session(d)] = "setup"
          /\ \A e \in Downstream \ {d} : task'[Session(e)] = task[Session(e)]
      BY <1>0, <3>1 DEF TypeOK
    <3>6. Notices(status, d) = {} /\ Notices(notify_shutdown, d) = {}
      BY <3>1 DEF IInv, OneNoticePerConnection
    <3>7. OneNoticePerConnection'
      <4>1. \A e \in Downstream : /\ Notices(status', e) = Notices(status, e)
                                  /\ Notices(notify_shutdown', e) = Notices(notify_shutdown, e)
        BY <3>1
      <4> SUFFICES ASSUME NEW e \in Downstream
                   PROVE  /\ \A i, j \in Notices(status', e) : i = j
                          /\ \A i, j \in Notices(notify_shutdown', e) : i = j
                          /\ Notices(status', e) = {} \/ Notices(notify_shutdown', e) = {}
                          /\ Notices(status', e) \cup Notices(notify_shutdown', e) # {}
                               => task'[Session(e)] = "ended"
        BY DEF OneNoticePerConnection
      <4>2. CASE e = d
        BY <3>6, <4>1, <4>2
      <4>3. CASE e # d
        BY <3>5, <4>1, <4>3 DEF IInv, OneNoticePerConnection
      <4> QED
        BY <4>2, <4>3
    <3>8. LiveSessionIsKnown'
      BY <3>1, <3>5 DEF IInv, LiveSessionIsKnown, Live
    <3> QED
      BY <3>4, <3>7, <3>8 DEF IInv
  <2>2. CASE Ends(Server) /\ UNCHANGED <<downstream, late>>
    <3>1. TypeOK'
      BY <1>0, <1>11, <2>2, EndsType, RestType DEF ServerConnects, handleVars
    <3> QED
      BY <1>0, <1>11, <2>2, <3>1, EndsType, QuietStep DEF ServerConnects, IInv
  <2> QED
    BY <1>11, <2>1, <2>2 DEF ServerConnects
<1>12. CASE ServerSetup(d)
  <2>1. /\ UNCHANGED <<main, notify_shutdown, downstream, frames, mining_queue, tpVars, joined>>
        /\ task[Session(d)] = "setup"
        /\ late' \subseteq Task /\ joined' \subseteq Task
    BY <1>0, <1>12 DEF ServerSetup, Spawns, TypeOK
  <2>2. \/ inbound' = [inbound EXCEPT ![d] = @ - 1] /\ inbound[d] > 0
        \/ UNCHANGED inbound
    BY <1>12 DEF ServerSetup
  <2>3. LinkTypes'
    <3>1. /\ frames \in 0..MaxFrames /\ inbound[d] \in 0..MaxFrames
          /\ mining_queue[d] \in 0..MaxFrames
          /\ inbound[d] + mining_queue[d] <= frames
      BY <1>0, Counts
    <3>2. CASE UNCHANGED inbound
      BY <1>0, <2>1, <3>1, <3>2, LinkStep
    <3>3. CASE inbound' = [inbound EXCEPT ![d] = @ - 1] /\ inbound[d] > 0
      <4>1. inbound[d] - 1 \in 0..MaxFrames /\ (inbound[d] - 1) + mining_queue[d] <= frames
        BY <1>0, <3>3, Counts
      <4> QED
        BY <1>0, <2>1, <3>1, <3>3, <4>1, LinkStep
    <3> QED
      BY <2>2, <3>2, <3>3
  <2>4. CASE /\ task' = [task EXCEPT ![Server] = "accept", ![Session(d)] = "running"]
             /\ UNCHANGED <<position, status>>
    <3>1. task' \in [Task -> TaskState]
      BY <1>0, <2>4 DEF TypeOK, TaskState
    <3>2. TypeOK'
      BY <1>0, <2>1, <2>3, <2>4, <3>1 DEF LinkTypes, TypeOK, tpVars
    <3> QED
      BY <1>0, <2>1, <2>4, <3>2, QuietStep DEF IInv, TypeOK
  <2>5. CASE SetupFails(d)
    <3>1. /\ task' \in [Task -> TaskState]
          /\ position' \in [Task -> 0..Len(notify_shutdown')]
          /\ task'[Session(d)] = "ended"
          /\ \A e \in Downstream \ {d} : task'[Session(e)] = task[Session(e)]
      <4>1. /\ task' = [task EXCEPT ![Server] = "accept", ![Session(d)] = "ended"]
            /\ position' = [position EXCEPT ![Session(d)] = 0]
        BY <2>5 DEF SetupFails
      <4>2. task' \in [Task -> TaskState]
        BY <1>0, <4>1 DEF TypeOK, TaskState
      <4>3. position' \in [Task -> 0..Len(notify_shutdown')]
        BY <1>0, <2>1, <4>1 DEF TypeOK
      <4>4. /\ task'[Session(d)] = "ended"
            /\ \A e \in Downstream \ {d} : task'[Session(e)] = task[Session(e)]
        BY <1>0, <4>1 DEF TypeOK
      <4> QED
        BY <4>2, <4>3, <4>4
    <3>2. status' \in Seq(Status) /\ Report(DownstreamShutdown(d)) /\ Live(Session(d))
      BY <1>0, <2>1, <2>5, Messages, ReportType DEF SetupFails, Live
    <3>3. TypeOK'
      BY <1>0, <2>1, <2>3, <3>1, <3>2 DEF LinkTypes, TypeOK, tpVars
    <3> QED
      BY <2>1, <3>1, <3>2, <3>3, FailStep DEF IInv
  <2> QED
    BY <1>12, <2>4, <2>5 DEF ServerSetup
<1>13. CASE CmMessage(d)
  <2>1. /\ UNCHANGED <<main, notify_shutdown, downstream, frames, inbound, tpVars, handleVars>>
        /\ mining_queue' = [mining_queue EXCEPT ![d] = @ - 1] /\ mining_queue[d] > 0
    BY <1>13 DEF CmMessage
  <2>2. /\ mining_queue' \in [Downstream -> 0..MaxFrames]
        /\ \A e \in Downstream : inbound'[e] + mining_queue'[e] <= frames'
    BY <1>0, <2>1, FramesAssumption DEF TypeOK
  <2>3. CASE UNCHANGED <<task, position, status>>
    <3>1. TypeOK'
      BY <1>0, <2>1, <2>2, <2>3 DEF TypeOK, tpVars, handleVars
    <3> QED
      BY <2>1, <2>3, <3>1, QuietStep DEF IInv
  <2>4. CASE CmFails
    <3>1. Ends(CM) /\ Report(ChannelManagerShutdown)
      BY <2>4 DEF CmFails
    <3>2. /\ task' \in [Task -> TaskState] /\ status' \in Seq(Status)
          /\ position' \in [Task -> 0..Len(notify_shutdown')]
      BY <1>0, <2>1, <3>1, EndsType, Messages, ReportType
    <3>3. TypeOK'
      BY <1>0, <2>1, <2>2, <3>2 DEF TypeOK, tpVars, handleVars
    <3>4. /\ \A e \in Downstream : Notices(status', e) = Notices(status, e)
          /\ \A e \in Downstream : Notices(notify_shutdown', e) = Notices(notify_shutdown, e)
      BY <1>0, <2>1, <3>1, Messages, NoticesOfAppend DEF Report
    <3> QED
      BY <1>0, <2>1, <3>1, <3>3, <3>4, EndsType, ReportStep DEF IInv
  <2>5. CASE /\ Becomes(CM, "panicked")
             /\ position' = [position EXCEPT ![CM] = 0]
             /\ UNCHANGED status
    <3>1. task' \in [Task -> TaskState]
      BY <1>0, <2>5 DEF TypeOK, TaskState, Becomes
    <3>2. position' \in [Task -> 0..Len(notify_shutdown')]
      BY <1>0, <2>1, <2>5 DEF TypeOK
    <3>3. TypeOK'
      BY <1>0, <2>1, <2>2, <2>5, <3>1, <3>2 DEF TypeOK, tpVars, handleVars
    <3> QED
      BY <1>0, <2>1, <2>5, <3>3, QuietStep DEF IInv, TypeOK, Becomes
  <2> QED
    BY <1>13, <2>3, <2>4, <2>5 DEF CmMessage
<1> QED
  BY <1>1, <1>2, <1>3, <1>4, <1>5, <1>6, <1>7, <1>8, <1>9, <1>10, <1>11, <1>12, <1>13
     DEF ConnectionStep

-----------------------------------------------------------------------------
(* The tasks there is one of, and PoolSv2::start. *)

\* Every step of the pool keeps the invariant.
THEOREM NextInv == IInv /\ [Next]_vars => IInv'
<1> USE Tasks
<1> SUFFICES ASSUME IInv, [Next]_vars PROVE IInv'
  OBVIOUS
<1>0. TypeOK /\ status \in Seq(Status) /\ notify_shutdown \in Seq(Notice)
  BY DEF IInv, TypeOK
<1>1. ASSUME NEW d \in Downstream, ConnectionStep(d) PROVE IInv'
  BY <1>1, ConnectionInv
<1>2. CASE ServerAccept \/ ServerHandshakeFails
  <2>1. \E state \in {"handshake", "accept"} : Becomes(Server, state)
    BY <1>2 DEF ServerAccept, ServerHandshakeFails
  <2>2. UNCHANGED <<main, status, notify_shutdown, position, downstream, linkVars, tpVars, handleVars>>
    BY <1>2 DEF ServerAccept, ServerHandshakeFails
  <2>3. TypeOK'
    BY <1>0, <2>1, <2>2, RestType DEF Becomes, TypeOK, TaskState
  <2> QED
    BY <1>0, <2>1, <2>2, <2>3, QuietStep DEF Becomes, IInv, TypeOK
<1>3. CASE ServerNotice
  <2>1. TypeOK'
    BY <1>0, <1>3, ComponentNoticeType, RestType DEF ServerNotice
  <2> QED
    BY <1>0, <1>3, <2>1, ComponentNoticeType, QuietStep DEF ServerNotice, IInv
<1>4. CASE CmNotice
  <2>1. /\ ComponentNotice(CM)
        /\ downstream' = {d \in downstream : ~Hears(CM, {DownstreamShutdown(d)})}
        /\ UNCHANGED <<main, status, notify_shutdown, linkVars, tpVars, handleVars>>
    BY <1>4 DEF CmNotice
  <2>2. /\ task' \in [Task -> TaskState]
        /\ position' \in [Task -> 0..Len(notify_shutdown')]
        /\ \A d \in Downstream : task'[Session(d)] = task[Session(d)]
    BY <1>0, <2>1, ComponentNoticeType
  <2>3. TypeOK'
    BY <1>0, <2>1, <2>2 DEF TypeOK, linkVars, tpVars, handleVars
  <2>4. OneNoticePerConnection'
    BY <2>1, <2>2 DEF IInv, OneNoticePerConnection, Notices
  <2>5. ASSUME NEW d \in Downstream, Hears(CM, {DownstreamShutdown(d)})
        PROVE  task[Session(d)] = "ended"
    <3>1. /\ position[CM] + 1 \in DOMAIN notify_shutdown
          /\ notify_shutdown[position[CM] + 1] = DownstreamShutdown(d)
      BY <1>0, <2>5 DEF Hears, Unread, TypeOK
    <3>2. Notices(notify_shutdown, d) # {}
      BY <3>1 DEF Notices
    <3> QED
      BY <3>2 DEF IInv, OneNoticePerConnection
  <2>6. LiveSessionIsKnown'
    BY <2>1, <2>2, <2>5 DEF IInv, LiveSessionIsKnown, Live
  <2> QED
    BY <2>3, <2>4, <2>6 DEF IInv
<1>5. ASSUME NEW r \in {CM, Tp}, NEW s \in {ChannelManagerShutdown, TemplateReceiverShutdown},
             Ends(r), Report(s),
             UNCHANGED <<main, notify_shutdown, downstream, linkVars, tpVars, handleVars>>
      PROVE  IInv'
  <2>1. TypeOK'
    BY <1>0, <1>5, EndsType, Messages, ReportType, RestType
  <2>2. /\ \A e \in Downstream : Notices(status', e) = Notices(status, e)
        /\ \A e \in Downstream : Notices(notify_shutdown', e) = Notices(notify_shutdown, e)
    BY <1>0, <1>5, Messages, NoticesOfAppend DEF Report
  <2> QED
    BY <1>0, <1>5, <2>1, <2>2, EndsType, ReportStep DEF IInv
<1>6. CASE CmTemplateFails
  BY <1>5, <1>6 DEF CmTemplateFails, CmFails
<1>7. CASE TpFails
  BY <1>5, <1>7 DEF TpFails, TpReports
<1>8. CASE WatcherCancelled
  BY <1>5, <1>8 DEF WatcherCancelled, TpReports
<1>9. CASE TpNotice
  <2>1. TypeOK'
    BY <1>0, <1>9, ComponentNoticeType, RestType DEF TpNotice
  <2> QED
    BY <1>0, <1>9, <2>1, ComponentNoticeType, QuietStep DEF TpNotice, IInv
<1>10. CASE WatcherNotice
  <2>1. /\ task' \in [Task -> TaskState]
        /\ position' \in [Task -> 0..Len(notify_shutdown')]
        /\ \A d \in Downstream : task'[Session(d)] = task[Session(d)]
    BY <1>0, <1>10, NoticeType DEF WatcherNotice
  <2>2. TypeOK'
    BY <1>0, <1>10, <2>1 DEF WatcherNotice, TypeOK, linkVars, handleVars
  <2> QED
    BY <1>10, <2>1, <2>2, QuietStep DEF WatcherNotice, IInv
<1>11. CASE CoreConnected \/ CoreFails \/ CoreEnds
  <2>1. /\ UNCHANGED <<main, status, notify_shutdown, position, task, downstream, linkVars, handleVars>>
        /\ token' \in {token, TRUE} /\ core' \in {core, "running", "ended"}
    BY <1>11 DEF CoreConnected, CoreFails, CoreEnds
  <2>2. TypeOK'
    BY <1>0, <2>1 DEF TypeOK, linkVars, handleVars
  <2> QED
    BY <2>1, <2>2, QuietStep DEF IInv
<1>12. CASE CoreNoRuntime
  <2>1. /\ UNCHANGED <<main, notify_shutdown, position, task, downstream, linkVars, token, handleVars>>
        /\ core' = "ended" /\ Report(TemplateReceiverShutdown)
    BY <1>12 DEF CoreNoRuntime
  <2>2. TypeOK'
    BY <1>0, <2>1, Messages, ReportType DEF TypeOK, linkVars, handleVars
  <2>3. /\ \A e \in Downstream : Notices(status', e) = Notices(status, e)
        /\ \A e \in Downstream : Notices(notify_shutdown', e) = Notices(notify_shutdown, e)
    BY <1>0, <2>1, Messages, NoticesOfAppend DEF Report
  <2> QED
    BY <2>1, <2>2, <2>3, ReportStep DEF IInv
<1>13. ASSUME LeavesLoop, UNCHANGED <<position, task, downstream, linkVars, tpVars, handleVars>>
       PROVE  IInv'
  <2>1. Broadcast(ShutdownAll) /\ main' = "joining" /\ status' = <<>>
    BY <1>13 DEF LeavesLoop
  <2>2. notify_shutdown' \in Seq(Notice) /\ Len(notify_shutdown') = Len(notify_shutdown) + 1
    BY <1>0, <2>1, Messages DEF Broadcast
  <2>3. position' \in [Task -> 0..Len(notify_shutdown')]
    BY <1>0, <1>13, <2>2 DEF TypeOK
  <2>4. TypeOK'
    BY <1>0, <1>13, <2>1, <2>2, <2>3 DEF TypeOK, linkVars, tpVars, handleVars
  <2>5. /\ \A e \in Downstream : Notices(status', e) = {}
        /\ \A e \in Downstream : Notices(notify_shutdown', e) = Notices(notify_shutdown, e)
    BY <1>0, <2>1, Messages, NoticesOfAppend DEF Broadcast, Notices
  <2> QED
    BY <1>13, <2>4, <2>5, ReportStep DEF IInv
<1>14. CASE HandleStatus
  <2>1. /\ status # <<>>
        /\ UNCHANGED <<position, task, downstream, linkVars, tpVars, handleVars>>
        /\ status' = Tail(status) \/ status' = <<>>
    BY <1>14 DEF HandleStatus, LeavesLoop
  <2>2. /\ Head(status) \in Status /\ status' \in Seq(Status)
        /\ status[1] = Head(status) /\ 1 \in DOMAIN status /\ Len(status) \in Nat
    <3>1. Tail(status) \in Seq(Status) /\ <<>> \in Seq(Status)
      BY <1>0, <2>1
    <3>2. status' \in Seq(Status)
      BY <2>1, <3>1
    <3> QED
      BY <1>0, <2>1, <3>2
  <2>3. ASSUME NEW notice \in Notice, Broadcast(notice), main' \in {main, "joining"}
        PROVE  TypeOK'
    <3>1. notify_shutdown' \in Seq(Notice) /\ Len(notify_shutdown') = Len(notify_shutdown) + 1
      BY <1>0, <2>3 DEF Broadcast
    <3>2. position' \in [Task -> 0..Len(notify_shutdown')]
      BY <1>0, <2>1, <3>1 DEF TypeOK
    <3> QED
      BY <1>0, <2>1, <2>2, <2>3, <3>1, <3>2 DEF TypeOK, linkVars, tpVars, handleVars
  <2>4. ASSUME NEW e \in Downstream, status' = Tail(status)
        PROVE  /\ \A i \in Notices(status', e) : i + 1 \in Notices(status, e) /\ i \in Nat /\ i > 0
               /\ Notices(status', e) # {} => Notices(status, e) # {}
               /\ \A i, j \in Notices(status', e) : i = j
    <3>1. Notices(status', e) = {i \in 1..(Len(status) - 1) : i + 1 \in Notices(status, e)}
      BY <1>0, <2>1, <2>4, NoticesOfTail
    <3>2. \A i, j \in Notices(status, e) : i = j
      BY DEF IInv, OneNoticePerConnection
    <3>3. \A i \in Notices(status', e) : i + 1 \in Notices(status, e) /\ i \in Nat /\ i > 0
      BY <2>2, <3>1
    <3> QED
      BY <3>2, <3>3
  <2>5. CASE Head(status) \in {DownstreamShutdown(d) : d \in Downstream}
    <3>1. PICK d \in Downstream : Head(status) = DownstreamShutdown(d)
      BY <2>5
    <3>2. Broadcast(DownstreamShutdown(d)) /\ UNCHANGED main /\ status' = Tail(status)
      BY <1>14, <2>5, <3>1 DEF HandleStatus
    <3>3. TypeOK'
      BY <2>3, <3>1, <3>2, Messages
    <3>4. 1 \in Notices(status, d)
      BY <2>2, <3>1 DEF Notices
    <3>5. /\ Notices(status', d) = {} /\ Notices(notify_shutdown, d) = {}
          /\ task[Session(d)] = "ended"
      <4>1. \A i \in Notices(status, d) : i = 1
        BY <3>4 DEF IInv, OneNoticePerConnection
      <4>2. Notices(status', d) = {}
        BY <2>4, <3>2, <4>1
      <4> QED
        BY <3>4, <4>2 DEF IInv, OneNoticePerConnection
    <3>6. Notices(notify_shutdown', d) = {Len(notify_shutdown) + 1}
      BY <1>0, <3>2, <3>5, Messages, NoticesOfAppend DEF Broadcast
    <3>7. \A e \in Downstream \ {d} : Notices(notify_shutdown', e) = Notices(notify_shutdown, e)
      BY <1>0, <3>2, Messages, NoticesOfAppend DEF Broadcast
    <3>8. OneNoticePerConnection'
      <4> SUFFICES ASSUME NEW e \in Downstream
                   PROVE  /\ \A i, j \in Notices(status', e) : i = j
                          /\ \A i, j \in Notices(notify_shutdown', e) : i = j
                          /\ Notices(status', e) = {} \/ Notices(notify_shutdown', e) = {}
                          /\ Notices(status', e) \cup Notices(notify_shutdown', e) # {}
                               => task'[Session(e)] = "ended"
        BY DEF OneNoticePerConnection
      <4>1. CASE e = d
        BY <2>1, <3>5, <3>6, <4>1
      <4>2. CASE e # d
        BY <2>1, <2>4, <3>2, <3>7, <4>2 DEF IInv, OneNoticePerConnection
      <4> QED
        BY <4>1, <4>2
    <3>9. LiveSessionIsKnown'
      BY <2>1 DEF IInv, LiveSessionIsKnown, Live
    <3> QED
      BY <3>3, <3>8, <3>9 DEF IInv
  <2>6. CASE Head(status) \notin {DownstreamShutdown(d) : d \in Downstream}
    <3>1. LeavesLoop
      BY <1>14, <2>6 DEF HandleStatus
    <3> QED
      BY <1>13, <2>1, <3>1
  <2> QED
    BY <2>5, <2>6
<1>15. CASE CtrlC
  BY <1>15, <1>13 DEF CtrlC
<1>16. CASE AbortAll \/ TakeHandles \/ JoinAll
  <2>1. /\ UNCHANGED <<status, notify_shutdown, position, task, downstream, linkVars, tpVars>>
        /\ main' \in {"aborted", "joining_all", "stopped"}
        /\ late' \subseteq Task /\ joined' \subseteq Task
    BY <1>0, <1>16 DEF AbortAll, TakeHandles, JoinAll, TypeOK, handleVars
  <2>2. TypeOK'
    BY <1>0, <2>1 DEF TypeOK, linkVars, tpVars
  <2> QED
    BY <2>1, <2>2, QuietStep DEF IInv
<1>17. ASSUME NEW r \in Task, Abort(r) PROVE IInv'
  <2>1. /\ task' \in [Task -> TaskState]
        /\ position' \in [Task -> 0..Len(notify_shutdown')]
        /\ \A d \in Downstream : task'[Session(d)] \in {task[Session(d)], "ended"}
    BY <1>0, <1>17 DEF Abort, TypeOK, TaskState
  <2>2. TypeOK'
    BY <1>0, <1>17, <2>1, RestType DEF Abort
  <2> QED
    BY <1>17, <2>1, <2>2, QuietStep DEF Abort, IInv
<1>18. CASE UNCHANGED vars
  BY <1>18, QuietStep DEF vars, linkVars, tpVars, handleVars, IInv, TypeOK
<1> QED
  BY <1>1, <1>2, <1>3, <1>4, <1>6, <1>7, <1>8, <1>9, <1>10, <1>11, <1>12, <1>14, <1>15,
     <1>16, <1>17, <1>18 DEF Next, TaskStep

-----------------------------------------------------------------------------
(* Lost components. *)

\* Before the main loop is left nobody has been told to shut down, so no
\* component has ended because it was; and the watcher only ends by a report.
LossInv ==
  /\ LossIsReported
  /\ main = "loop" => \A i \in DOMAIN notify_shutdown : notify_shutdown[i] # ShutdownAll
  /\ main = "loop" /\ core # "none" => task[Tp] \in {"running", "ended"}

\* A report joins those that wait.
LEMMA ReportWaits ==
  ASSUME TypeOK, main = "loop", NEW s \in Status, Report(s)
  PROVE  Waiting(s)' /\ \A t : Waiting(t) => Waiting(t)'
<1>1. status' = Append(status, s) /\ status \in Seq(Status)
  BY DEF Report, TypeOK
<1>2. /\ DOMAIN status = 1..Len(status) /\ DOMAIN status' = 1..(Len(status) + 1)
      /\ Len(status) \in Nat
      /\ \A i \in 1..Len(status) : status'[i] = status[i]
      /\ status'[Len(status) + 1] = s
  BY <1>1
<1> QED
  BY <1>2 DEF Waiting

\* A step within the loop that loses no report, and reports what it ends.
LEMMA LossStep ==
  ASSUME LossInv, main = "loop", UNCHANGED <<main, notify_shutdown>>,
         \A s : Waiting(s) => Waiting(s)',
         task'[CM] = "ended" => task[CM] = "ended" \/ Waiting(ChannelManagerShutdown)',
         task'[Tp] = "ended" => task[Tp] = "ended" \/ Waiting(TemplateReceiverShutdown)',
         core' = "ended" =>
           core = "ended" \/ Waiting(TemplateReceiverShutdown)' \/ (token' /\ Live(Tp)'),
         token /\ Live(Tp) =>
           (token' /\ Live(Tp)') \/ Waiting(TemplateReceiverShutdown)',
         core' # "none" => core # "none" /\ task'[Tp] \in {task[Tp], "ended"}
  PROVE  LossInv'
BY DEF LossInv, LossIsReported

\* A task that takes a notice within the loop does not hear ShutdownAll.
LEMMA NothingToHear ==
  ASSUME TypeOK, LossInv, main = "loop", NEW r \in Task, ~Lagged(r)
  PROVE  ~Hears(r, {ShutdownAll})
<1>1. /\ notify_shutdown \in Seq(Notice) /\ position[r] \in Nat
      /\ Len(notify_shutdown) \in Nat
  BY DEF TypeOK
<1>2. Unread(r) > 0 => position[r] + 1 \in DOMAIN notify_shutdown
  BY <1>1 DEF Unread
<1> QED
  BY <1>2 DEF Hears, LossInv

\* Every step keeps the account of lost components.
THEOREM LossNext == TypeOK /\ LossInv /\ [Next]_vars => LossInv'
<1> USE Tasks
<1> SUFFICES ASSUME TypeOK, LossInv, [Next]_vars, main = "loop", main' = "loop"
             PROVE  LossInv'
  <2>1. ASSUME NEW d \in Downstream, ConnectionStep(d) PROVE UNCHANGED main
    BY <2>1 DEF ConnectionStep, ReaderFrame, ReaderFails, ReaderNotice, WriterFrame,
           WriterWritten, WriterClosed, WriterNotice, SessionFrame, SessionClosed,
           SessionNotice, ServerConnects, ServerSetup, CmMessage
  <2>2. ASSUME TaskStep, main' = "loop" PROVE main = "loop"
    BY <2>1, <2>2 DEF TaskStep, ServerAccept, ServerHandshakeFails, ServerNotice, CmNotice,
           CmTemplateFails, TpFails, TpNotice, WatcherNotice, WatcherCancelled, CoreConnected,
           CoreNoRuntime, CoreFails, CoreEnds, HandleStatus, LeavesLoop, CtrlC, AbortAll,
           TakeHandles, JoinAll, Abort
  <2> QED
    BY <2>2 DEF LossInv, LossIsReported, Next, vars
<1>1. ASSUME NEW d \in Downstream, ConnectionStep(d), ~CmMessage(d) PROVE LossInv'
  <2>1. UNCHANGED <<main, notify_shutdown, tpVars>> /\ task'[CM] = task[CM] /\ task'[Tp] = task[Tp]
    BY <1>1 DEF ConnectionStep, ReaderFrame, ReaderFails, ReaderNotice, TakesNotice,
           WriterFrame, WriterWritten, WriterClosed, WriterNotice, SessionFrame, SessionFails,
           SessionClosed, SessionNotice, ServerConnects, ServerSetup, SetupFails, Ends,
           Becomes, TypeOK
  <2>2. status' = status \/ Report(DownstreamShutdown(d))
    BY <1>1 DEF ConnectionStep, ReaderFrame, ReaderFails, ReaderNotice,
           WriterFrame, WriterWritten, WriterClosed, WriterNotice, SessionFrame, SessionFails,
           SessionClosed, SessionNotice, ServerConnects, ServerSetup, SetupFails
  <2>3. \A s : Waiting(s) => Waiting(s)'
    BY <2>2, Messages, ReportWaits DEF Waiting
  <2> QED
    BY <2>1, <2>3, LossStep DEF tpVars, Live
<1>2. ASSUME NEW r \in {CM, Server}, UNCHANGED <<main, status, notify_shutdown, tpVars>>,
             \A s \in Task \ {r} : task'[s] = task[s], task'[r] = "ended" => r = Server
      PROVE  LossInv'
  BY <1>2, LossStep DEF tpVars, Live, Waiting
<1>3. ASSUME CmFails, UNCHANGED <<main, notify_shutdown, tpVars>> PROVE LossInv'
  <2>1. Waiting(ChannelManagerShutdown)' /\ \A s : Waiting(s) => Waiting(s)'
    BY <1>3, Messages, ReportWaits DEF CmFails
  <2>2. task'[Tp] = task[Tp]
    BY <1>3 DEF CmFails, Ends, Becomes, TypeOK
  <2> QED
    BY <1>3, <2>1, <2>2, LossStep DEF tpVars, Live
<1>4. ASSUME NEW d \in Downstream, CmMessage(d) PROVE LossInv'
  <2>1. UNCHANGED <<main, notify_shutdown, tpVars>>
    BY <1>4 DEF CmMessage
  <2>2. CASE CmFails
    BY <1>3, <2>1, <2>2
  <2>3. CASE UNCHANGED <<task, status>>
    BY <2>1, <2>3, LossStep DEF tpVars, Live, Waiting
  <2>4. CASE Becomes(CM, "panicked") /\ UNCHANGED status
    <3>1. task'[CM] = "panicked" /\ task'[Tp] = task[Tp]
      BY <2>4 DEF Becomes, TypeOK
    <3> QED
      BY <2>1, <2>4, <3>1, LossStep DEF tpVars, Live, Waiting
  <2> QED
    BY <1>4, <2>2, <2>3, <2>4 DEF CmMessage
<1>5. CASE ServerAccept \/ ServerHandshakeFails
  BY <1>5, <1>2 DEF ServerAccept, ServerHandshakeFails, Becomes, TypeOK
<1>6. CASE ServerNotice
  BY <1>6, <1>2, ComponentNoticeType DEF ServerNotice
<1>7. ASSUME NEW r \in {CM, Tp}, ComponentNotice(r), UNCHANGED notify_shutdown
      PROVE  task'[r] = "ended" => task[r] = "ended"
  <2>1. CASE ~Lagged(r)
    BY <1>7, <2>1, NothingToHear DEF ComponentNotice, TakesNotice
  <2>2. CASE Becomes(r, "lagged")
    BY <2>2 DEF Becomes, TypeOK
  <2> QED
    BY <1>7, <2>1, <2>2 DEF ComponentNotice
<1>8. CASE CmNotice
  BY <1>8, <1>2, <1>7, ComponentNoticeType DEF CmNotice, ComponentNotice, TakesNotice, Live
<1>9. CASE CmTemplateFails
  BY <1>3, <1>9 DEF CmTemplateFails
<1>10. CASE TpFails \/ WatcherCancelled
  <2>1. UNCHANGED <<main, notify_shutdown, tpVars>> /\ TpReports
    BY <1>10 DEF TpFails, WatcherCancelled
  <2>2. Waiting(TemplateReceiverShutdown)' /\ \A s : Waiting(s) => Waiting(s)'
    BY <2>1, Messages, ReportWaits DEF TpReports
  <2>3. task'[CM] = task[CM] /\ task'[Tp] = "ended"
    BY <2>1 DEF TpReports, Ends, Becomes, TypeOK
  <2> QED
    BY <2>1, <2>2, <2>3, LossStep DEF tpVars
<1>11. CASE TpNotice
  <2>1. core = "none" /\ UNCHANGED <<main, status, notify_shutdown, tpVars>>
    BY <1>11 DEF TpNotice
  <2>2. task'[CM] = task[CM] /\ (task'[Tp] = "ended" => task[Tp] = "ended")
    BY <1>7, <1>11, ComponentNoticeType DEF TpNotice
  <2>3. core # "ended"
    BY <2>1
  <2> QED
    BY <2>1, <2>2, <2>3 DEF LossInv, LossIsReported, Waiting, tpVars
<1>12. CASE WatcherNotice
  <2>1. UNCHANGED <<main, status, notify_shutdown, core>> /\ (token => token')
    BY <1>12 DEF WatcherNotice
  <2>2. task'[CM] = task[CM] /\ task'[Tp] = task[Tp]
    <3>1. ~Hears(Tp, {ShutdownAll})
      BY NothingToHear DEF Hears
    <3> QED
      BY <1>12, <3>1 DEF WatcherNotice, TakesNotice
  <2> QED
    BY <2>1, <2>2, LossStep DEF Live, Waiting
<1>13. CASE CoreConnected \/ CoreFails \/ CoreEnds
  <2>1. /\ UNCHANGED <<main, status, notify_shutdown, task>> /\ (token => token')
        /\ core' = "ended" => token'
    BY <1>13 DEF CoreConnected, CoreFails, CoreEnds
  <2>2. core # "none"
    BY <1>13 DEF CoreConnected, CoreFails, CoreEnds
  <2>3. Waiting(TemplateReceiverShutdown) \/ Live(Tp)
    BY <2>2 DEF LossInv, LossIsReported, Live
  <2> QED
    BY <2>1, <2>2, <2>3, LossStep DEF Live, Waiting
<1>14. CASE CoreNoRuntime
  <2>1. /\ UNCHANGED <<main, notify_shutdown, task, token>> /\ Report(TemplateReceiverShutdown)
        /\ core # "none"
    BY <1>14 DEF CoreNoRuntime
  <2>2. Waiting(TemplateReceiverShutdown)' /\ \A s : Waiting(s) => Waiting(s)'
    BY <2>1, Messages, ReportWaits
  <2> QED
    BY <2>1, <2>2, LossStep DEF Live
<1>15. CASE HandleStatus
  <2>1. status # <<>> /\ Head(status) \in {DownstreamShutdown(d) : d \in Downstream}
        /\ status' = Tail(status) /\ Broadcast(Head(status))
        /\ UNCHANGED <<position, task, downstream, linkVars, tpVars, handleVars>>
    BY <1>15 DEF HandleStatus, LeavesLoop
  <2>2. /\ status \in Seq(Status) /\ notify_shutdown \in Seq(Notice)
        /\ Head(status) # ShutdownAll /\ Head(status) \in Notice
        /\ Head(status) # ChannelManagerShutdown /\ Head(status) # TemplateReceiverShutdown
    BY <2>1, Messages DEF TypeOK
  <2>3. ASSUME NEW s \in {ChannelManagerShutdown, TemplateReceiverShutdown}, Waiting(s)
        PROVE  Waiting(s)'
    <3>1. PICK i \in DOMAIN status : status[i] = s
      BY <2>3 DEF Waiting
    <3>2. /\ DOMAIN status = 1..Len(status) /\ Len(status) \in Nat
          /\ DOMAIN status' = 1..(Len(status) - 1) /\ status[1] = Head(status)
          /\ \A j \in 1..(Len(status) - 1) : status'[j] = status[j + 1]
      BY <2>1, <2>2
    <3>3. i # 1
      BY <2>2, <3>1, <3>2
    <3>4. i - 1 \in DOMAIN status' /\ status'[i - 1] = s
      BY <3>1, <3>2, <3>3
    <3> QED
      BY <3>4 DEF Waiting
  <2>4. \A i \in DOMAIN notify_shutdown' : notify_shutdown'[i] # ShutdownAll
    BY <2>1, <2>2 DEF Broadcast, LossInv
  <2> QED
    BY <2>1, <2>3, <2>4 DEF LossInv, LossIsReported, tpVars, Live
<1>16. CASE CtrlC \/ AbortAll \/ TakeHandles \/ JoinAll
  BY <1>16 DEF CtrlC, LeavesLoop, AbortAll, TakeHandles, JoinAll
<1>17. ASSUME NEW r \in Task, Abort(r) PROVE LossInv'
  BY <1>17 DEF Abort, Draining
<1>18. CASE UNCHANGED vars
  BY <1>18 DEF vars, tpVars, LossInv, LossIsReported, Waiting, Live
<1> QED
  BY <1>1, <1>4, <1>5, <1>6, <1>8, <1>9, <1>10, <1>11, <1>12, <1>13, <1>14, <1>15, <1>16,
     <1>17, <1>18 DEF Next, TaskStep

-----------------------------------------------------------------------------
(* The theorems. *)

\* The three parts of the inductive invariant hold in every reachable state.
THEOREM Invariance == Spec => []IInv
BY InitInv, NextInv, PTL DEF Spec

\* Whatever the tasks do, the queues hold what their types allow, no receiver
\* is ahead of the broadcast channel, and no frame of a peer is counted twice
\* on its way from the connection to the channel manager.
THEOREM LifecycleTypes == Spec => []TypeOK
<1>1. IInv => TypeOK
  BY DEF IInv
<1> QED
  BY <1>1, Invariance, PTL

\* Of all the ways a connection can be found failing (its setup, a frame of the
\* peer, a message for the peer, a closed connection) one alone reports it: the
\* main loop announces a connection's end at most once, after it has ended.
THEOREM OneNotice == Spec => []OneNoticePerConnection
<1>1. IInv => OneNoticePerConnection
  BY DEF IInv
<1> QED
  BY <1>1, Invariance, PTL

\* The channel manager never forgets a connection whose Downstream task can
\* still forward a message to it.
THEOREM LiveSessionsKnown == Spec => []LiveSessionIsKnown
<1>1. IInv => LiveSessionIsKnown
  BY DEF IInv
<1> QED
  BY <1>1, Invariance, PTL

\* The first half of the promise that errors bring the pool down: for any
\* capacity of the broadcast channel, so also where receivers fall behind, no
\* manager, template receiver or Bitcoin Core thread ends by a failure of its
\* own without a report that waits for the main loop.
THEOREM LossesAreReported == Spec => []LossIsReported
<1>1. Init => LossInv
  <2> SUFFICES ASSUME Init PROVE LossInv
    OBVIOUS
  <2>1. task[CM] = "running" /\ task[Tp] = "running" /\ core # "ended"
    BY Tasks DEF Init
  <2>2. \A i \in DOMAIN notify_shutdown : notify_shutdown[i] # ShutdownAll
    BY EarlierAssumption, Messages DEF Init
  <2> QED
    BY <2>1, <2>2 DEF LossInv, LossIsReported
<1>2. IInv => TypeOK
  BY DEF IInv
<1>3. LossInv => LossIsReported
  BY DEF LossInv
<1> QED
  BY <1>1, <1>2, <1>3, Invariance, LossNext, PTL DEF Spec

=============================================================================
