---------------------------- MODULE PoolLifecycle ----------------------------
(***************************************************************************)
(* The tasks of the pool (pool-apps/pool/src/lib) and the two channels that *)
(* bring them down together: `status`, an unbounded queue on which a task  *)
(* that fails reports to the main loop of PoolSv2::start, and              *)
(* `notify_shutdown`, a broadcast channel on which the main loop tells     *)
(* every task. What the tasks compute is not here: a message is handled or *)
(* its handler fails.                                                      *)
(*                                                                         *)
(* One action is one branch of one task's `select!`, run to the next       *)
(* suspension. `tokio::spawn`ed tasks run on several threads, so any two   *)
(* branches of two tasks interleave.                                       *)
(***************************************************************************)
EXTENDS Integers, Sequences

CONSTANTS
  Downstream,         \* the ids downstream_id_factory gives, one after the other
  NotifyCapacity,     \* messages the broadcast channel keeps for a slow receiver
  MaxFrames,          \* bound: frames the peers send
  Earlier,            \* bound: notices of connections that came and went before
  None                \* none of Downstream

ASSUME DownstreamAssumption == Downstream \subseteq Nat
ASSUME NoneAssumption == None \notin Downstream
ASSUME CapacityAssumption == NotifyCapacity \in Nat \ {0}
ASSUME FramesAssumption == MaxFrames \in Nat
ASSUME EarlierAssumption == Earlier \in Nat

CM == <<"channel_manager", None>>
Server == <<"downstream_server", None>>
Tp == <<"template_receiver", None>>    \* the Sv2Tp task, or the token watcher
Reader(d) == <<"reader", d>>
Writer(d) == <<"writer", d>>
Session(d) == <<"downstream", d>>
Task == {CM, Server, Tp}
        \cup {<<kind, d>> : kind \in {"reader", "writer", "downstream"}, d \in Downstream}

ShutdownAll == <<"ShutdownAll", None>>
DownstreamShutdown(d) == <<"DownstreamShutdown", d>>
TemplateReceiverShutdown == <<"TemplateReceiverShutdown", None>>
ChannelManagerShutdown == <<"ChannelManagerShutdown", None>>
EarlierShutdown == DownstreamShutdown(None)
Notice == {ShutdownAll, EarlierShutdown} \cup {DownstreamShutdown(d) : d \in Downstream}
Status == {TemplateReceiverShutdown, ChannelManagerShutdown}
          \cup {DownstreamShutdown(d) : d \in Downstream}

VARIABLES
  main,               \* where PoolSv2::start is
  status,             \* the status queue
  notify_shutdown,    \* every message broadcast so far
  position,           \* how many of them a receiver has passed
  task,               \* state of each spawned task
  downstream,         \* keys of ChannelManagerData.downstream
  frames,             \* frames the peers have sent,
  inbound,            \* those in a connection's inbound queue, and
  mining_queue,       \* its mining messages queued for the channel manager
  token,              \* BitcoinCoreIpc: the cancellation token is cancelled
  core,               \* BitcoinCoreIpc: the dedicated thread ("none" with Sv2Tp)
  late,               \* tasks spawned since abort_all drained the handles, and
  joined              \* those of them whose handles join_all found

linkVars == <<frames, inbound, mining_queue>>
tpVars == <<token, core>>
handleVars == <<late, joined>>
vars == <<main, status, notify_shutdown, position, task, downstream, linkVars,
          tpVars, handleVars>>

Live(r) == task[r] \notin {"absent", "ended", "lagged", "panicked"}

\* The pool serves, with either template_provider_type (Sv2Tp has no thread of
\* its own). Up to Earlier connections have come and gone, and the channel
\* manager has yet to read the last notices about them.
Init ==
  /\ main = "loop"
  /\ status = <<>>
  /\ \E n \in 0..Earlier : notify_shutdown = [i \in 1..n |-> EarlierShutdown]
  /\ position = [r \in Task |-> IF r \in {Server, Tp} THEN Len(notify_shutdown) ELSE 0]
  /\ task = [r \in Task |-> IF r = Server THEN "accept"
                            ELSE IF r \in {CM, Tp} THEN "running" ELSE "absent"]
  /\ downstream = {}
  /\ frames = 0
  /\ inbound = [d \in Downstream |-> 0]
  /\ mining_queue = [d \in Downstream |-> 0]
  /\ token = FALSE
  /\ core \in {"none", "connecting"}
  /\ late = {}
  /\ joined = {}

-----------------------------------------------------------------------------
(* The broadcast channel: a receiver more than NotifyCapacity messages behind *)
(* gets Err(Lagged) once, and then the oldest message still kept.             *)

Unread(r) == Len(notify_shutdown) - position[r]
Lagged(r) == Unread(r) > NotifyCapacity
Hears(r, notices) ==
  ~Lagged(r) /\ Unread(r) > 0 /\ notify_shutdown[position[r] + 1] \in notices

Passed(r) == position' =
  [position EXCEPT ![r] = IF Lagged(r) THEN Len(notify_shutdown) - NotifyCapacity ELSE @ + 1]

\* The task ends; where it stood in the channel does not matter any more.
Becomes(r, state) == task' = [task EXCEPT ![r] = state]
Ends(r) == Becomes(r, "ended") /\ position' = [position EXCEPT ![r] = 0]

\* Nobody reads the queue once the main loop has been left.
Report(s) == status' = IF main = "loop" THEN Append(status, s) ELSE status

\* The handles of the tasks spawned from here on are found by join_all alone.
Draining == main \in {"aborted", "joining_all", "stopped"}
Spawns(tasks) == late' = IF Draining THEN late \cup tasks ELSE late

\* A task that breaks its loop on some of the notices and ignores the others.
TakesNotice(r, breaks) ==
  /\ Live(r)
  /\ Unread(r) > 0
  /\ \/ breaks /\ Ends(r)
     \/ ~breaks /\ Passed(r) /\ UNCHANGED task

\* The manager, the server and the Sv2Tp task leave their loop on ShutdownAll,
\* and without a report when they have fallen behind.
ComponentNotice(r) ==
  \/ ~Lagged(r) /\ TakesNotice(r, Hears(r, {ShutdownAll}))
  \/ /\ Live(r) /\ Lagged(r)
     /\ Becomes(r, "lagged")
     /\ position' = [position EXCEPT ![r] = 0]

-----------------------------------------------------------------------------
(* A connection: its reader and writer tasks, and the Downstream task. The   *)
(* first of reader and writer to end closes both queues of the connection.   *)

LinkOpen(d) == Live(Reader(d)) /\ Live(Writer(d))

\* The other ends of the queues are dropped with the last Downstream object.
Dropped(d) ==
  ~Live(Session(d)) /\ (d \in downstream => ~Live(CM) /\ ~Live(Server))

\* A frame arrives: queued, or the queue is closed and the reader ends.
ReaderFrame(d) ==
  /\ Live(Reader(d))
  /\ \/ /\ LinkOpen(d) /\ ~Dropped(d)
        /\ frames < MaxFrames                               \* bound
        /\ frames' = frames + 1
        /\ inbound' = [inbound EXCEPT ![d] = @ + 1]
        /\ UNCHANGED <<task, position>>
     \/ /\ ~LinkOpen(d) \/ Dropped(d)
        /\ Ends(Reader(d))
        /\ UNCHANGED <<frames, inbound>>
  /\ UNCHANGED <<main, status, notify_shutdown, downstream, mining_queue, tpVars, handleVars>>

\* The peer disconnects, breaks the framing or sends a handshake frame.
ReaderFails(d) ==
  /\ Live(Reader(d))
  /\ Ends(Reader(d))
  /\ UNCHANGED <<main, status, notify_shutdown, downstream, linkVars, tpVars, handleVars>>

ReaderDeaf(d) ==                                                       \* mutant
  /\ TakesNotice(Reader(d), Hears(Reader(d), {ShutdownAll}))
  /\ UNCHANGED <<main, status, notify_shutdown, downstream, linkVars, tpVars, handleVars>>

ReaderNotice(d) ==
  /\ TakesNotice(Reader(d), Hears(Reader(d), {ShutdownAll, DownstreamShutdown(d)}))
  /\ UNCHANGED <<main, status, notify_shutdown, downstream, linkVars, tpVars, handleVars>>

\* Writing a frame suspends outside the `select!` for as long as the peer does
\* not read: notices and closed queues go unnoticed meanwhile.
WriterFrame(d) ==
  /\ task[Writer(d)] = "running"
  /\ Becomes(Writer(d), "writing")
  /\ UNCHANGED <<main, status, notify_shutdown, position, downstream, linkVars, tpVars, handleVars>>

WriterWritten(d) ==
  /\ task[Writer(d)] = "writing"
  /\ \/ Becomes(Writer(d), "running") /\ UNCHANGED position
     \/ Ends(Writer(d))
  /\ UNCHANGED <<main, status, notify_shutdown, downstream, linkVars, tpVars, handleVars>>

WriterClosed(d) ==
  /\ task[Writer(d)] = "running"
  /\ ~LinkOpen(d) \/ Dropped(d)
  /\ Ends(Writer(d))
  /\ UNCHANGED <<main, status, notify_shutdown, downstream, linkVars, tpVars, handleVars>>

WriterNotice(d) ==
  /\ task[Writer(d)] = "running"
  /\ TakesNotice(Writer(d), Hears(Writer(d), {ShutdownAll, DownstreamShutdown(d)}))
  /\ UNCHANGED <<main, status, notify_shutdown, downstream, linkVars, tpVars, handleVars>>

SessionReportsOnly(d) ==                                               \* mutant
  Report(DownstreamShutdown(d)) /\ UNCHANGED <<task, position>>

SessionFails(d) == Ends(Session(d)) /\ Report(DownstreamShutdown(d))

\* A frame of the peer: forwarded to the channel manager (while anyone holds
\* the other end), answered or ignored; or its handler fails.
SessionFrame(d) ==
  /\ task[Session(d)] = "running"
  /\ inbound[d] > 0
  /\ inbound' = [inbound EXCEPT ![d] = @ - 1]
  /\ \/ /\ Live(CM) \/ Live(Server)
        /\ mining_queue' = [mining_queue EXCEPT ![d] = @ + 1]
        /\ UNCHANGED <<task, position, status>>
     \/ UNCHANGED <<mining_queue, task, position, status>>
     \/ SessionFails(d) /\ UNCHANGED mining_queue
  /\ UNCHANGED <<main, notify_shutdown, downstream, frames, tpVars, handleVars>>

\* The closed connection: the drained inbound queue fails, or a message of the
\* channel manager cannot be queued for the writer.
SessionClosed(d) ==
  /\ task[Session(d)] = "running"
  /\ ~LinkOpen(d)
  /\ SessionFails(d)
  /\ UNCHANGED <<main, notify_shutdown, downstream, linkVars, tpVars, handleVars>>

SessionNotice(d) ==
  /\ task[Session(d)] = "running"
  /\ TakesNotice(Session(d), Hears(Session(d), {ShutdownAll, DownstreamShutdown(d)}))
  /\ UNCHANGED <<main, status, notify_shutdown, downstream, linkVars, tpVars, handleVars>>

-----------------------------------------------------------------------------
(* The downstream server: one task accepts, shakes hands and waits for the   *)
(* SetupConnection of one connection at a time.                              *)

ServerAccept ==
  /\ task[Server] = "accept"
  /\ Becomes(Server, "handshake")
  /\ UNCHANGED <<main, status, notify_shutdown, position, downstream, linkVars, tpVars, handleVars>>

ServerHandshakeFails ==
  /\ task[Server] = "handshake"
  /\ Becomes(Server, "accept")
  /\ UNCHANGED <<main, status, notify_shutdown, position, downstream, linkVars, tpVars, handleVars>>

\* A fresh id, Downstream::new with its I/O tasks, the map entry, and start()
\* as far as SetupConnection. All three subscribe before that. A poisoned lock
\* panics the server instead.
ServerConnects(d) ==
  /\ task[Server] = "handshake"
  /\ \A c \in Downstream : task[Session(c)] = "absent" <=> c >= d
  /\ \/ /\ task[CM] # "panicked"
        /\ task' = [task EXCEPT ![Server] = "setting_up", ![Reader(d)] = "running",
                                ![Writer(d)] = "running", ![Session(d)] = "setup"]
        /\ position' = [position EXCEPT ![Reader(d)] = Len(notify_shutdown),
                                        ![Writer(d)] = Len(notify_shutdown),
                                        ![Session(d)] = Len(notify_shutdown)]
        /\ downstream' = downstream \cup {d}
        /\ Spawns({Reader(d), Writer(d)})
     \/ /\ task[CM] = "panicked"
        /\ Ends(Server)
        /\ UNCHANGED <<downstream, late>>
  /\ UNCHANGED <<main, status, notify_shutdown, linkVars, tpVars, joined>>

SetupFailsSilently(d) ==                                               \* mutant
  /\ task' = [task EXCEPT ![Server] = "accept", ![Session(d)] = "ended"]
  /\ position' = [position EXCEPT ![Session(d)] = 0]
  /\ UNCHANGED status

SetupFailsWithoutReturn(d) ==                                          \* mutant
  /\ task' = [task EXCEPT ![Server] = "accept", ![Session(d)] = "running"]
  /\ Report(DownstreamShutdown(d))
  /\ UNCHANGED position

SetupFails(d) ==
  /\ task' = [task EXCEPT ![Server] = "accept", ![Session(d)] = "ended"]
  /\ position' = [position EXCEPT ![Session(d)] = 0]
  /\ Report(DownstreamShutdown(d))

\* The first frame is a SetupConnection that can be answered, or setup fails;
\* it also fails when the connection is closed before a frame came.
ServerSetup(d) ==
  /\ task[Session(d)] = "setup"
  /\ \/ /\ inbound[d] > 0
        /\ inbound' = [inbound EXCEPT ![d] = @ - 1]
        /\ \/ /\ LinkOpen(d)
              /\ task' = [task EXCEPT ![Server] = "accept", ![Session(d)] = "running"]
              /\ Spawns({Session(d)})
              /\ UNCHANGED <<position, status>>
           \/ SetupFails(d) /\ UNCHANGED late
     \/ /\ inbound[d] = 0 /\ ~LinkOpen(d)
        /\ SetupFails(d)
        /\ UNCHANGED <<inbound, late>>
  /\ UNCHANGED <<main, notify_shutdown, downstream, frames, mining_queue, tpVars, joined>>

ServerNotice ==
  /\ task[Server] = "accept"
  /\ ComponentNotice(Server)
  /\ UNCHANGED <<main, status, notify_shutdown, downstream, linkVars, tpVars, handleVars>>

-----------------------------------------------------------------------------
(* The channel manager. *)

CmNotice ==
  /\ ComponentNotice(CM)
  /\ downstream' = {d \in downstream : ~Hears(CM, {DownstreamShutdown(d)})}
  /\ UNCHANGED <<main, status, notify_shutdown, linkVars, tpVars, handleVars>>

CmFailsSilently == Ends(CM) /\ UNCHANGED status                         \* mutant

CmFails == Ends(CM) /\ Report(ChannelManagerShutdown)

\* A queued mining message. Served after its connection was removed, it may
\* also reach the `expect` of get_negotiated_extensions_with_client.
CmMessage(d) ==
  /\ Live(CM)
  /\ mining_queue[d] > 0
  /\ mining_queue' = [mining_queue EXCEPT ![d] = @ - 1]
  /\ \/ UNCHANGED <<task, position, status>>
     \/ CmFails
     \/ /\ d \notin downstream
        /\ Becomes(CM, "panicked")
        /\ position' = [position EXCEPT ![CM] = 0]
        /\ UNCHANGED status
  /\ UNCHANGED <<main, notify_shutdown, downstream, frames, inbound, tpVars, handleVars>>

CmTemplateFails ==
  /\ Live(CM)
  /\ CmFails
  /\ UNCHANGED <<main, notify_shutdown, downstream, linkVars, tpVars, handleVars>>

-----------------------------------------------------------------------------
(* The template receiver: the task of a connection to a template provider,   *)
(* or a thread that talks to Bitcoin Core and a task that watches its token. *)

TpReports == Ends(Tp) /\ Report(TemplateReceiverShutdown)

\* The connection was closed by one of its I/O tasks, or a message cannot be
\* handled or forwarded.
TpFails ==
  /\ core = "none"
  /\ Live(Tp)
  /\ TpReports
  /\ UNCHANGED <<main, notify_shutdown, downstream, linkVars, tpVars, handleVars>>

TpNotice ==
  /\ core = "none"
  /\ ComponentNotice(Tp)
  /\ UNCHANGED <<main, status, notify_shutdown, downstream, linkVars, tpVars, handleVars>>

WatcherEnds ==                                                         \* mutant
  /\ core # "none"
  /\ TakesNotice(Tp, Hears(Tp, {ShutdownAll}))
  /\ UNCHANGED <<main, status, notify_shutdown, downstream, linkVars, tpVars, handleVars>>

WatcherNotice ==
  /\ core # "none"
  /\ TakesNotice(Tp, Hears(Tp, {ShutdownAll}))
  /\ token' = (token \/ Hears(Tp, {ShutdownAll}))
  /\ UNCHANGED <<main, status, notify_shutdown, downstream, linkVars, core, handleVars>>

WatcherCancelled ==
  /\ core # "none"
  /\ Live(Tp)
  /\ token
  /\ TpReports
  /\ UNCHANGED <<main, notify_shutdown, downstream, linkVars, tpVars, handleVars>>

\* BitcoinCoreSv2::new and the first template wait for Bitcoin Core, not for
\* the token. Without a runtime the thread reports and does not cancel.
CoreConnected ==
  /\ core = "connecting"
  /\ core' = "running"
  /\ UNCHANGED <<main, status, notify_shutdown, position, task, downstream, linkVars,
                 token, handleVars>>

CoreNoRuntime ==
  /\ core = "connecting"
  /\ core' = "ended"
  /\ Report(TemplateReceiverShutdown)
  /\ UNCHANGED <<main, notify_shutdown, position, task, downstream, linkVars,
                 token, handleVars>>

CoreFailsUncancelled ==                                                \* mutant
  /\ core = "connecting"
  /\ core' = "ended"
  /\ UNCHANGED <<main, status, notify_shutdown, position, task, downstream, linkVars,
                 token, handleVars>>

CoreFails ==
  /\ core \in {"connecting", "running"}
  /\ token' = TRUE
  /\ core' = IF core = "connecting" THEN "ended" ELSE core
  /\ UNCHANGED <<main, status, notify_shutdown, position, task, downstream, linkVars,
                 handleVars>>

CoreEnds ==
  /\ core = "running"
  /\ token
  /\ core' = "ended"
  /\ UNCHANGED <<main, status, notify_shutdown, position, task, downstream, linkVars,
                 token, handleVars>>

-----------------------------------------------------------------------------
(* PoolSv2::start. *)

Broadcast(notice) == notify_shutdown' = Append(notify_shutdown, notice)
LeavesLoop == Broadcast(ShutdownAll) /\ status' = <<>> /\ main' = "joining"

HandleStatus ==
  /\ main = "loop"
  /\ status # <<>>
  /\ \/ /\ Head(status) \in {DownstreamShutdown(d) : d \in Downstream}
        /\ status' = Tail(status)
        /\ Broadcast(Head(status)) /\ UNCHANGED main
     \/ /\ Head(status) \notin {DownstreamShutdown(d) : d \in Downstream}
        /\ LeavesLoop
  /\ UNCHANGED <<position, task, downstream, linkVars, tpVars, handleVars>>

CtrlC ==
  /\ main = "loop"
  /\ LeavesLoop
  /\ UNCHANGED <<position, task, downstream, linkVars, tpVars, handleVars>>

\* The Bitcoin Core thread is joined before any task is aborted.
AbortAll ==
  /\ main = "joining"
  /\ core \in {"none", "ended"}
  /\ main' = "aborted"
  /\ UNCHANGED <<status, notify_shutdown, position, task, downstream, linkVars, tpVars, handleVars>>

\* The abort takes effect when the task next suspends: until then it may go on.
\* A session in its setup is a part of the server's task.
Abort(r) ==
  /\ Draining
  /\ r \notin late
  /\ Live(r)
  /\ task[r] # "setup"
  /\ LET ended == {r} \cup (IF r = Server THEN {s \in Task : task[s] = "setup"} ELSE {})
     IN  /\ task' = [s \in Task |-> IF s \in ended THEN "ended" ELSE task[s]]
         /\ position' = [s \in Task |-> IF s \in ended THEN 0 ELSE position[s]]
  /\ UNCHANGED <<main, status, notify_shutdown, downstream, linkVars, tpVars, handleVars>>

\* abort_all drained the handles, so join_all finds only those of tasks that
\* were spawned since.
TakeHandles ==
  /\ main = "aborted"
  /\ main' = "joining_all"
  /\ joined' = late
  /\ UNCHANGED <<status, notify_shutdown, position, task, downstream, linkVars, tpVars, late>>

JoinAll ==
  /\ main = "joining_all"
  /\ \A r \in joined : ~Live(r)
  /\ main' = "stopped"
  /\ UNCHANGED <<status, notify_shutdown, position, task, downstream, linkVars, tpVars,
                 handleVars>>

-----------------------------------------------------------------------------
ConnectionStep(d) ==
  \/ ReaderFrame(d) \/ ReaderFails(d) \/ ReaderNotice(d)
  \/ WriterFrame(d) \/ WriterWritten(d) \/ WriterClosed(d) \/ WriterNotice(d)
  \/ SessionFrame(d) \/ SessionClosed(d) \/ SessionNotice(d)
  \/ ServerConnects(d) \/ ServerSetup(d)
  \/ CmMessage(d)

TaskStep ==
  \/ \E d \in Downstream : ConnectionStep(d)
  \/ ServerAccept \/ ServerHandshakeFails \/ ServerNotice
  \/ CmNotice \/ CmTemplateFails
  \/ TpFails \/ TpNotice
  \/ WatcherNotice \/ WatcherCancelled
  \/ CoreConnected \/ CoreNoRuntime \/ CoreFails \/ CoreEnds
  \/ HandleStatus \/ CtrlC \/ AbortAll \/ TakeHandles \/ JoinAll
  \/ \E r \in Task : Abort(r)

\* The process ends when PoolSv2::start returns, and its tasks with it.
Next == main # "stopped" /\ TaskStep

Spec == Init /\ [][Next]_vars

\* `select!` polls its branches in random order, so a branch that stays ready
\* is taken; a spawned task and the Bitcoin Core thread are scheduled. Nothing
\* is assumed of the peers, of Bitcoin Core's answers or of Ctrl+C. These steps
\* are finite in number, so it is enough that one is taken while one is ready.
ReadyConnectionStep(d) ==
  \/ ReaderNotice(d) \/ WriterNotice(d) \/ WriterClosed(d)
  \/ SessionFrame(d) \/ SessionClosed(d) \/ SessionNotice(d)
  \/ ServerSetup(d) \/ CmMessage(d)

Ready ==
  \/ \E d \in Downstream : ReadyConnectionStep(d)
  \/ ServerNotice \/ CmNotice \/ TpNotice
  \/ WatcherNotice \/ WatcherCancelled \/ CoreEnds
  \/ HandleStatus \/ AbortAll \/ TakeHandles \/ JoinAll
  \/ \E r \in Task : Abort(r)

FairSpec == Spec /\ WF_vars(main # "stopped" /\ Ready)

-----------------------------------------------------------------------------
(* Properties. *)

TaskState ==
  {"absent", "running", "ended", "lagged", "panicked", "accept", "handshake", "setting_up",
   "setup", "writing"}

\* The type invariant: queues hold the messages of their types, no receiver is
\* ahead of the broadcast channel, and a connection's queues never hold more
\* than its peer has sent.
TypeOK ==
  /\ main \in {"loop", "joining", "aborted", "joining_all", "stopped"}
  /\ status \in Seq(Status)
  /\ notify_shutdown \in Seq(Notice)
  /\ position \in [Task -> 0..Len(notify_shutdown)]
  /\ task \in [Task -> TaskState]
  /\ downstream \subseteq Downstream
  /\ frames \in 0..MaxFrames
  /\ inbound \in [Downstream -> 0..MaxFrames]
  /\ mining_queue \in [Downstream -> 0..MaxFrames]
  /\ \A d \in Downstream : inbound[d] + mining_queue[d] <= frames
  /\ token \in BOOLEAN
  /\ core \in {"none", "connecting", "running", "ended"}
  /\ late \subseteq Task
  /\ joined \subseteq Task

Waiting(s) == \E i \in DOMAIN status : status[i] = s
Notices(queue, d) == {i \in DOMAIN queue : queue[i] = DownstreamShutdown(d)}

\* A connection is reported and announced as shut down at most once, and only
\* after its Downstream task ended, although setup, the peer's frames, the
\* manager's messages and the I/O tasks all can find it failing.
OneNoticePerConnection ==
  \A d \in Downstream :
    /\ \A i, j \in Notices(status, d) : i = j
    /\ \A i, j \in Notices(notify_shutdown, d) : i = j
    /\ Notices(status, d) = {} \/ Notices(notify_shutdown, d) = {}
    /\ Notices(status, d) \cup Notices(notify_shutdown, d) # {}
         => task[Session(d)] = "ended"

\* The channel manager knows every connection whose Downstream task can still
\* forward a message: it never removes one that is alive.
LiveSessionIsKnown ==
  \A d \in Downstream : Live(Session(d)) => d \in downstream

\* A connection that failed, in its setup or later, leaves the manager's map,
\* unless the manager or the pool is going down itself.
ConnectionRemoved ==
  \A d \in Downstream :
    task[Session(d)] = "ended" ~> d \notin downstream \/ ~Live(CM) \/ main # "loop"

\* The I/O tasks of a failed connection end, except a writer whose peer does
\* not read.
IoTasksEnd ==
  \A d \in Downstream :
    task[Session(d)] = "ended" ~>
      (~Live(Reader(d)) /\ task[Writer(d)] # "running") \/ main # "loop"

\* While the pool serves, a channel manager or template receiver that ended has
\* its report in the queue, and a Bitcoin Core thread that ended has one, or has
\* cancelled the token on which the watcher will report. The tasks lost without
\* a report are a manager that panicked and those that fell behind.
LossIsReported ==
  main = "loop" =>
    /\ task[CM] = "ended" => Waiting(ChannelManagerShutdown)
    /\ task[Tp] = "ended" => Waiting(TemplateReceiverShutdown)
    /\ core = "ended" => Waiting(TemplateReceiverShutdown) \/ (token /\ Live(Tp))

\* Such an end brings the pool down ("Errors are automatically converted into
\* shutdown signals, allowing coordinated teardown of tasks"), with a manager,
\* a server or a template receiver that fell behind and is gone as well.
ComponentLossStopsPool ==
  (task[CM] = "ended" \/ task[Tp] = "ended" \/ core = "ended") ~> main # "loop"

\* Once the pool is going down PoolSv2::start returns, unless it waits for a
\* peer: for Bitcoin Core in its thread's first calls, or in join_all for the
\* reader or writer of a connection that was accepted while the tasks were
\* being aborted.
ShutdownCompletes ==
  main # "loop" ~>
    \/ main = "stopped"
    \/ core = "connecting"
    \/ \E d \in Downstream : \E r \in joined \cap {Reader(d), Writer(d)} : Live(r)

=============================================================================
