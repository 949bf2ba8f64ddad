------------------------- MODULE TranslatorLifecycle -------------------------
(***************************************************************************)
(* The tasks of the translator (miner-apps/translator/src/lib) and how they *)
(* survive the loss of an upstream: TranslatorSv2::start hears of the loss  *)
(* on the status queue, broadcasts UpstreamFallback{tx}, waits until every  *)
(* receiver has dropped its `tx`, and connects to the next upstream. The    *)
(* queues between the tasks are created once and outlive a connection.      *)
(*                                                                         *)
(* One action is one branch of one task's `select!`, except for the reader   *)
(* and the writer of a connection (io_task.rs): they ignore every notice but *)
(* ShutdownAll, so one that waits in its `select!` takes a notice in the     *)
(* step that sends it, and a writer that waits takes a frame likewise. What  *)
(* is left is a writer inside write_frame, where it reads no notice for as   *)
(* long as the upstream takes no bytes. Both outlive the upstream task and a *)
(* setup that fails. Of the attempts on an upstream that is given up one may *)
(* leave them, an upstream that is connected has those of this connection   *)
(* only, and no extensions are required. The channels opened for the miners *)
(* are modelled as far as an upstream change concerns them, in              *)
(* non-aggregated mode: one request and one channel per miner.              *)
(*                                                                         *)
(* What TranslatorChannelManager names as well is named after the tasks     *)
(* here (TasksSpec): the proofs about the two are in one module.            *)
(***************************************************************************)
EXTENDS Integers, Sequences, Sv1Miners

CONSTANTS
  MaxInputs,  \* bound: connections and first messages of miners
  Upstreams   \* how many upstreams the configuration lists

ASSUME UpstreamsAssumption == Upstreams \in Nat \ {0}
ASSUME NoMinerAssumption == None \notin Miner
ASSUME InputsAssumption == MaxInputs \in Nat

Upstream == 1..Upstreams

UpstreamTask == <<"upstream", None>>
CM == <<"channel_manager", None>>
Server == <<"sv1_server", None>>
Session(m) == <<"downstream", m>>
Task == {UpstreamTask, CM, Server} \cup {Session(m) : m \in Miner}

ShutdownAll == <<"ShutdownAll", None>>
UpstreamFallback == <<"UpstreamFallback", None>>
DownstreamShutdown(m) == <<"DownstreamShutdown", m>>
UpstreamShutdown == <<"UpstreamShutdown", None>>
ChannelManagerShutdown == <<"ChannelManagerShutdown", None>>
Sv1ServerShutdown == <<"Sv1ServerShutdown", None>>
Status == {UpstreamShutdown, ChannelManagerShutdown, Sv1ServerShutdown}
          \cup {DownstreamShutdown(m) : m \in Miner}

Request == {"open", "close"} \X Miner
SetupConnection == <<"setup", None>>
Frame == Request \cup {SetupConnection}
Answer == {"success", "error"} \X Miner \X Upstream

VARIABLES
  main,           \* where TranslatorSv2::start is, and
  cause,          \* why it left its loop
  tried,          \* upstreams whose tried_or_flagged is set
  failed,         \* history: upstreams that refused, misbehaved or hung up
  current,        \* the upstream connected last, and
  link,           \* whether the queues of its reader and writer are open,
  asked,          \* and the open requests it got and has not answered
  outbound,       \* what the writer of each upstream has yet to write, and
  held,           \* those that have a notice to read when they have written
  inputs,         \* how many inputs the miners have given
  status,         \* the status queue
  notice,         \* the one message the broadcast channel keeps, and
  unread,         \* what each receiver has to read: nothing, it, or a lag first
  task,           \* state of each task
  downstreams,    \* keys of Sv1ServerData.downstreams
  asks,           \* the queue from the miners' tasks to the SV1 server,
  to_cm,          \* from the SV1 server to the channel manager,
  to_upstream,    \* from the channel manager to the upstream task,
  from_upstream,  \* and the way back
  to_server,
  pending,        \* ChannelManagerData.pending_channels
  channels        \* ... and extended_channels, with the upstream that opened each

mainVars == <<main, cause, tried>>
linkVars == <<failed, current, link, asked, outbound, held>>
queues == <<asks, to_cm, to_upstream, from_upstream, to_server>>
managerVars == <<pending, channels>>
tasksVars == <<mainVars, linkVars, inputs, status, notice, unread, task, downstreams, queues, managerVars>>

Live(r) == task[r] \notin {"absent", "ended", "closed", "lagged"}

TasksInit ==
  /\ main = "connecting" /\ cause = None /\ tried = {}
  /\ failed = {} /\ current = None /\ link = FALSE /\ asked = {}
  /\ outbound = [u \in Upstream |-> <<>>] /\ held = {}
  /\ inputs = 0
  /\ status = <<>>
  /\ notice = None
  /\ unread = [r \in Task |-> "none"]
  /\ task = [r \in Task |-> "absent"]
  /\ downstreams = {}
  /\ asks = <<>> /\ to_cm = <<>> /\ to_upstream = <<>> /\ from_upstream = <<>>
  /\ to_server = <<>>
  /\ pending = {} /\ channels = {}

-----------------------------------------------------------------------------
(* The status queue, and the broadcast channel: its capacity is one, so a    *)
(* receiver that has not read the last message when the next one is sent     *)
(* gets Err(Lagged) once and then the new message.                           *)

Report(s) == status' = Append(status, s)

Writing(u) == outbound[u] # <<>>

Broadcast(n) ==
  /\ notice' = n
  /\ held' = {u \in Upstream : Writing(u)}
  /\ unread' = [r \in Task |->
       IF ~Live(r) THEN "none" ELSE IF unread[r] = "none" THEN "message" ELSE "lag"]

Lags(r) == Live(r) /\ unread[r] = "lag"
Hears(r, notices) == Live(r) /\ unread[r] = "message" /\ notice \in notices
Passed(r) == unread' = [unread EXCEPT ![r] = IF @ = "lag" THEN "message" ELSE "none"]

Becomes(r, state) == task' = [task EXCEPT ![r] = state]
Ends(r) == Becomes(r, "ended") /\ unread' = [unread EXCEPT ![r] = "none"]
Quits(r) == Becomes(r, "lagged") /\ unread' = [unread EXCEPT ![r] = "none"]
Closes(r) == Becomes(r, "closed") /\ unread' = [unread EXCEPT ![r] = "none"]

-----------------------------------------------------------------------------
(* A miner's task. *)

Input == inputs < MaxInputs /\ inputs' = inputs + 1           \* bound

\* The first message of a miner asks the server for a channel; it and all that
\* follow wait for the channel. (A server that closed its queue: SessionFails.)
SessionMessage(m) ==
  /\ task[Session(m)] = "running"
  /\ task[Server] # "closed"
  /\ Input
  /\ Becomes(Session(m), "waiting")
  /\ asks' = Append(asks, m)
  /\ UNCHANGED <<mainVars, linkVars, status, notice, unread, downstreams, to_cm, to_upstream,
                 from_upstream, to_server, managerVars>>

\* The miner hangs up, or one of its messages or of the server's fails.
SessionFails(m) ==
  /\ Live(Session(m))
  /\ Ends(Session(m))
  /\ Report(DownstreamShutdown(m))
  /\ UNCHANGED <<inputs, mainVars, linkVars, notice, downstreams, queues, managerVars>>

\* A lag ends the task like a closed channel, and nothing is reported.
SessionNotice(m) ==
  /\ \/ Lags(Session(m)) /\ Quits(Session(m))
     \/ /\ Hears(Session(m), {ShutdownAll, UpstreamFallback, DownstreamShutdown(m)})
        /\ Ends(Session(m))
     \/ /\ Hears(Session(m), {DownstreamShutdown(n) : n \in Miner \ {m}})
        /\ Passed(Session(m)) /\ UNCHANGED task
  /\ UNCHANGED <<inputs, mainVars, linkVars, status, notice, downstreams, queues, managerVars>>

-----------------------------------------------------------------------------
(* The SV1 server. *)

ServerAccept(m) ==
  /\ Live(Server)
  /\ task[Session(m)] = "absent"
  /\ Input
  /\ Becomes(Session(m), "running")
  /\ downstreams' = downstreams \cup {m}
  /\ UNCHANGED <<mainVars, linkVars, status, notice, unread, queues, managerVars>>

\* handle_open_channel_request: a miner that is gone is only logged.
ServerOpenRequest ==
  /\ Live(Server)
  /\ asks # <<>>
  /\ asks' = Tail(asks)
  /\ to_cm' = IF Head(asks) \in downstreams THEN Append(to_cm, <<"open", Head(asks)>>) ELSE to_cm
  /\ UNCHANGED <<inputs, mainVars, linkVars, status, notice, unread, task, downstreams, to_upstream,
                 from_upstream, to_server, managerVars>>

\* OpenExtendedMiningChannelSuccess: the miner, if it is still known, has a channel.
ServerOpened ==
  /\ Live(Server)
  /\ to_server # <<>>
  /\ to_server' = Tail(to_server)
  /\ LET m == Head(to_server)
     IN  task' = IF m \in downstreams /\ task[Session(m)] = "waiting"
                   THEN [task EXCEPT ![Session(m)] = "mining"] ELSE task
  /\ UNCHANGED <<inputs, mainVars, linkVars, status, notice, unread, downstreams, asks, to_cm,
                 to_upstream, from_upstream, managerVars>>

ServerStays ==                                                         \* mutant
  /\ \/ /\ Lags(Server) \/ Hears(Server, {UpstreamFallback})
        /\ Passed(Server) /\ UNCHANGED <<task, downstreams, to_cm>>
     \/ /\ Hears(Server, {ShutdownAll})
        /\ Closes(Server) /\ UNCHANGED <<downstreams, to_cm>>
     \/ \E m \in Miner :
          /\ Hears(Server, {DownstreamShutdown(m)})
          /\ Passed(Server)
          /\ downstreams' = downstreams \ {m}
          /\ UNCHANGED <<task, to_cm>>
  /\ UNCHANGED <<inputs, mainVars, linkVars, status, notice, asks, to_upstream, from_upstream,
                 to_server, managerVars>>

\* A lag is ignored. A miner that is removed has its channel closed, if it was
\* told of one; the fallback forgets all miners and ends the server.
ServerNotice ==
  /\ \/ /\ Lags(Server)
        /\ Passed(Server) /\ UNCHANGED <<task, downstreams, to_cm>>
     \/ /\ Hears(Server, {ShutdownAll})
        /\ Closes(Server) /\ UNCHANGED <<downstreams, to_cm>>
     \/ \E m \in Miner :
          /\ Hears(Server, {DownstreamShutdown(m)})
          /\ Passed(Server)
          /\ downstreams' = downstreams \ {m}
          /\ \/ m \in downstreams /\ to_cm' = Append(to_cm, <<"close", m>>)
             \/ UNCHANGED to_cm
          /\ UNCHANGED task
     \/ /\ Hears(Server, {UpstreamFallback})
        /\ Ends(Server)
        /\ downstreams' = {}
        /\ UNCHANGED to_cm
  /\ UNCHANGED <<inputs, mainVars, linkVars, status, notice, asks, to_upstream, from_upstream,
                 to_server, managerVars>>

\* The channel manager ended and closed the server's queues.
ServerClosed ==
  /\ Live(Server)
  /\ task[CM] = "ended"
  /\ Closes(Server)
  /\ Report(Sv1ServerShutdown)
  /\ UNCHANGED <<inputs, mainVars, linkVars, notice, downstreams, queues, managerVars>>

-----------------------------------------------------------------------------
(* The channel manager. *)

CmDownstreamMessage ==
  /\ Live(CM)
  /\ to_cm # <<>>
  /\ to_cm' = Tail(to_cm)
  /\ to_upstream' = Append(to_upstream, Head(to_cm))
  /\ pending' = pending \cup {m \in Miner : Head(to_cm) = <<"open", m>>}
  /\ UNCHANGED <<inputs, mainVars, linkVars, status, notice, unread, task, downstreams, asks,
                 from_upstream, to_server, channels>>

\* An answer of the upstream. A success nobody is waiting for is an error that
\* ends the manager; a refusal is reported as the loss of the upstream.
CmUpstreamFrame ==
  /\ Live(CM)
  /\ from_upstream # <<>>
  /\ from_upstream' = Tail(from_upstream)
  /\ LET kind == Head(from_upstream)[1]
         m == Head(from_upstream)[2]
         u == Head(from_upstream)[3]
     IN  \/ /\ kind = "success" /\ m \in pending
            /\ pending' = pending \ {m}
            /\ channels' = channels \cup {<<m, u>>}
            /\ to_server' = Append(to_server, m)
            /\ UNCHANGED <<task, unread, status>>
         \/ /\ kind = "success" /\ m \notin pending
            /\ Ends(CM)
            /\ Report(ChannelManagerShutdown)
            /\ UNCHANGED <<to_server, managerVars>>
         \/ /\ kind = "error"
            /\ Report(UpstreamShutdown)
            /\ UNCHANGED <<task, unread, to_server, managerVars>>
  /\ UNCHANGED <<inputs, mainVars, linkVars, notice, downstreams, asks, to_cm, to_upstream>>

CmIgnoresShutdown ==                                                   \* mutant
  /\ \/ /\ Lags(CM) \/ Hears(CM, {ShutdownAll} \cup {DownstreamShutdown(m) : m \in Miner})
        /\ Passed(CM) /\ UNCHANGED <<task, managerVars>>
     \/ /\ Hears(CM, {UpstreamFallback})
        /\ Passed(CM)
        /\ pending' = {} /\ channels' = {}
        /\ UNCHANGED task
  /\ UNCHANGED <<inputs, mainVars, linkVars, status, notice, downstreams, queues>>

CmKeepsTx ==                                                           \* mutant
  /\ \/ /\ Lags(CM) \/ Hears(CM, {DownstreamShutdown(m) : m \in Miner})
        /\ Passed(CM) /\ UNCHANGED <<task, managerVars>>
     \/ /\ Hears(CM, {ShutdownAll})
        /\ Ends(CM) /\ UNCHANGED managerVars
     \/ /\ Hears(CM, {UpstreamFallback})
        /\ pending' = {} /\ channels' = {}
        /\ UNCHANGED <<task, unread>>
  /\ UNCHANGED <<inputs, mainVars, linkVars, status, notice, downstreams, queues>>

\* reset_for_upstream_reconnection, and then tx is dropped. A lag is ignored.
CmNotice ==
  /\ \/ /\ Lags(CM) \/ Hears(CM, {DownstreamShutdown(m) : m \in Miner})
        /\ Passed(CM) /\ UNCHANGED <<task, managerVars>>
     \/ /\ Hears(CM, {ShutdownAll})
        /\ Ends(CM) /\ UNCHANGED managerVars
     \/ /\ Hears(CM, {UpstreamFallback})
        /\ Passed(CM)
        /\ pending' = {} /\ channels' = {}
        /\ UNCHANGED task
  /\ UNCHANGED <<inputs, mainVars, linkVars, status, notice, downstreams, queues>>

-----------------------------------------------------------------------------
(* The upstream task and its connection. *)

\* The upstream hangs up or the connection breaks, and the reader closes both queues.
ReaderEnds ==
  /\ link
  /\ link' = FALSE
  /\ failed' = failed \cup {current}
  /\ UNCHANGED <<inputs, mainVars, current, asked, outbound, held, status, notice, unread, task,
                 downstreams, queues, managerVars>>

\* A frame is written. The next `select!` takes another one, also from a closed queue,
\* or a notice; ShutdownAll ends the writer.
WriterWrote(u) ==
  /\ Writing(u)
  /\ \/ /\ outbound' = [outbound EXCEPT ![u] = Tail(@)]
        /\ held' = {v \in held : v = u => Tail(outbound[u]) # <<>>}
     \/ /\ u \in held
        /\ outbound' = [outbound EXCEPT ![u] = IF notice = ShutdownAll THEN <<>> ELSE Tail(@)]
        /\ held' = held \ {u}
  /\ asked' = asked \cup {m \in Miner : u = current /\ Head(outbound[u]) = <<"open", m>>}
  /\ UNCHANGED <<inputs, mainVars, failed, current, link, status, notice, unread, task, downstreams,
                 queues, managerVars>>

\* The write fails, and the writer closes both queues.
WriterFails(u) ==
  /\ Writing(u)
  /\ outbound' = [outbound EXCEPT ![u] = <<>>]
  /\ held' = held \ {u}
  /\ link' = (link /\ u # current)
  /\ failed' = failed \cup {u}
  /\ UNCHANGED <<inputs, mainVars, current, asked, status, notice, unread, task, downstreams, queues,
                 managerVars>>

\* A frame of the channel manager. One that cannot be sent is reported, and
\* the task goes on.
UpstreamSends ==
  /\ Live(UpstreamTask)
  /\ to_upstream # <<>>
  /\ to_upstream' = Tail(to_upstream)
  /\ \/ /\ link
        /\ outbound' = [outbound EXCEPT ![current] = Append(@, Head(to_upstream))]
        /\ UNCHANGED status
     \/ /\ ~link
        /\ Report(UpstreamShutdown)
        /\ UNCHANGED outbound
  /\ UNCHANGED <<inputs, mainVars, failed, current, link, asked, held, notice, unread, task,
                 downstreams, asks, to_cm, from_upstream, to_server, managerVars>>

\* A frame of the upstream, read while the reader was there: its answer to a
\* request, passed on to the channel manager,
UpstreamAnswers(m) ==
  /\ Live(UpstreamTask)
  /\ m \in asked
  /\ asked' = asked \ {m}
  /\ \/ /\ from_upstream' = Append(from_upstream, <<"success", m, current>>)
        /\ UNCHANGED failed
     \/ /\ from_upstream' = Append(from_upstream, <<"error", m, current>>)
        /\ failed' = failed \cup {current}
  /\ UNCHANGED <<inputs, mainVars, current, link, outbound, held, status, notice, unread, task,
                 downstreams, asks, to_cm, to_upstream, to_server, managerVars>>

\* ... or a message it may not send: reported, and the task goes on.
UpstreamMisbehaves ==
  /\ Live(UpstreamTask)
  /\ current \notin failed                                  \* bound: once
  /\ failed' = failed \cup {current}
  /\ Report(UpstreamShutdown)
  /\ UNCHANGED <<inputs, mainVars, current, link, asked, outbound, held, notice, unread, task,
                 downstreams, queues, managerVars>>

UpstreamClosedSilently ==                                              \* mutant
  /\ Live(UpstreamTask)
  /\ ~link \/ task[CM] = "ended"
  /\ Ends(UpstreamTask)
  /\ UNCHANGED <<inputs, mainVars, linkVars, status, notice, downstreams, queues, managerVars>>

\* The queue of the reader, or that of the channel manager, is closed.
UpstreamClosed ==
  /\ Live(UpstreamTask)
  /\ ~link \/ task[CM] = "ended"
  /\ Ends(UpstreamTask)
  /\ Report(UpstreamShutdown)
  /\ UNCHANGED <<inputs, mainVars, linkVars, notice, downstreams, queues, managerVars>>

\* A lag ends the task as if the channel were closed, and nothing is reported.
UpstreamNotice ==
  /\ \/ Lags(UpstreamTask) /\ Quits(UpstreamTask)
     \/ /\ Hears(UpstreamTask, {ShutdownAll, UpstreamFallback})
        /\ Ends(UpstreamTask)
     \/ /\ Hears(UpstreamTask, {DownstreamShutdown(m) : m \in Miner})
        /\ Passed(UpstreamTask) /\ UNCHANGED task
  /\ UNCHANGED <<inputs, mainVars, linkVars, status, notice, downstreams, queues, managerVars>>

-----------------------------------------------------------------------------
(* TranslatorSv2::start. *)

\* ShutdownAll is broadcast and the loop is left; the reader closes the queues.
Leaves(why) ==
  /\ Broadcast(ShutdownAll)
  /\ link' = FALSE
  /\ main' = "joining"
  /\ cause' = why

HandleStatus ==
  /\ main = "loop"
  /\ status # <<>>
  /\ status' = Tail(status)
  /\ \/ /\ \E m \in Miner : Head(status) = DownstreamShutdown(m)
        /\ Broadcast(Head(status))
        /\ UNCHANGED <<main, cause, link>>
     \/ /\ Head(status) = UpstreamShutdown
        /\ Broadcast(UpstreamFallback)
        /\ main' = "acknowledging"
        /\ UNCHANGED <<cause, link>>
     \/ /\ Head(status) \in {ChannelManagerShutdown, Sv1ServerShutdown}
        /\ Leaves("component")
  /\ UNCHANGED <<inputs, tried, failed, current, asked, outbound, task, downstreams, queues,
                 managerVars>>

\* rx.recv() returns when every receiver has read the message and dropped its tx.
Acknowledged ==
  /\ main = "acknowledging"
  /\ held = {}
  /\ \A r \in Task : Live(r) => unread[r] = "none"
  /\ main' = "connecting"
  /\ UNCHANGED <<inputs, cause, tried, linkVars, status, notice, unread, task, downstreams, queues,
                 managerVars>>

Candidate == CHOOSE u \in Upstream \ tried : \A v \in Upstream \ tried : u <= v

\* The first upstream not yet flagged fails all of MAX_RETRIES attempts. One may have
\* got as far as SetupConnection, with a writer that is writing it.
ConnectFails ==
  /\ main = "connecting"
  /\ tried # Upstream
  /\ tried' = tried \cup {Candidate}
  /\ failed' = failed \cup {Candidate}
  /\ \/ UNCHANGED outbound
     \/ outbound' = [outbound EXCEPT ![Candidate] = <<SetupConnection>>]
  /\ UNCHANGED <<inputs, main, cause, current, link, asked, held, status, notice, unread, task,
                 downstreams, queues, managerVars>>

\* It accepts one of them, and SetupConnection: the upstream task starts.
ConnectSucceeds ==
  /\ main = "connecting"
  /\ tried # Upstream
  /\ current' = Candidate
  /\ link' = TRUE /\ asked' = {}
  /\ Becomes(UpstreamTask, "running")
  /\ main' = "binding"
  /\ UNCHANGED <<inputs, cause, tried, failed, outbound, held, status, notice, unread, downstreams,
                 queues, managerVars>>

\* The SV1 server has its port and starts, the channel manager too if this is the
\* first connection.
ServerStarts ==
  /\ main = "binding"
  /\ tried' = tried \cup {current}
  /\ task' = [task EXCEPT ![Server] = "running",
                          ![CM] = IF @ = "absent" THEN "running" ELSE @]
  /\ main' = "loop"
  /\ UNCHANGED <<inputs, cause, linkVars, status, notice, unread, downstreams, queues, managerVars>>

\* No upstream is left, or the SV1 port cannot be bound. At the first attempt
\* start() just returns.
ConnectGivesUp ==
  /\ \E why \in {"no_upstream", "no_listener"} :
       /\ \/ main = "connecting" /\ tried = Upstream /\ why = "no_upstream"
          \/ main = "binding" /\ why = "no_listener"
       /\ \/ /\ task[CM] = "absent"
             /\ main' = "stopped" /\ cause' = why
             /\ UNCHANGED <<link, held, notice, unread>>
          \/ task[CM] # "absent" /\ Leaves(why)
  /\ UNCHANGED <<inputs, tried, failed, current, asked, outbound, status, task, downstreams, queues,
                 managerVars>>

CtrlC ==
  /\ main = "loop"
  /\ Leaves("ctrl_c")
  /\ UNCHANGED <<inputs, tried, failed, current, asked, outbound, status, task, downstreams, queues,
                 managerVars>>

\* Every clone of shutdown_complete_tx is dropped; the I/O tasks hold none.
Completed ==
  /\ main = "joining"
  /\ \A r \in Task : ~Live(r)
  /\ main' = "joining_all"
  /\ UNCHANGED <<inputs, cause, tried, linkVars, status, notice, unread, task, downstreams, queues,
                 managerVars>>

\* Or five seconds have passed, and all tasks are aborted.
ShutdownTimeout ==
  /\ main = "joining"
  /\ task' = [r \in Task |-> IF Live(r) THEN "ended" ELSE task[r]]
  /\ unread' = [r \in Task |-> "none"]
  /\ outbound' = [u \in Upstream |-> <<>>] /\ held' = {}
  /\ main' = "joining_all"
  /\ UNCHANGED <<inputs, cause, tried, failed, current, link, asked, status, notice, downstreams,
                 queues, managerVars>>

\* join_all returns.
Joined ==
  /\ main = "joining_all"
  /\ \A u \in Upstream : ~Writing(u)
  /\ main' = "stopped"
  /\ UNCHANGED <<inputs, cause, tried, linkVars, status, notice, unread, task, downstreams, queues,
                 managerVars>>

-----------------------------------------------------------------------------
\* The process ends with start().
TasksNext ==
  /\ main # "stopped"
  /\ \/ \E m \in Miner :
          \/ SessionMessage(m) \/ SessionFails(m) \/ SessionNotice(m)
          \/ ServerAccept(m) \/ UpstreamAnswers(m)
     \/ ServerOpenRequest \/ ServerOpened \/ ServerNotice \/ ServerClosed
     \/ CmDownstreamMessage \/ CmUpstreamFrame \/ CmNotice
     \/ ReaderEnds \/ \E u \in Upstream : WriterWrote(u) \/ WriterFails(u)
     \/ UpstreamSends \/ UpstreamMisbehaves \/ UpstreamClosed \/ UpstreamNotice
     \/ HandleStatus \/ Acknowledged \/ ConnectFails \/ ConnectSucceeds \/ ServerStarts
     \/ ConnectGivesUp \/ CtrlC \/ Completed \/ ShutdownTimeout \/ Joined

TasksSpec == TasksInit /\ [][TasksNext]_tasksVars

\* The tasks' own branches: `select!` polls them in random order, so one that
\* stays ready is taken. Nothing is assumed of miners, upstreams, write_frame,
\* Ctrl+C or the shutdown timer.
Fairness ==
  /\ \A m \in Miner : WF_tasksVars(SessionNotice(m))
  /\ WF_tasksVars(ServerNotice) /\ WF_tasksVars(CmNotice) /\ WF_tasksVars(UpstreamNotice)
  /\ WF_tasksVars(UpstreamClosed) /\ WF_tasksVars(HandleStatus) /\ WF_tasksVars(Acknowledged)

FairSpec == TasksSpec /\ Fairness

-----------------------------------------------------------------------------
(* Properties. *)

TaskState == {"absent", "running", "waiting", "mining", "ended", "closed", "lagged"}

\* The type invariant: queues hold the messages of their types, and every upstream
\* met is one of the configured ones.
TasksTypeOK ==
  /\ main \in {"connecting", "binding", "loop", "acknowledging", "joining", "joining_all",
               "stopped"}
  /\ cause \in {None, "component", "no_upstream", "no_listener", "ctrl_c"}
  /\ tried \subseteq Upstream /\ failed \subseteq Upstream
  /\ current \in {None} \cup Upstream
  /\ link \in BOOLEAN
  /\ outbound \in [Upstream -> Seq(Frame)] /\ held \subseteq Upstream
  /\ inputs \in 0..MaxInputs
  /\ asked \subseteq Miner
  /\ status \in Seq(Status)
  /\ unread \in [Task -> {"none", "message", "lag"}]
  /\ task \in [Task -> TaskState]
  /\ downstreams \subseteq Miner
  /\ asks \in Seq(Miner) /\ to_server \in Seq(Miner)
  /\ to_cm \in Seq(Request) /\ to_upstream \in Seq(Request)
  /\ from_upstream \in Seq(Answer)
  /\ pending \subseteq Miner
  /\ channels \subseteq Miner \X Upstream

Reported(s) == \E i \in DOMAIN status : status[i] = s

\* When the fallback is acknowledged its upstream task and SV1 server have ended
\* and no miner is registered, until the next server starts: it starts from nothing.
\* (A server that failed keeps its miners, but the translator is about to end then.)
FallbackLeavesNothing ==
  /\ main = "connecting" => ~Live(UpstreamTask)
  /\ main \in {"connecting", "binding"} =>
       ~Live(Server) /\ (downstreams = {} \/ Reported(Sv1ServerShutdown))

\* The main loop does not wait for the acknowledgements forever, provided that no
\* writer stays inside write_frame: one that does keeps the notice, and the fallback
\* from the pool that no longer reads would wait for that very pool.
FallbackCompletes ==
  (\A u \in Upstream : []<>~Writing(u)) =>
    (main = "acknowledging" ~> main # "acknowledging")

\* The loss of a connection is followed by a fallback or by the end of the
\* translator, unless the upstream task has fallen behind the broadcasts and
\* left without a word.
LossIsHandled ==
  (main = "loop" /\ Live(UpstreamTask) /\ ~link) ~>
    main # "loop" \/ task[UpstreamTask] = "lagged"

\* Once the loop is left every component ends without the help of the timeout,
\* which is there for a miner's task that subscribed after the broadcast.
ShutdownReachesComponents ==
  main = "joining" ~> \A r \in {UpstreamTask, CM, Server} : ~Live(r)

=============================================================================
