--------------------------- MODULE FilePersistence ---------------------------
(***************************************************************************)
(* The file backend of stratum-apps/src/persistence: callers hand events   *)
(* to a bounded channel without waiting, one worker task writes them. An   *)
(* event is named by the number of the persist_event call that brought it. *)
(***************************************************************************)
EXTENDS Integers, Sequences, FiniteSets

CONSTANTS
  ChannelSize,      \* capacity of the channel between callers and worker
  MaxEvents         \* bound: calls of persist_event

ASSUME SizeAssumption == ChannelSize \in Nat \ {0} /\ MaxEvents \in Nat

VARIABLES
  calls,            \* calls of persist_event so far
  accepted,         \* the events for which it returned Ok
  handles,          \* some clone of the FileBackend still exists
  channel,          \* the commands in the channel
  worker,           \* where worker_loop is
  in_flight,        \* the line tokio's blocking pool is writing, or NoEvent
  write_err,        \* that write failed and nobody has been told yet
  file,             \* the lines of the log file
  failed            \* history: events whose write failed, logged or not

vars == <<calls, accepted, handles, channel, worker, in_flight, write_err, file, failed>>

NoEvent == 0
Event == 1..MaxEvents
Write(e) == <<"Write", e>>
Flush == <<"Flush", NoEvent>>
Shutdown == <<"Shutdown", NoEvent>>
FileCommand == {Write(e) : e \in Event} \cup {Flush, Shutdown}

Queued == {e \in Event : \E i \in DOMAIN channel : channel[i] = Write(e)}
Lines == {file[i] : i \in DOMAIN file}

Init ==
  /\ calls = 0
  /\ accepted = {}
  /\ handles = TRUE
  /\ channel = <<>>
  /\ worker = "opening"
  /\ in_flight = NoEvent
  /\ write_err = FALSE
  /\ file = <<>>
  /\ failed = {}

-----------------------------------------------------------------------------
(* The callers. *)

TrySendUnbounded(command) ==                                           \* mutant
  worker # "ended" /\ channel' = Append(channel, command)

\* try_send fails on a full channel and on one whose receiver is gone.
TrySend(command) ==
  /\ Len(channel) < ChannelSize
  /\ worker # "ended"
  /\ channel' = Append(channel, command)

PersistEventBlindly ==                                                 \* mutant
  /\ handles
  /\ calls < MaxEvents
  /\ calls' = calls + 1
  /\ accepted' = accepted \cup {calls + 1}
  /\ \/ TrySend(Write(calls + 1))
     \/ Len(channel) = ChannelSize /\ UNCHANGED channel
  /\ UNCHANGED <<handles, worker, in_flight, write_err, file, failed>>

PersistEvent ==
  /\ handles
  /\ calls < MaxEvents                                      \* bound
  /\ calls' = calls + 1
  /\ \/ TrySend(Write(calls + 1)) /\ accepted' = accepted \cup {calls + 1}
     \/ /\ Len(channel) = ChannelSize \/ worker = "ended"        \* ChannelFull
        /\ UNCHANGED <<channel, accepted>>
  /\ UNCHANGED <<handles, worker, in_flight, write_err, file, failed>>

\* flush and shutdown only send a command; refused, they change nothing.
SendCommand(command) ==
  /\ handles
  /\ TrySend(command)
  /\ UNCHANGED <<calls, accepted, handles, worker, in_flight, write_err, file, failed>>

DropHandles ==
  /\ handles
  /\ handles' = FALSE
  /\ UNCHANGED <<calls, accepted, channel, worker, in_flight, write_err, file, failed>>

-----------------------------------------------------------------------------
(* The worker. *)

OpenFile ==
  /\ worker = "opening"
  /\ \/ worker' = "receiving" /\ UNCHANGED channel
     \/ worker' = "ended" /\ channel' = <<>>
  /\ UNCHANGED <<calls, accepted, handles, in_flight, write_err, file, failed>>

\* tokio's File: write_all waits for the line in flight, reports its failure
\* (and then does not write), or hands the new line to the blocking pool.
WriteAll(e) ==
  /\ in_flight = NoEvent
  /\ IF write_err
       THEN write_err' = FALSE /\ failed' = failed \cup {e} /\ UNCHANGED in_flight
       ELSE in_flight' = e /\ UNCHANGED <<write_err, failed>>

FlushFile ==
  /\ in_flight = NoEvent
  /\ write_err' = FALSE
  /\ UNCHANGED <<in_flight, failed>>

WorkerRetries ==                                                       \* mutant
  /\ worker \in {"receiving", "draining"}
  /\ channel # <<>>
  /\ \/ /\ \E e \in Event : Head(channel) = Write(e) /\ WriteAll(e)
        /\ channel' = IF write_err THEN channel ELSE Tail(channel)
        /\ UNCHANGED worker
     \/ /\ Head(channel) = Flush
        /\ FlushFile
        /\ channel' = Tail(channel)
        /\ UNCHANGED worker
  /\ UNCHANGED <<calls, accepted, handles, file>>

\* One command is received and carried out, in the loop or in the drain that the first
\* Shutdown starts; a second Shutdown ends the drain. A write that fails is logged in
\* the loop and passed over in silence in the drain.
WorkerCommand ==
  /\ worker \in {"receiving", "draining"}
  /\ channel # <<>>
  /\ channel' = Tail(channel)
  /\ \/ /\ \E e \in Event : Head(channel) = Write(e) /\ WriteAll(e)
        /\ UNCHANGED worker
     \/ /\ Head(channel) = Flush
        /\ FlushFile
        /\ UNCHANGED worker
     \/ /\ Head(channel) = Shutdown
        /\ worker' = IF worker = "receiving" THEN "draining" ELSE "flushing"
        /\ UNCHANGED <<in_flight, write_err, failed>>
  /\ UNCHANGED <<calls, accepted, handles, file>>

\* The drain found the channel empty, or the channel is closed and empty.
WorkerDrained ==
  /\ channel = <<>>
  /\ worker = "draining" \/ (worker = "receiving" /\ ~handles)
  /\ worker' = "flushing"
  /\ UNCHANGED <<calls, accepted, handles, channel, in_flight, write_err, file, failed>>

WorkerEnds ==
  /\ worker = "flushing"
  /\ FlushFile
  /\ worker' = "ended"
  /\ channel' = <<>>
  /\ UNCHANGED <<calls, accepted, handles, file>>

\* The task is aborted by the TaskManager, as the pool does when it stops.
WorkerAborted ==
  /\ worker # "ended"
  /\ worker' = "ended"
  /\ channel' = <<>>
  /\ UNCHANGED <<calls, accepted, handles, in_flight, write_err, file, failed>>

\* The blocking pool, which no abort reaches.
DiskWrite ==
  /\ in_flight # NoEvent
  /\ in_flight' = NoEvent
  /\ \/ file' = Append(file, in_flight) /\ UNCHANGED <<write_err, failed>>
     \/ write_err' = TRUE /\ failed' = failed \cup {in_flight} /\ UNCHANGED file
  /\ UNCHANGED <<calls, accepted, handles, channel, worker>>

-----------------------------------------------------------------------------
Caller == PersistEvent \/ SendCommand(Flush) \/ SendCommand(Shutdown) \/ DropHandles
Worker == OpenFile \/ WorkerCommand \/ WorkerDrained \/ WorkerEnds

Next == Caller \/ Worker \/ WorkerAborted \/ DiskWrite

Spec == Init /\ [][Next]_vars

\* The worker's task and the blocking pool are scheduled; callers need not call.
FairSpec == Spec /\ WF_vars(Worker) /\ WF_vars(DiskWrite)

-----------------------------------------------------------------------------
(* Properties. *)

\* The type invariant; the channel never holds more than its capacity.
TypeOK ==
  /\ calls \in 0..MaxEvents
  /\ accepted \subseteq 1..calls
  /\ handles \in BOOLEAN
  /\ channel \in Seq(FileCommand)
  /\ Len(channel) <= ChannelSize
  /\ worker \in {"opening", "receiving", "draining", "flushing", "ended"}
  /\ in_flight \in Event \cup {NoEvent}
  /\ write_err \in BOOLEAN
  /\ file \in Seq(Event)
  /\ failed \subseteq Event

\* The file holds accepted events only, in the order of their calls and none
\* twice, and none of those that failed.
FileInOrder ==
  /\ Lines \subseteq accepted \ failed
  /\ \A i, j \in DOMAIN file : i < j => file[i] < file[j]

\* While the worker runs, an event for which persist_event returned Ok is in
\* the channel, being written, in the file, or failed. (Once a Shutdown was read, and
\* for what fails in the last flush, nothing is logged of the failure.)
NothingLostWhileRunning ==
  worker # "ended" =>
    accepted = Queued \cup Lines \cup failed
                 \cup (IF in_flight = NoEvent THEN {} ELSE {in_flight})

\* Every accepted event is written (or has failed) in the end, whatever
\* is flushed, refused or dropped meanwhile, unless the worker ends first.
AcceptedIsWritten ==
  \A e \in Event : e \in accepted ~> e \in Lines \cup failed \/ worker = "ended"

\* The accepted events without an outcome.
Unsettled == Queued \cup (IF in_flight = NoEvent THEN {} ELSE {in_flight})

\* The events of a set in the order of their calls.
InCallOrder(S) ==
  CHOOSE s \in [1..Cardinality(S) -> S] :
    /\ \A e \in S : \E i \in DOMAIN s : s[i] = e
    /\ \A i, j \in DOMAIN s : i < j => s[i] < s[j]

Pending == InCallOrder(Unsettled)

Log == INSTANCE EventLog WITH open <- worker # "ended", pending <- Pending

\* Channel, worker and blocking pool together are an event log: whatever is
\* refused, flushed, fails, or is drained by one Shutdown or by two, events get
\* their outcomes in order, and only the end of the worker loses any.
ImplementsLog == Log!Spec

=============================================================================
