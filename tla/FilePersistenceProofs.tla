------------------------ MODULE FilePersistenceProofs ------------------------
(***************************************************************************)
(* Proofs about FilePersistence, for any channel size and number of events.*)
(***************************************************************************)
EXTENDS FilePersistence, FiniteSetTheorems, WellFoundedInduction, TLAPS

InFlight == IF in_flight = NoEvent THEN {} ELSE {in_flight}

\* Writes leave the channel in the order of their calls.
ChannelInOrder ==
  \A i, j \in DOMAIN channel : \A e, f \in Event :
    i < j /\ channel[i] = Write(e) /\ channel[j] = Write(f) => e < f

\* What is queued comes after what is in flight, and both after what is done.
Pipeline ==
  /\ Queued \cup InFlight \cup failed \subseteq accepted
  /\ \A e \in Queued, x \in InFlight \cup Lines \cup failed : x < e
  /\ \A e \in InFlight, x \in Lines \cup failed : x < e

IInv == TypeOK /\ ChannelInOrder /\ Pipeline /\ FileInOrder /\ NothingLostWhileRunning

-----------------------------------------------------------------------------
(* The channel and the file. *)

\* Commands carry their event.
LEMMA Commands ==
  /\ \A e \in Event : Write(e) \in FileCommand /\ Write(e) # Flush /\ Write(e) # Shutdown
  /\ \A e, f \in Event : Write(e) = Write(f) => e = f
  /\ Flush \in FileCommand /\ Shutdown \in FileCommand
  /\ MaxEvents \in Nat /\ Event \subseteq Nat /\ NoEvent \notin Event
BY SizeAssumption DEF Write, Flush, Shutdown, FileCommand, Event, NoEvent

\* A command at the end adds its event to what is queued.
LEMMA QueuedOfAppend ==
  ASSUME TypeOK, NEW command \in FileCommand, channel' = Append(channel, command)
  PROVE  Queued' = Queued \cup {e \in Event : command = Write(e)}
<1>1. /\ DOMAIN channel' = 1..(Len(channel) + 1) /\ DOMAIN channel = 1..Len(channel)
      /\ Len(channel) \in Nat
      /\ \A i \in 1..Len(channel) : channel'[i] = channel[i]
      /\ channel'[Len(channel) + 1] = command
  BY DEF TypeOK
<1>2. \A e \in Event :
        (\E i \in DOMAIN channel' : channel'[i] = Write(e))
          <=> (\E i \in DOMAIN channel : channel[i] = Write(e)) \/ command = Write(e)
  BY <1>1
<1> QED
  BY <1>2 DEF Queued

\* Taking the first command takes its event, and leaves the later ones.
LEMMA QueuedOfTail ==
  ASSUME TypeOK, ChannelInOrder, channel # <<>>, channel' = Tail(channel)
  PROVE  /\ ChannelInOrder'
         /\ Queued = Queued' \cup {e \in Event : Head(channel) = Write(e)}
         /\ \A e \in Event : Head(channel) = Write(e) => \A f \in Queued' : e < f
<1>1. /\ DOMAIN channel' = 1..(Len(channel) - 1) /\ DOMAIN channel = 1..Len(channel)
      /\ Len(channel) \in Nat \ {0} /\ Head(channel) = channel[1]
      /\ \A i \in 1..(Len(channel) - 1) : channel'[i] = channel[i + 1]
  BY DEF TypeOK
<1>2. ChannelInOrder'
  <2> SUFFICES ASSUME NEW i \in DOMAIN channel', NEW j \in DOMAIN channel', NEW e \in Event,
                      NEW f \in Event, i < j, channel'[i] = Write(e), channel'[j] = Write(f)
               PROVE  e < f
    BY DEF ChannelInOrder
  <2>1. /\ i + 1 \in DOMAIN channel /\ j + 1 \in DOMAIN channel /\ i + 1 < j + 1
        /\ channel[i + 1] = Write(e) /\ channel[j + 1] = Write(f)
    BY <1>1
  <2> QED
    BY <2>1 DEF ChannelInOrder
<1>3. \A e \in Event :
        (\E i \in DOMAIN channel : channel[i] = Write(e))
          <=> (\E i \in DOMAIN channel' : channel'[i] = Write(e)) \/ Head(channel) = Write(e)
  <2> SUFFICES ASSUME NEW e \in Event
               PROVE  (\E i \in DOMAIN channel : channel[i] = Write(e))
                        <=> (\E i \in DOMAIN channel' : channel'[i] = Write(e))
                              \/ Head(channel) = Write(e)
    OBVIOUS
  <2>1. ASSUME NEW i \in DOMAIN channel, channel[i] = Write(e)
        PROVE  (\E j \in DOMAIN channel' : channel'[j] = Write(e)) \/ Head(channel) = Write(e)
    <3>1. CASE i = 1
      BY <1>1, <2>1, <3>1
    <3>2. CASE i # 1
      <4>1. i - 1 \in DOMAIN channel' /\ channel'[i - 1] = channel[i]
        BY <1>1, <3>2
      <4> QED
        BY <2>1, <4>1
    <3> QED
      BY <3>1, <3>2
  <2>2. ASSUME NEW i \in DOMAIN channel', channel'[i] = Write(e)
        PROVE  \E j \in DOMAIN channel : channel[j] = Write(e)
    <3>1. i + 1 \in DOMAIN channel /\ channel[i + 1] = Write(e)
      BY <1>1, <2>2
    <3> QED
      BY <3>1
  <2>3. Head(channel) = Write(e) => \E j \in DOMAIN channel : channel[j] = Write(e)
    BY <1>1
  <2> QED
    BY <2>1, <2>2, <2>3
<1>4. ASSUME NEW e \in Event, Head(channel) = Write(e), NEW f \in Queued' PROVE e < f
  <2>1. PICK i \in DOMAIN channel' : channel'[i] = Write(f) /\ f \in Event
    BY <1>4 DEF Queued
  <2>2. /\ 1 \in DOMAIN channel /\ i + 1 \in DOMAIN channel /\ 1 < i + 1
        /\ channel[1] = Write(e) /\ channel[i + 1] = Write(f)
    BY <1>1, <1>4, <2>1
  <2> QED
    BY <2>1, <2>2 DEF ChannelInOrder
<1> QED
  BY <1>2, <1>3, <1>4 DEF Queued

\* An empty channel holds nothing.
LEMMA QueuedOfEmpty ==
  ASSUME channel' = <<>>
  PROVE  Queued' = {} /\ ChannelInOrder'
<1>1. DOMAIN channel' = {}
  OBVIOUS
<1> QED
  BY <1>1 DEF Queued, ChannelInOrder

\* A line at the end of the file.
LEMMA LinesOfAppend ==
  ASSUME TypeOK, NEW e \in Event, file' = Append(file, e)
  PROVE  /\ Lines' = Lines \cup {e}
         /\ DOMAIN file' = 1..(Len(file) + 1) /\ DOMAIN file = 1..Len(file) /\ Len(file) \in Nat
         /\ \A i \in 1..Len(file) : file'[i] = file[i] /\ file[i] \in Lines
         /\ file'[Len(file) + 1] = e
<1>1. /\ DOMAIN file' = 1..(Len(file) + 1) /\ DOMAIN file = 1..Len(file) /\ Len(file) \in Nat
      /\ \A i \in 1..Len(file) : file'[i] = file[i]
      /\ file'[Len(file) + 1] = e
  BY DEF TypeOK
<1> QED
  BY <1>1 DEF Lines

\* What is queued, and its order, depend on the channel alone.
LEMMA SameQueue == UNCHANGED channel => Queued' = Queued /\ (ChannelInOrder => ChannelInOrder')
BY DEF Queued, ChannelInOrder

\* The lines depend on the file alone.
LEMMA SameFile == UNCHANGED file => Lines' = Lines
BY DEF Lines

-----------------------------------------------------------------------------
\* The invariant holds when the backend is created.
THEOREM InitInv == Init => IInv
<1> SUFFICES ASSUME Init PROVE IInv
  OBVIOUS
<1>1. /\ Queued = {} /\ Lines = {} /\ InFlight = {} /\ failed = {} /\ accepted = {}
      /\ DOMAIN channel = {} /\ DOMAIN file = {}
  BY DEF Init, Queued, Lines, InFlight
<1>2. TypeOK
  <2>1. channel \in Seq(FileCommand) /\ file \in Seq(Event) /\ Len(channel) = 0
    BY DEF Init
  <2>2. 0 <= ChannelSize /\ 0 \in 0..MaxEvents
    BY SizeAssumption
  <2> QED
    BY <2>1, <2>2 DEF Init, TypeOK
<1> QED
  BY <1>1, <1>2 DEF IInv, ChannelInOrder, Pipeline, FileInOrder, NothingLostWhileRunning, InFlight

-----------------------------------------------------------------------------
\* Every step of callers, worker and disk keeps the invariant.
THEOREM NextInv == IInv /\ [Next]_vars => IInv'
<1> SUFFICES ASSUME IInv, [Next]_vars PROVE IInv'
  OBVIOUS
<1> USE Commands
<1>0. TypeOK /\ ChannelInOrder /\ Len(channel) \in Nat /\ ChannelSize \in Nat
  BY SizeAssumption DEF IInv, TypeOK
<1>1. CASE PersistEvent
  <2>0. /\ calls' = calls + 1 /\ calls + 1 \in Event /\ calls \in Nat
        /\ \A e \in accepted : e < calls + 1
        /\ UNCHANGED <<handles, worker, in_flight, write_err, file, failed>>
    BY <1>0, <1>1 DEF PersistEvent, TypeOK, Event
  <2>1. CASE TrySend(Write(calls + 1)) /\ accepted' = accepted \cup {calls + 1}
    <3>1. channel' = Append(channel, Write(calls + 1)) /\ Len(channel) < ChannelSize
          /\ worker # "ended"
      BY <2>1 DEF TrySend
    <3>2. Queued' = Queued \cup {calls + 1}
      <4>1. {e \in Event : Write(calls + 1) = Write(e)} = {calls + 1}
        BY <2>0
      <4>2. Write(calls + 1) \in FileCommand
        BY <2>0
      <4> QED
        BY <1>0, <3>1, <4>1, <4>2, QueuedOfAppend
    <3>3. TypeOK'
      <4>1. channel' \in Seq(FileCommand) /\ Len(channel') <= ChannelSize
        BY <1>0, <2>0, <3>1 DEF TypeOK
      <4>2. accepted' \subseteq 1..calls' /\ calls' \in 0..MaxEvents
        BY <1>0, <2>0, <2>1 DEF TypeOK, Event
      <4> QED
        BY <1>0, <2>0, <4>1, <4>2 DEF TypeOK
    <3>4. ChannelInOrder'
      <4>1. /\ DOMAIN channel' = 1..(Len(channel) + 1) /\ DOMAIN channel = 1..Len(channel)
            /\ \A i \in 1..Len(channel) : channel'[i] = channel[i]
            /\ channel'[Len(channel) + 1] = Write(calls + 1)
        BY <1>0, <2>0, <3>1 DEF TypeOK
      <4> SUFFICES ASSUME NEW i \in DOMAIN channel', NEW j \in DOMAIN channel', NEW e \in Event,
                          NEW f \in Event, i < j, channel'[i] = Write(e), channel'[j] = Write(f)
                   PROVE  e < f
        BY DEF ChannelInOrder
      <4>2. i \in DOMAIN channel /\ channel[i] = Write(e)
        BY <1>0, <4>1
      <4>3. CASE j = Len(channel) + 1
        <5>1. f = calls + 1 /\ e \in Queued
          BY <2>0, <4>1, <4>2, <4>3 DEF Queued
        <5> QED
          BY <2>0, <5>1 DEF IInv, Pipeline
      <4>4. CASE j \in DOMAIN channel
        BY <1>0, <4>1, <4>2, <4>4 DEF ChannelInOrder
      <4> QED
        BY <1>0, <4>1, <4>3, <4>4
    <3>5. UNCHANGED <<InFlight, Lines>>
      BY <2>0 DEF InFlight, Lines
    <3>6. Pipeline'
      BY <2>0, <2>1, <3>2, <3>5 DEF IInv, Pipeline, FileInOrder
    <3>7. FileInOrder'
      BY <2>0, <2>1, <3>5 DEF IInv, FileInOrder, Pipeline
    <3>8. NothingLostWhileRunning'
      BY <2>0, <2>1, <3>1, <3>2, <3>5 DEF IInv, NothingLostWhileRunning
    <3> QED
      BY <3>3, <3>4, <3>6, <3>7, <3>8 DEF IInv
  <2>2. CASE UNCHANGED <<channel, accepted>>
    <3>1. TypeOK'
      BY <1>0, <2>0, <2>2 DEF TypeOK, Event
    <3>2. UNCHANGED <<Queued, Lines, InFlight>> /\ ChannelInOrder'
      BY <1>0, <2>0, <2>2, SameQueue, SameFile DEF InFlight
    <3> QED
      BY <2>0, <2>2, <3>1, <3>2
         DEF IInv, Pipeline, FileInOrder, NothingLostWhileRunning
  <2> QED
    BY <1>1, <2>1, <2>2 DEF PersistEvent
<1>2. ASSUME NEW command \in {Flush, Shutdown}, SendCommand(command) PROVE IInv'
  <2>1. /\ channel' = Append(channel, command) /\ Len(channel) < ChannelSize
        /\ UNCHANGED <<calls, accepted, handles, worker, in_flight, write_err, file, failed>>
    BY <1>2 DEF SendCommand, TrySend
  <2>2. UNCHANGED Queued
    BY <1>0, <2>1, QueuedOfAppend
  <2>3. TypeOK'
    BY <1>0, <2>1 DEF TypeOK
  <2>4. ChannelInOrder'
    <3>1. /\ DOMAIN channel' = 1..(Len(channel) + 1) /\ DOMAIN channel = 1..Len(channel)
          /\ \A i \in 1..Len(channel) : channel'[i] = channel[i]
          /\ channel'[Len(channel) + 1] = command
      BY <1>0, <2>1 DEF TypeOK
    <3>2. \A i \in DOMAIN channel' : \A e \in Event :
            channel'[i] = Write(e) => i \in DOMAIN channel /\ channel[i] = Write(e)
      BY <1>0, <3>1
    <3> QED
      BY <1>0, <3>2 DEF ChannelInOrder
  <2>5. UNCHANGED <<Lines, InFlight>>
    BY <2>1, SameFile DEF InFlight
  <2> QED
    BY <2>1, <2>2, <2>3, <2>4, <2>5 DEF IInv, Pipeline, FileInOrder, NothingLostWhileRunning
<1>3. CASE DropHandles \/ WorkerDrained \/ UNCHANGED vars
  <2>1. /\ UNCHANGED <<calls, accepted, channel, in_flight, write_err, file, failed>>
        /\ handles' \in BOOLEAN
        /\ worker' \in {worker, "flushing"} /\ (worker = "ended" => worker' = "ended")
    BY <1>0, <1>3 DEF DropHandles, WorkerDrained, vars, TypeOK
  <2>2. TypeOK'
    BY <1>0, <2>1 DEF TypeOK
  <2>3. UNCHANGED <<Queued, Lines, InFlight>> /\ ChannelInOrder'
    BY <1>0, <2>1, SameQueue, SameFile DEF InFlight
  <2> QED
    BY <2>1, <2>2, <2>3 DEF IInv, Pipeline, FileInOrder, NothingLostWhileRunning
<1>4. CASE OpenFile /\ UNCHANGED channel
  <2>1. /\ UNCHANGED <<calls, accepted, handles, channel, in_flight, write_err, file, failed>>
        /\ worker = "opening" /\ worker' \in {"receiving", "ended"}
    BY <1>4 DEF OpenFile
  <2>2. TypeOK'
    BY <1>0, <2>1 DEF TypeOK
  <2>3. UNCHANGED <<Queued, Lines, InFlight>> /\ ChannelInOrder'
    BY <1>0, <2>1, SameQueue, SameFile DEF InFlight
  <2> QED
    BY <2>1, <2>2, <2>3 DEF IInv, Pipeline, FileInOrder, NothingLostWhileRunning
<1>5. ASSUME channel' = <<>>, worker' = "ended", write_err' \in BOOLEAN,
             UNCHANGED <<calls, accepted, handles, in_flight, file, failed>>
      PROVE  IInv'
  <2>1. TypeOK'
    BY <1>0, <1>5 DEF TypeOK
  <2>2. Queued' = {} /\ ChannelInOrder' /\ UNCHANGED <<Lines, InFlight>>
    BY <1>5, QueuedOfEmpty, SameFile DEF InFlight
  <2> QED
    BY <1>5, <2>1, <2>2 DEF IInv, Pipeline, FileInOrder, NothingLostWhileRunning
<1>6. CASE WorkerEnds \/ WorkerAborted \/ (OpenFile /\ worker' = "ended" /\ channel' = <<>>)
  BY <1>0, <1>5, <1>6 DEF WorkerEnds, WorkerAborted, OpenFile, FlushFile, TypeOK
<1>7. CASE WorkerCommand
  <2>0. /\ channel # <<>> /\ channel' = Tail(channel) /\ worker \in {"receiving", "draining"}
        /\ UNCHANGED <<calls, accepted, handles, file>>
    BY <1>7 DEF WorkerCommand
  <2>1. /\ ChannelInOrder'
        /\ Queued = Queued' \cup {e \in Event : Head(channel) = Write(e)}
        /\ \A e \in Event : Head(channel) = Write(e) => \A f \in Queued' : e < f
    BY <1>0, <2>0, QueuedOfTail
  <2>2. UNCHANGED Lines
    BY <2>0, SameFile
  <2>3. channel' \in Seq(FileCommand) /\ Len(channel') <= ChannelSize
    BY <1>0, <2>0 DEF TypeOK
  <2>4. ASSUME NEW e \in Event, Head(channel) = Write(e), WriteAll(e), UNCHANGED worker
        PROVE  IInv'
    <3>1. Queued = Queued' \cup {e} /\ e \in Queued
      BY <2>1, <2>4
    <3>2. InFlight = {} /\ in_flight = NoEvent
      BY <2>4 DEF WriteAll, InFlight
    <3>3. \/ in_flight' = e /\ UNCHANGED <<write_err, failed>>
          \/ write_err' = FALSE /\ failed' = failed \cup {e} /\ UNCHANGED in_flight
      BY <2>4 DEF WriteAll
    <3>4. TypeOK'
      BY <1>0, <2>0, <2>3, <2>4, <3>3 DEF TypeOK
    <3>5. \/ InFlight' = {e} /\ failed' = failed
          \/ InFlight' = {} /\ failed' = failed \cup {e}
      BY <3>2, <3>3 DEF InFlight
    <3>6. Pipeline'
      BY <2>0, <2>1, <2>2, <2>4, <3>1, <3>2, <3>5 DEF IInv, Pipeline
    <3>7. FileInOrder'
      <4>1. e \notin Lines
        BY <3>1 DEF IInv, Pipeline
      <4> QED
        BY <2>0, <2>2, <3>5, <4>1 DEF IInv, FileInOrder
    <3>8. NothingLostWhileRunning'
      <4>1. accepted = Queued \cup Lines \cup failed
        BY <2>0, <3>2 DEF IInv, NothingLostWhileRunning
      <4>2. accepted' = Queued' \cup Lines' \cup failed' \cup InFlight'
        BY <2>0, <2>2, <3>1, <3>5, <4>1
      <4> QED
        BY <4>2 DEF NothingLostWhileRunning, InFlight
    <3> QED
      BY <2>1, <3>4, <3>6, <3>7, <3>8 DEF IInv
  <2>5. ASSUME \A e \in Event : Head(channel) # Write(e), UNCHANGED <<in_flight, failed>>,
               write_err' \in BOOLEAN, worker' \in {worker, "draining", "flushing"}
        PROVE  IInv'
    <3>1. UNCHANGED <<Queued, InFlight>>
      BY <2>1, <2>5 DEF InFlight
    <3>2. TypeOK'
      BY <1>0, <2>0, <2>3, <2>5 DEF TypeOK
    <3> QED
      BY <2>0, <2>1, <2>2, <2>5, <3>1, <3>2
         DEF IInv, Pipeline, FileInOrder, NothingLostWhileRunning
  <2>6. CASE Head(channel) = Flush /\ FlushFile /\ UNCHANGED worker
    BY <2>5, <2>6 DEF FlushFile
  <2>7. CASE /\ Head(channel) = Shutdown
             /\ worker' = IF worker = "receiving" THEN "draining" ELSE "flushing"
             /\ UNCHANGED <<in_flight, write_err, failed>>
    BY <1>0, <2>5, <2>7 DEF TypeOK
  <2> QED
    BY <1>7, <2>4, <2>6, <2>7 DEF WorkerCommand
<1>8. CASE DiskWrite
  <2>0. /\ in_flight # NoEvent /\ in_flight' = NoEvent /\ in_flight \in Event
        /\ UNCHANGED <<calls, accepted, handles, channel, worker>>
    BY <1>0, <1>8 DEF DiskWrite, TypeOK
  <2>1. InFlight = {in_flight} /\ InFlight' = {} /\ UNCHANGED Queued /\ ChannelInOrder'
    BY <1>0, <2>0, SameQueue DEF InFlight
  <2>2. CASE file' = Append(file, in_flight) /\ UNCHANGED <<write_err, failed>>
    <3>1. /\ Lines' = Lines \cup {in_flight}
          /\ DOMAIN file' = 1..(Len(file) + 1) /\ DOMAIN file = 1..Len(file) /\ Len(file) \in Nat
          /\ \A i \in 1..Len(file) : file'[i] = file[i] /\ file[i] \in Lines
          /\ file'[Len(file) + 1] = in_flight
      BY <1>0, <2>0, <2>2, LinesOfAppend
    <3>2. TypeOK'
      BY <1>0, <2>0, <2>2 DEF TypeOK
    <3>3. Pipeline'
      BY <2>0, <2>1, <2>2, <3>1 DEF IInv, Pipeline
    <3>4. FileInOrder'
      <4>1. Lines' \subseteq accepted' \ failed'
        BY <2>0, <2>1, <2>2, <3>1 DEF IInv, FileInOrder, Pipeline
      <4>2. \A x \in Lines : x < in_flight
        BY <2>1 DEF IInv, Pipeline
      <4>3. ASSUME NEW i \in DOMAIN file', NEW j \in DOMAIN file', i < j PROVE file'[i] < file'[j]
        <5>1. i \in 1..Len(file)
          BY <3>1, <4>3
        <5>2. CASE j = Len(file) + 1
          BY <3>1, <4>2, <5>1, <5>2
        <5>3. CASE j \in 1..Len(file)
          BY <3>1, <4>3, <5>1, <5>3 DEF IInv, FileInOrder
        <5> QED
          BY <3>1, <5>2, <5>3
      <4> QED
        BY <4>1, <4>3 DEF FileInOrder
    <3>5. NothingLostWhileRunning'
      <4>1. worker # "ended" => accepted = Queued \cup Lines \cup failed \cup InFlight
        BY DEF IInv, NothingLostWhileRunning, InFlight
      <4> QED
        BY <2>0, <2>1, <2>2, <3>1, <4>1 DEF NothingLostWhileRunning
    <3> QED
      BY <2>1, <3>2, <3>3, <3>4, <3>5 DEF IInv
  <2>3. CASE write_err' = TRUE /\ failed' = failed \cup {in_flight} /\ UNCHANGED file
    <3>1. UNCHANGED Lines
      BY <2>3, SameFile
    <3>2. TypeOK'
      BY <1>0, <2>0, <2>3 DEF TypeOK
    <3>3. Pipeline'
      BY <2>0, <2>1, <2>3, <3>1 DEF IInv, Pipeline
    <3>4. FileInOrder'
      <4>1. in_flight \notin Lines
        BY <2>0, <2>1 DEF IInv, Pipeline
      <4> QED
        BY <2>0, <2>3, <3>1, <4>1 DEF IInv, FileInOrder
    <3>5. NothingLostWhileRunning'
      <4>1. worker # "ended" => accepted = Queued \cup Lines \cup failed \cup InFlight
        BY DEF IInv, NothingLostWhileRunning, InFlight
      <4> QED
        BY <2>0, <2>1, <2>3, <3>1, <4>1 DEF NothingLostWhileRunning
    <3> QED
      BY <2>1, <3>2, <3>3, <3>4, <3>5 DEF IInv
  <2> QED
    BY <1>8, <2>2, <2>3 DEF DiskWrite
<1> QED
  BY <1>1, <1>2, <1>3, <1>4, <1>6, <1>7, <1>8 DEF Next, Caller, Worker, OpenFile

-----------------------------------------------------------------------------
(* The theorems. *)

\* The invariant holds in every reachable state.
THEOREM Invariance == Spec => []IInv
BY InitInv, NextInv, PTL DEF Spec

\* The channel never holds more than its capacity, whoever sends.
THEOREM FileTypes == Spec => []TypeOK
<1>1. IInv => TypeOK
  BY DEF IInv
<1> QED
  BY <1>1, Invariance, PTL

\* However writes, failures, drains and aborts interleave, the file holds
\* accepted events in the order of their calls, none twice and none that failed.
THEOREM LinesInOrder == Spec => []FileInOrder
<1>1. IInv => FileInOrder
  BY DEF IInv
<1> QED
  BY <1>1, Invariance, PTL

\* Until the worker ends, no event that was accepted is lost.
THEOREM NothingLost == Spec => []NothingLostWhileRunning
<1>1. IInv => NothingLostWhileRunning
  BY DEF IInv
<1> QED
  BY <1>1, Invariance, PTL

-----------------------------------------------------------------------------
(* Sequences of events in the order of their calls. *)

\* s lists the events of S, each once and in the order of their calls.
Orders(s, S) ==
  /\ s \in Seq(S)
  /\ \A e \in S : \E i \in DOMAIN s : s[i] = e
  /\ \A i, j \in DOMAIN s : i < j => s[i] < s[j]

\* A set of numbers has a least one.
LEMMA LeastNumber ==
  ASSUME NEW T \in SUBSET Nat, T # {}
  PROVE  \E n \in T : \A k \in T : n <= k
<1> DEFINE less == {pair \in Nat \X Nat : pair[1] < pair[2]}
<1>1. IsWellFoundedOn(less, Nat)
  BY NatLessThanWellFounded, Zenon DEF OpToRel
<1>2. PICK n \in T : \A k \in T : <<k, n>> \notin less
  <2> HIDE DEF less
  <2> QED
    BY <1>1, WFMin
<1>3. \A k \in T : ~(k < n)
  BY <1>2
<1> QED
  BY <1>2, <1>3

\* Only one sequence lists a set of events in order, and InCallOrder gives it.
LEMMA OrderIsUnique ==
  ASSUME NEW S \in SUBSET Event, NEW s, Orders(s, S)
  PROVE  InCallOrder(S) = s
<1> DEFINE n == Len(s)
<1>0. \A e \in S : e \in Nat
  BY Commands
<1>1. /\ n \in Nat /\ DOMAIN s = 1..n /\ s \in [1..n -> S]
      /\ \A e \in S : \E i \in 1..n : s[i] = e
      /\ \A i, j \in 1..n : i < j => s[i] < s[j]
  BY DEF Orders
<1> HIDE DEF n
<1>2. Cardinality(S) = n
  <2>1. ASSUME NEW i \in 1..n, NEW j \in 1..n, s[i] = s[j] PROVE i = j
    <3>1. s[i] \in S /\ i \in Nat /\ j \in Nat
      BY <1>1
    <3>2. ~(s[i] < s[j]) /\ ~(s[j] < s[i])
      BY <1>0, <2>1, <3>1
    <3> QED
      BY <1>1, <3>1, <3>2
  <2>2. s \in Bijection(1..n, S)
    BY <1>1, <2>1 DEF Bijection, Injection, Surjection, IsInjective
  <2>3. ExistsBijection(1..n, S)
    BY <2>2 DEF ExistsBijection
  <2>4. IsFiniteSet(1..n) /\ Cardinality(1..n) = n
    BY <1>1, FS_Interval
  <2> QED
    BY <2>3, <2>4, FS_Bijection
<1> DEFINE t == InCallOrder(S)
<1>3. /\ t \in [1..n -> S] /\ DOMAIN t = 1..n
      /\ \A e \in S : \E i \in 1..n : t[i] = e
      /\ \A i, j \in 1..n : i < j => t[i] < t[j]
  <2> DEFINE Lists(u) == /\ \A e \in S : \E i \in DOMAIN u : u[i] = e
                         /\ \A i, j \in DOMAIN u : i < j => u[i] < u[j]
  <2>1. Lists(s) /\ s \in [1..n -> S]
    BY <1>1
  <2>2. t = CHOOSE u \in [1..n -> S] : Lists(u)
    BY <1>2 DEF InCallOrder
  <2>3. t \in [1..n -> S] /\ Lists(t)
    <3> HIDE DEF Lists, t
    <3> QED
      BY <2>1, <2>2
  <2> QED
    BY <2>3
<1> HIDE DEF t
<1>4. \A i \in 1..n : s[i] = t[i]
  <2> DEFINE T == {i \in 1..n : s[i] # t[i]}
  <2> SUFFICES ASSUME T # {} PROVE FALSE
    OBVIOUS
  <2>1. T \in SUBSET Nat
    BY <1>1
  <2>2. PICK k \in T : \A i \in T : k <= i
    <3> HIDE DEF T
    <3> QED
      BY <2>1, LeastNumber
  <2>3. k \in 1..n /\ s[k] # t[k] /\ \A i \in 1..n : i < k => s[i] = t[i]
    BY <1>1, <2>2
  <2>4. PICK i \in 1..n : t[i] = s[k]
    BY <1>1, <1>3, <2>3
  <2>5. PICK j \in 1..n : s[j] = t[k]
    BY <1>1, <1>3, <2>3
  <2>6. s[k] \in Nat /\ t[k] \in Nat
    BY <1>0, <1>1, <1>3, <2>3
  <2>7. i > k
    <3>1. i < k => s[i] < s[k] /\ s[i] = s[k]
      BY <1>1, <1>3, <2>3, <2>4
    <3> QED
      BY <1>1, <2>3, <2>4, <2>6, <3>1
  <2>8. j > k
    <3>1. j < k => t[j] < t[k] /\ t[j] = t[k]
      BY <1>1, <1>3, <2>3, <2>5
    <3> QED
      BY <1>1, <2>3, <2>5, <2>6, <3>1
  <2> QED
    BY <1>1, <1>3, <2>3, <2>4, <2>5, <2>6, <2>7, <2>8
<1> QED
  BY <1>1, <1>3, <1>4 DEF t

\* No event, and one event.
LEMMA OrderOfFew ==
  /\ Orders(<<>>, {})
  /\ \A e \in Event : Orders(<<e>>, {e})
BY Commands DEF Orders

\* A later event comes last.
LEMMA OrderOfAppend ==
  ASSUME NEW S \in SUBSET Event, NEW s, Orders(s, S),
         NEW e \in Event, \A x \in S : x < e
  PROVE  Orders(Append(s, e), S \cup {e})
<1> DEFINE t == Append(s, e)
<1>1. /\ Len(s) \in Nat /\ DOMAIN s = 1..Len(s) /\ t \in Seq(S \cup {e})
      /\ DOMAIN t = 1..(Len(s) + 1) /\ t[Len(s) + 1] = e
      /\ \A i \in 1..Len(s) : t[i] = s[i] /\ s[i] \in S
  <2>1. s \in Seq(S) /\ s \in Seq(S \cup {e}) /\ e \in S \cup {e}
    BY DEF Orders
  <2> QED
    BY <2>1
<1> HIDE DEF t
<1>2. \A x \in S \cup {e} : \E i \in DOMAIN t : t[i] = x
  <2>1. \A x \in S : \E i \in DOMAIN s : s[i] = x
    BY DEF Orders
  <2>2. Len(s) + 1 \in DOMAIN t /\ DOMAIN s \subseteq DOMAIN t
    BY <1>1
  <2> QED
    BY <1>1, <2>1, <2>2
<1>3. \A i, j \in DOMAIN t : i < j => t[i] < t[j]
  <2> SUFFICES ASSUME NEW i \in DOMAIN t, NEW j \in DOMAIN t, i < j PROVE t[i] < t[j]
    OBVIOUS
  <2>1. i \in 1..Len(s)
    BY <1>1
  <2>2. CASE j = Len(s) + 1
    BY <1>1, <2>1, <2>2
  <2>3. CASE j \in 1..Len(s)
    BY <1>1, <2>1, <2>3 DEF Orders
  <2> QED
    BY <1>1, <2>2, <2>3
<1> QED
  BY <1>1, <1>2, <1>3 DEF Orders, t

\* The earliest event comes first, and the rest keep their order.
LEMMA OrderOfTail ==
  ASSUME NEW S \in SUBSET Event, NEW s, Orders(s, S),
         NEW e \in S, \A x \in S \ {e} : e < x
  PROVE  s # <<>> /\ Head(s) = e /\ Orders(Tail(s), S \ {e})
<1>0. Event \subseteq Nat
  BY Commands
<1>1. s \in Seq(S) /\ Len(s) \in Nat /\ DOMAIN s = 1..Len(s) /\ \A i \in 1..Len(s) : s[i] \in S
  BY DEF Orders
<1>2. PICK k \in 1..Len(s) : s[k] = e
  BY <1>1 DEF Orders
<1>3. k = 1
  <2> SUFFICES ASSUME k > 1 PROVE FALSE
    BY <1>1
  <2>1. 1 \in DOMAIN s /\ k \in DOMAIN s
    BY <1>1
  <2>2. s[1] < s[k]
    BY <2>1 DEF Orders
  <2>3. s[1] \in Nat /\ s[1] \in S
    BY <1>0, <1>1, <2>1
  <2> QED
    BY <1>0, <1>2, <2>2, <2>3
<1>4. s # <<>> /\ Head(s) = s[1] /\ Len(s) >= 1
  BY <1>1, <1>2
<1> DEFINE t == Tail(s)
<1>5. /\ t \in Seq(S) /\ Len(t) = Len(s) - 1 /\ DOMAIN t = 1..(Len(s) - 1)
      /\ \A i \in 1..(Len(s) - 1) : t[i] = s[i + 1]
  BY <1>1, <1>4
<1> HIDE DEF t
<1>6. \A i \in DOMAIN t : t[i] \in S \ {e}
  <2> SUFFICES ASSUME NEW i \in DOMAIN t PROVE t[i] \in S \ {e}
    OBVIOUS
  <2>1. 1 \in DOMAIN s /\ i + 1 \in DOMAIN s /\ 1 < i + 1
    BY <1>1, <1>5
  <2>2. s[1] < s[i + 1]
    BY <2>1 DEF Orders
  <2> QED
    BY <1>0, <1>1, <1>2, <1>3, <1>5, <2>1, <2>2
<1>7. t \in Seq(S \ {e})
  BY <1>5, <1>6
<1>8. \A x \in S \ {e} : \E i \in DOMAIN t : t[i] = x
  <2> SUFFICES ASSUME NEW x \in S \ {e} PROVE \E i \in DOMAIN t : t[i] = x
    OBVIOUS
  <2>1. PICK i \in DOMAIN s : s[i] = x
    BY DEF Orders
  <2>2. i # 1
    BY <1>2, <1>3, <2>1
  <2>3. i - 1 \in DOMAIN t /\ t[i - 1] = x
    BY <1>1, <1>5, <2>1, <2>2
  <2> QED
    BY <2>3
<1>9. \A i, j \in DOMAIN t : i < j => t[i] < t[j]
  <2> SUFFICES ASSUME NEW i \in DOMAIN t, NEW j \in DOMAIN t, i < j PROVE t[i] < t[j]
    OBVIOUS
  <2>1. i + 1 \in DOMAIN s /\ j + 1 \in DOMAIN s /\ i + 1 < j + 1
    BY <1>1, <1>5
  <2> QED
    BY <1>5, <2>1 DEF Orders
<1> QED
  BY <1>2, <1>3, <1>4, <1>7, <1>8, <1>9 DEF Orders, t

-----------------------------------------------------------------------------
(* The backend implements the event log. *)

\* The events without an outcome are listed in the order of their calls.
PendingInOrder == Orders(Pending, Unsettled)

\* The order is determined by what is unsettled, before and after a step.
LEMMA PendingIs ==
  ASSUME NEW s, TypeOK'
  PROVE  Orders(s, Unsettled') => Pending' = s /\ PendingInOrder'
<1>1. Unsettled' \in SUBSET Event
  BY DEF TypeOK, Unsettled, Queued
<1> QED
  BY <1>1, OrderIsUnique DEF Pending, PendingInOrder

\* A step that leaves the same events unsettled leaves the order.
LEMMA SamePending ==
  ASSUME TypeOK', PendingInOrder, Unsettled' = Unsettled
  PROVE  Pending' = Pending /\ PendingInOrder'
<1>1. Orders(Pending, Unsettled')
  BY DEF PendingInOrder
<1> QED
  BY <1>1, PendingIs

\* Whatever is unsettled comes after what has an outcome, and queued events after
\* the one in flight.
LEMMA UnsettledParts ==
  ASSUME IInv
  PROVE  /\ Unsettled = Queued \cup InFlight /\ Unsettled \in SUBSET Event
         /\ Unsettled \subseteq accepted
         /\ \A e \in Queued, x \in InFlight : x < e
BY DEF IInv, TypeOK, Pipeline, Unsettled, InFlight, Queued

\* At the start the log is open and empty.
THEOREM LogInit == Init => Log!Init /\ PendingInOrder
<1> SUFFICES ASSUME Init PROVE Log!Init /\ PendingInOrder
  OBVIOUS
<1>1. Unsettled = {}
  <2>1. DOMAIN channel = {}
    BY DEF Init
  <2> QED
    BY <2>1 DEF Init, Unsettled, Queued
<1>2. Pending = <<>>
  BY <1>1, OrderOfFew, OrderIsUnique DEF Pending
<1> QED
  BY <1>1, <1>2, OrderOfFew DEF Init, Log!Init, PendingInOrder

\* Every step of the backend is a step of the log, or changes nothing in it.
THEOREM LogNext ==
  IInv /\ IInv' /\ PendingInOrder /\ [Next]_vars => PendingInOrder' /\ [Log!Next]_Log!vars
<1> SUFFICES ASSUME IInv, IInv', PendingInOrder, [Next]_vars
             PROVE  PendingInOrder' /\ [Log!Next]_Log!vars
  OBVIOUS
<1> USE Commands
<1>0. /\ TypeOK /\ TypeOK' /\ ChannelInOrder /\ Len(channel) \in Nat /\ ChannelSize \in Nat
      /\ Orders(Pending, Unsettled)
      /\ Unsettled = Queued \cup InFlight /\ Unsettled \in SUBSET Event
      /\ Unsettled \subseteq accepted
      /\ Unsettled' = Queued' \cup InFlight'
  BY SizeAssumption, UnsettledParts DEF IInv, TypeOK, PendingInOrder, Unsettled, InFlight
<1>1. CASE PersistEvent
  <2>0. /\ calls' = calls + 1 /\ calls + 1 \in Event
        /\ \A e \in accepted : e < calls + 1
        /\ UNCHANGED <<handles, worker, in_flight, write_err, file, failed>>
    BY <1>0, <1>1 DEF PersistEvent, TypeOK, Event
  <2>1. CASE TrySend(Write(calls + 1))
    <3>1. channel' = Append(channel, Write(calls + 1)) /\ worker # "ended"
      BY <2>1 DEF TrySend
    <3>2. Unsettled' = Unsettled \cup {calls + 1}
      <4>1. {e \in Event : Write(calls + 1) = Write(e)} = {calls + 1}
        BY <2>0
      <4>2. Queued' = Queued \cup {calls + 1}
        BY <1>0, <2>0, <3>1, <4>1, QueuedOfAppend
      <4> QED
        BY <1>0, <2>0, <4>2 DEF InFlight
    <3>3. Orders(Append(Pending, calls + 1), Unsettled')
      BY <1>0, <2>0, <3>2, OrderOfAppend
    <3>4. Pending' = Append(Pending, calls') /\ PendingInOrder'
      BY <1>0, <2>0, <3>3, PendingIs
    <3> QED
      BY <2>0, <3>1, <3>4 DEF Log!Next, Log!Accept
  <2>2. CASE UNCHANGED <<channel, accepted>>
    <3>1. Unsettled' = Unsettled
      BY <1>0, <2>0, <2>2, SameQueue DEF InFlight
    <3>2. Pending' = Pending /\ PendingInOrder'
      BY <1>0, <3>1, SamePending
    <3> QED
      BY <2>0, <3>2 DEF Log!Next, Log!Refuse
  <2> QED
    BY <1>1, <2>1, <2>2 DEF PersistEvent
<1>2. ASSUME UNCHANGED <<calls, file, failed, in_flight>>, Queued' = Queued,
             worker' # "ended" <=> worker # "ended"
      PROVE  PendingInOrder' /\ [Log!Next]_Log!vars
  <2>1. Unsettled' = Unsettled
    BY <1>0, <1>2 DEF InFlight
  <2>2. Pending' = Pending /\ PendingInOrder'
    BY <1>0, <2>1, SamePending
  <2>3. UNCHANGED (worker # "ended")
    BY <1>2
  <2> QED
    BY <1>2, <2>2, <2>3 DEF Log!vars
<1>3. ASSUME NEW command \in {Flush, Shutdown}, SendCommand(command)
      PROVE  PendingInOrder' /\ [Log!Next]_Log!vars
  <2>1. channel' = Append(channel, command)
        /\ UNCHANGED <<calls, worker, in_flight, file, failed>>
    BY <1>3 DEF SendCommand, TrySend
  <2>2. Queued' = Queued
    <3>1. {e \in Event : command = Write(e)} = {} /\ command \in FileCommand
      OBVIOUS
    <3> QED
      <4>1. Queued' = Queued \cup {e \in Event : command = Write(e)}
        BY <1>0, <2>1, <3>1, QueuedOfAppend
      <4> QED
        BY <3>1, <4>1
  <2> QED
    BY <1>2, <2>1, <2>2
<1>4. CASE DropHandles \/ WorkerDrained \/ UNCHANGED vars \/ (OpenFile /\ worker' = "receiving")
  <2>1. /\ UNCHANGED <<calls, channel, in_flight, file, failed>>
        /\ worker' # "ended" <=> worker # "ended"
    BY <1>4 DEF DropHandles, WorkerDrained, OpenFile, vars
  <2> QED
    BY <1>2, <2>1, SameQueue
<1>5. ASSUME worker # "ended", worker' = "ended", channel' = <<>>,
             UNCHANGED <<calls, in_flight, file, failed>>
      PROVE  PendingInOrder' /\ [Log!Next]_Log!vars
  <2>1. Queued' = {} /\ InFlight' = InFlight
    BY <1>5, QueuedOfEmpty DEF InFlight
  <2>2. CASE in_flight = NoEvent
    <3>1. Unsettled' = {}
      BY <1>0, <2>1, <2>2 DEF InFlight
    <3>2. Pending' = <<>> /\ PendingInOrder'
      BY <1>0, <3>1, OrderOfFew, PendingIs
    <3> QED
      BY <1>5, <3>2 DEF Log!Next, Log!Close
  <2>3. CASE in_flight # NoEvent
    <3>1. InFlight = {in_flight} /\ in_flight \in Event /\ Unsettled' = {in_flight}
      BY <1>0, <2>1, <2>3 DEF InFlight, TypeOK
    <3>2. Pending' = <<in_flight>> /\ PendingInOrder'
      <4>1. Orders(<<in_flight>>, Unsettled')
        BY <3>1, OrderOfFew
      <4> QED
        BY <1>0, <4>1, PendingIs
    <3>3. in_flight \in Unsettled /\ \A x \in Unsettled \ {in_flight} : in_flight < x
      BY <1>0, <3>1, UnsettledParts
    <3>4. Pending # <<>> /\ Head(Pending) = in_flight
      BY <1>0, <3>3, OrderOfTail
    <3> QED
      BY <1>5, <3>2, <3>4 DEF Log!Next, Log!Close
  <2> QED
    BY <2>2, <2>3
<1>6. CASE WorkerEnds \/ WorkerAborted \/ (OpenFile /\ worker' = "ended" /\ channel' = <<>>)
  BY <1>5, <1>6 DEF WorkerEnds, WorkerAborted, OpenFile, FlushFile
<1>7. CASE WorkerCommand
  <2>0. /\ channel # <<>> /\ channel' = Tail(channel) /\ worker \in {"receiving", "draining"}
        /\ UNCHANGED <<calls, accepted, handles, file>>
    BY <1>7 DEF WorkerCommand
  <2>1. /\ Queued = Queued' \cup {e \in Event : Head(channel) = Write(e)}
        /\ \A e \in Event : Head(channel) = Write(e) => \A f \in Queued' : e < f
    BY <1>0, <2>0, QueuedOfTail
  <2>2. ASSUME NEW e \in Event, Head(channel) = Write(e), WriteAll(e), UNCHANGED worker
        PROVE  PendingInOrder' /\ [Log!Next]_Log!vars
    <3>1. Unsettled = Queued' \cup {e} /\ e \in Unsettled /\ InFlight = {}
          /\ \A f \in Queued' : e < f
      BY <1>0, <2>1, <2>2 DEF WriteAll, InFlight
    <3>2. CASE in_flight' = e /\ UNCHANGED <<write_err, failed>>
      <4>1. Unsettled' = Unsettled
        BY <1>0, <3>1, <3>2 DEF InFlight
      <4>2. Pending' = Pending /\ PendingInOrder'
        BY <1>0, <4>1, SamePending
      <4> QED
        BY <2>0, <2>2, <3>2, <4>2 DEF Log!vars
    <3>3. CASE failed' = failed \cup {e} /\ UNCHANGED in_flight
      <4>1. e \notin Queued' /\ InFlight' = {}
        BY <3>1, <3>3 DEF InFlight
      <4>2. Unsettled' = Unsettled \ {e}
        BY <1>0, <3>1, <4>1
      <4>3. \A x \in Unsettled \ {e} : e < x
        BY <3>1
      <4>4. Pending # <<>> /\ Head(Pending) = e /\ Orders(Tail(Pending), Unsettled')
        <5>1. Pending # <<>> /\ Head(Pending) = e /\ Orders(Tail(Pending), Unsettled \ {e})
          BY <1>0, <3>1, <4>3, OrderOfTail
        <5> QED
          BY <4>2, <5>1
      <4>5. Pending' = Tail(Pending) /\ PendingInOrder'
        BY <1>0, <4>4, PendingIs
      <4> QED
        BY <2>0, <2>2, <3>3, <4>4, <4>5 DEF Log!Next, Log!Failed
    <3> QED
      BY <2>2, <3>2, <3>3 DEF WriteAll
  <2>3. ASSUME \A e \in Event : Head(channel) # Write(e), UNCHANGED <<in_flight, failed>>,
               worker' # "ended"
        PROVE  PendingInOrder' /\ [Log!Next]_Log!vars
    BY <1>2, <2>0, <2>1, <2>3
  <2>4. CASE Head(channel) = Flush /\ FlushFile /\ UNCHANGED worker
    BY <2>0, <2>3, <2>4 DEF FlushFile
  <2>5. CASE /\ Head(channel) = Shutdown
             /\ worker' = IF worker = "receiving" THEN "draining" ELSE "flushing"
             /\ UNCHANGED <<in_flight, write_err, failed>>
    BY <2>3, <2>5
  <2> QED
    BY <1>7, <2>2, <2>4, <2>5 DEF WorkerCommand
<1>8. CASE DiskWrite
  <2>0. /\ in_flight # NoEvent /\ in_flight' = NoEvent /\ in_flight \in Event
        /\ UNCHANGED <<calls, accepted, handles, channel, worker>>
    BY <1>0, <1>8 DEF DiskWrite, TypeOK
  <2>1. InFlight = {in_flight} /\ InFlight' = {} /\ Queued' = Queued
    BY <2>0, SameQueue DEF InFlight
  <2>2. in_flight \in Unsettled /\ \A x \in Unsettled \ {in_flight} : in_flight < x
    BY <1>0, <2>1, UnsettledParts
  <2>3. Unsettled' = Unsettled \ {in_flight}
    <3>1. in_flight \notin Queued
      BY <2>0, <2>1, UnsettledParts
    <3> QED
      BY <1>0, <2>1, <3>1
  <2>4. Pending # <<>> /\ Head(Pending) = in_flight /\ Orders(Tail(Pending), Unsettled')
    <3>1. /\ Pending # <<>> /\ Head(Pending) = in_flight
          /\ Orders(Tail(Pending), Unsettled \ {in_flight})
      BY <1>0, <2>2, OrderOfTail
    <3> QED
      BY <2>3, <3>1
  <2>5. Pending' = Tail(Pending) /\ PendingInOrder'
    BY <1>0, <2>4, PendingIs
  <2> QED
    BY <1>8, <2>0, <2>4, <2>5 DEF DiskWrite, Log!Next, Log!Written, Log!Failed
<1> QED
  BY <1>1, <1>3, <1>4, <1>6, <1>7, <1>8 DEF Next, Caller, Worker, OpenFile

\* Channel, worker and blocking pool implement the event log: events get their
\* outcomes in the order of their calls, and only the end of the worker loses any.
THEOREM BackendIsLog == Spec => ImplementsLog
BY LogInit, LogNext, Invariance, PTL DEF Spec, ImplementsLog, Log!Spec

=============================================================================
