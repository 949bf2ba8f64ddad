------------------------- MODULE TranslatorSv1Server -------------------------
(***************************************************************************)
(* The translator's SV1 side (miner-apps/translator/src/lib/sv1): the task  *)
(* of every miner, and the server task that opens channels for them, turns  *)
(* SV2 jobs and targets into mining.notify and mining.set_difficulty and    *)
(* runs vardiff. The two kinds of task share the data of a miner, which     *)
(* they lock for one access at a time: a step ends where a lock is released *)
(* and what the other task does in between is seen afterwards. Two runs of   *)
(* accesses are one step: a vardiff update sets the pending target and sends *)
(* set_difficulty, and the end of the handshake sends what was cached and    *)
(* takes over the pending target. A miner's task, or a vardiff update, that  *)
(* comes in between there is not modelled.                                   *)
(*                                                                         *)
(* The channel manager answers open requests in order, follows every        *)
(* SetNewPrevHash by the job it activates and sends a joining miner of      *)
(* aggregated mode the current job (TranslatorChannelManager).              *)
(***************************************************************************)
EXTENDS Integers, Sequences, FiniteSets

CONSTANTS
  Miner,
  Target,        \* targets, a larger one is easier
  Modes,         \* configurations: aggregate_channels and enable_vardiff
  FirstTarget,   \* the target of min_individual_miner_hashrate
  MaxChannels,   \* bound: channels opened
  MaxJobs,       \* bound: jobs
  MaxTargets,    \* bound: vardiff ticks and targets the upstream sets by itself
  MaxLeaves,     \* bound: miners that leave
  MaxSent,       \* bound: messages waiting for a miner's task
  None

ASSUME MinerAssumption == IsFiniteSet(Miner)
ASSUME TargetAssumption ==
  /\ Target \subseteq Nat \ {0} /\ FirstTarget \in Target
  /\ \E t \in Target : \A u \in Target : u <= t
ASSUME NoneAssumption == None \notin Miner \cup Target \cup (0..MaxChannels) \cup (0..MaxJobs)
ASSUME ModesAssumption == Modes \subseteq [aggregated : BOOLEAN, vardiff : BOOLEAN]
ASSUME BoundAssumption ==
  /\ MaxChannels \in Nat /\ MaxJobs \in Nat /\ MaxTargets \in Nat /\ MaxLeaves \in Nat
  /\ MaxSent \in Nat

VARIABLES
  mode,           \* aggregate_channels and enable_vardiff
  conn,           \* a miner: connected, leaving (its task has ended) or removed
  sent,           \* the handshake messages a miner has sent
  task,           \* a message its task is about to queue: none, checked, queueing
  data,           \* DownstreamData
  inbox,          \* what the server has broadcast to a miner's task
  has,            \* what a miner holds: its difficulty and its job
  to_server,      \* DownstreamMessages
  server,         \* the server task: idle, or the channel it is setting up
  asked,          \* open requests the channel manager has
  opened,         \* channels opened; the miner of each
  jobs,           \* valid jobs of a channel; of all channels in aggregated mode
  last,           \* the last job: its number, and the channel whose job must follow
  clean_job,
  updates,        \* UpdateChannel messages that no SetTarget has answered
  waiting,        \* pending_target_updates: the targets that wait, by miner
  targets,        \* how many of MaxTargets have happened
  overlapped      \* a vardiff tick found an UpdateChannel unanswered

minerVars == <<conn, sent, task, data, inbox, has>>
serverVars == <<to_server, server, asked, opened>>
jobVars == <<jobs, last, clean_job>>
targetVars == <<updates, waiting, targets, overlapped>>
vars == <<mode, minerVars, serverVars, jobVars, targetVars>>

Aggregated == mode.aggregated
Channel == 0..MaxChannels
All == 0                                 \* the channel id of a message for all miners

IdleServer == [pc |-> "idle", miner |-> None, channel |-> All]

NewData ==
  [channel_id |-> None, queued |-> <<>>, handshake |-> FALSE, cached_difficulty |-> None,
   cached_notify |-> None, target |-> FirstTarget, pending |-> None, upstream |-> None]

Nothing == [difficulty |-> 0, job |-> 0]

Init ==
  /\ mode \in Modes
  /\ conn = [m \in Miner |-> "connected"]
  /\ sent = [m \in Miner |-> 0]
  /\ task = [m \in Miner |-> "none"]
  /\ data = [m \in Miner |-> NewData]
  /\ inbox = [m \in Miner |-> <<>>]
  /\ has = [m \in Miner |-> Nothing]
  /\ to_server = <<>>
  /\ server = IdleServer
  /\ asked = <<>>
  /\ opened = <<>>
  /\ jobs = [c \in Channel |-> {}]
  /\ last = [job |-> 0, follows |-> None]
  /\ clean_job = TRUE
  /\ updates = <<>>
  /\ waiting = [m \in Miner |-> <<>>]
  /\ targets = 0
  /\ overlapped = FALSE

Idle == server.pc = "idle"
Known(m) == conn[m] # "removed"
Handshake == <<"subscribe", "authorize">>

\* The messages a broadcast puts before a miner's task; its own filter drops the
\* others. `to' is None or the one miner meant.
Reaches(m, channel, to) ==
  /\ conn[m] = "connected"
  /\ channel = All \/ data[m].channel_id = channel
  /\ to \in {None, m}

Broadcast(channel, to, message) ==
  /\ \A m \in Miner : Len(inbox[m]) < MaxSent                          \* bound
  /\ inbox' = [m \in Miner |->
                 IF Reaches(m, channel, to) THEN Append(inbox[m], message) ELSE inbox[m]]

Difficulty(c, t) == [kind |-> "difficulty", channel |-> c, value |-> t]
Notify(c, j) == [kind |-> "notify", channel |-> c, value |-> j]

-----------------------------------------------------------------------------
(* The task of a miner. *)

PendingTargetOnly(d) ==                                                \* mutant
  [d EXCEPT !.cached_difficulty = None, !.pending = None]

\* Sending a cached set_difficulty makes the pending target the one shares are
\* validated against.
TakesPending(d) ==
  [d EXCEPT !.cached_difficulty = None,
            !.target = IF d.pending = None THEN @ ELSE d.pending, !.pending = None]

DifficultySent(d, h) == IF d.cached_difficulty = None THEN h.difficulty ELSE d.cached_difficulty

\* handle_sv1_handshake_completion
CompletesHandshake(m) ==
  LET d == data[m]
      told == IF d.cached_difficulty = None THEN d ELSE TakesPending(d)
  IN  /\ data' = [data EXCEPT ![m] = [told EXCEPT !.handshake = TRUE, !.cached_notify = None]]
      /\ has' = [has EXCEPT ![m] =
                   [difficulty |-> DifficultySent(d, @),
                    job |-> IF d.cached_notify = None THEN @.job ELSE d.cached_notify]]

\* A handshake message: with no channel yet it will be queued.
HandleHandshakeMessage(m) ==
  /\ conn[m] = "connected" /\ task[m] = "none"
  /\ sent[m] < Len(Handshake)
  /\ sent' = [sent EXCEPT ![m] = @ + 1]
  /\ \/ /\ data[m].channel_id = None
        /\ task' = [task EXCEPT ![m] = "checked"]
        /\ UNCHANGED <<data, has>>
     \/ /\ data[m].channel_id # None
        /\ IF Handshake[sent[m] + 1] = "authorize" THEN CompletesHandshake(m)
           ELSE UNCHANGED <<data, has>>
        /\ UNCHANGED task
  /\ UNCHANGED <<mode, conn, inbox, serverVars, jobVars, targetVars>>

\* The queue was looked at without a channel: an empty one asks for a channel.
AskForChannel(m) ==
  /\ conn[m] = "connected" /\ task[m] = "checked"
  /\ to_server' = IF data[m].queued = <<>>
                    THEN Append(to_server, [kind |-> "open", miner |-> m]) ELSE to_server
  /\ task' = [task EXCEPT ![m] = "queueing"]
  /\ UNCHANGED <<mode, conn, sent, data, inbox, has, server, asked, opened, jobVars, targetVars>>

QueueMessage(m) ==
  /\ conn[m] = "connected" /\ task[m] = "queueing"
  /\ data' = [data EXCEPT ![m].queued = Append(@, Handshake[sent[m]])]
  /\ task' = [task EXCEPT ![m] = "none"]
  /\ UNCHANGED <<mode, conn, sent, inbox, has, serverVars, jobVars, targetVars>>

ValidJobs(m) == jobs[IF Aggregated THEN All ELSE data[m].channel_id]

\* validate_sv1_share: a share just meets the difficulty its miner was sent.
ShareIsValid(m) == has[m].job \in ValidJobs(m) /\ has[m].difficulty <= data[m].target

\* A share; an invalid one is answered `false' and goes no further.
HandleSubmit(m) ==
  /\ conn[m] = "connected" /\ task[m] = "none"
  /\ has[m].job # 0
  /\ ShareIsValid(m)
  /\ to_server = <<>> /\ inbox[m] = <<>> /\ has[m].job = last.job       \* bound
  /\ to_server' = Append(to_server, [kind |-> "share", miner |-> m])
  /\ UNCHANGED <<mode, minerVars, server, asked, opened, jobVars, targetVars>>

DeliveredUncached(m) ==                                                \* mutant
  LET message == Head(inbox[m])
      d == data[m]
  IN  \/ /\ message.kind = "difficulty"
         /\ data' = [data EXCEPT ![m].cached_difficulty = message.value]
         /\ UNCHANGED has
      \/ message.kind = "notify" /\ ~d.handshake /\ UNCHANGED <<data, has>>
      \/ /\ message.kind = "notify" /\ d.handshake
         /\ data' = [data EXCEPT ![m] = IF d.cached_difficulty = None THEN d ELSE TakesPending(d)]
         /\ has' = [has EXCEPT ![m] = [difficulty |-> DifficultySent(d, @), job |-> message.value]]

\* handle_sv1_server_message: set_difficulty is cached until the next notify,
\* and both are until the handshake is complete.
Delivered(m) ==
  LET message == Head(inbox[m])
      d == data[m]
      mine == message.channel = All \/ message.channel = d.channel_id
  IN  \/ ~mine /\ UNCHANGED <<data, has>>
      \/ /\ mine /\ message.kind = "difficulty"
         /\ data' = [data EXCEPT ![m].cached_difficulty = message.value]
         /\ UNCHANGED has
      \/ /\ mine /\ message.kind = "notify" /\ ~d.handshake
         /\ data' = [data EXCEPT ![m].cached_notify = message.value]
         /\ UNCHANGED has
      \/ /\ mine /\ message.kind = "notify" /\ d.handshake
         /\ data' = [data EXCEPT ![m] = IF d.cached_difficulty = None THEN d ELSE TakesPending(d)]
         /\ has' = [has EXCEPT ![m] = [difficulty |-> DifficultySent(d, @), job |-> message.value]]

HandleServerMessage(m) ==
  /\ conn[m] = "connected" /\ task[m] = "none"
  /\ inbox[m] # <<>>
  /\ Delivered(m)
  /\ inbox' = [inbox EXCEPT ![m] = Tail(@)]
  /\ UNCHANGED <<mode, conn, sent, task, serverVars, jobVars, targetVars>>

\* The connection closed, or the task failed: main will tell the server.
MinerLeaves(m) ==
  /\ conn[m] = "connected"
  /\ Cardinality({n \in Miner : conn[n] # "connected"}) < MaxLeaves     \* bound
  /\ conn' = [conn EXCEPT ![m] = "leaving"]
  /\ inbox' = [inbox EXCEPT ![m] = <<>>]
  /\ has' = [has EXCEPT ![m] = Nothing]
  /\ task' = [task EXCEPT ![m] = "none"]
  /\ sent' = [sent EXCEPT ![m] = 0]
  /\ UNCHANGED <<mode, data, serverVars, jobVars, targetVars>>

-----------------------------------------------------------------------------
(* The server task: messages of the miners. *)

HandleOpenChannelRequest ==
  /\ Idle /\ to_server # <<>> /\ Head(to_server).kind = "open"
  /\ to_server' = Tail(to_server)
  /\ asked' = IF Known(Head(to_server).miner) THEN Append(asked, Head(to_server).miner) ELSE asked
  /\ UNCHANGED <<mode, minerVars, server, opened, jobVars, targetVars>>

\* The user identity of a share is looked up with unwrap in non-aggregated mode.
HandleSubmitShares ==
  /\ Idle /\ to_server # <<>> /\ Head(to_server).kind = "share"
  /\ to_server' = Tail(to_server)
  /\ server' = IF ~Aggregated /\ ~Known(Head(to_server).miner) THEN [server EXCEPT !.pc = "panicked"]
               ELSE server
  /\ UNCHANGED <<mode, minerVars, asked, opened, jobVars, targetVars>>

Least(S) == CHOOSE t \in S : \A u \in S : t <= u
Easiest == CHOOSE t \in Target : \A u \in Target : u <= t

Wants(d) == IF d.pending = None THEN d.target ELSE d.pending

\* The one UpdateChannel of aggregated mode carries the lowest target of all.
LeastWanted(after, known) == Least({Wants(after[m]) : m \in known})

\* DownstreamShutdown; with vardiff, aggregated mode reports what remains (if
\* nothing was opened yet the channel manager has no channel to report it on).
RemoveDownstream(m) ==
  /\ Idle
  /\ conn[m] = "leaving"
  /\ conn' = [conn EXCEPT ![m] = "removed"]
  /\ data' = [data EXCEPT ![m] = NewData]
  /\ LET rest == {n \in Miner : n # m /\ Known(n)}
         wanted == IF rest = {} THEN Easiest ELSE LeastWanted(data, rest)
     IN  updates' = IF Aggregated /\ mode.vardiff /\ opened # <<>>
                      THEN Append(updates, [channel |-> All, target |-> wanted]) ELSE updates
  /\ UNCHANGED <<mode, sent, task, inbox, has, serverVars, jobVars, waiting, targets, overlapped>>

-----------------------------------------------------------------------------
(* The server task: messages of the channel manager. None overtakes the job   *)
(* that follows a SetNewPrevHash or a joining miner's success.                *)

FromManager == Idle /\ last.follows = None

\* OpenExtendedMiningChannelSuccess, up to the release of the miner's lock.
OpenChannel ==
  /\ FromManager
  /\ asked # <<>>
  /\ Len(opened) < MaxChannels                                         \* bound
  /\ asked' = Tail(asked)
  /\ opened' = Append(opened, Head(asked))
  /\ LET m == Head(asked)
         c == Len(opened) + 1
     IN  /\ last' = IF Aggregated /\ last.job # 0 THEN [last EXCEPT !.follows = c] ELSE last
         /\ \E upstream \in {t \in Target : t <= FirstTarget} :
              IF Known(m)
                THEN /\ data' = [data EXCEPT ![m].channel_id = c, ![m].upstream = upstream]
                     /\ server' = [pc |-> "setup", miner |-> m, channel |-> c]
                ELSE UNCHANGED <<data, server>>
  /\ UNCHANGED <<mode, conn, sent, task, inbox, has, to_server, jobs, clean_job, targetVars>>

DrainOnly ==                                                           \* mutant
  /\ server.pc = "setup"
  /\ data' = [data EXCEPT ![server.miner].queued = <<>>]
  /\ server' = IdleServer
  /\ UNCHANGED <<mode, conn, sent, task, inbox, has, to_server, asked, opened, jobVars, targetVars>>

\* The queue is taken and its messages are answered, which does not complete a
\* handshake; then the first set_difficulty goes out.
DrainQueue ==
  /\ server.pc = "setup"
  /\ data' = [data EXCEPT ![server.miner].queued = <<>>]
  /\ Broadcast(server.channel, None, Difficulty(server.channel, FirstTarget))
  /\ server' = IdleServer
  /\ UNCHANGED <<mode, conn, sent, task, has, to_server, asked, opened, jobVars, targetVars>>

\* Channels that jobs are for: all in aggregated mode.
Served == IF Aggregated THEN {All : i \in DOMAIN opened} ELSE DOMAIN opened

\* Stores a job, after clearing the list if this is the first since a prev hash.
StoreJob(c, job) ==
  LET list == IF Aggregated THEN All ELSE c
  IN  /\ jobs' = [jobs EXCEPT ![list] = (IF clean_job THEN {} ELSE @) \cup {job}]
      /\ clean_job' = FALSE

HandleSetNewPrevHash(c) ==
  /\ FromManager
  /\ c \in Served
  /\ last.job < MaxJobs                                                \* bound
  /\ clean_job' = TRUE
  /\ last' = [job |-> last.job + 1, follows |-> c]
  /\ UNCHANGED <<mode, minerVars, serverVars, jobs, targetVars>>

\* The job that follows, or one more job on the same prev hash.
HandleNewExtendedMiningJob(c) ==
  /\ Idle
  /\ \/ last.follows = c /\ last' = [last EXCEPT !.follows = None]
     \/ /\ last.follows = None /\ c \in Served /\ jobs[c] # {}
        /\ last.job < MaxJobs                                          \* bound
        /\ last' = [last EXCEPT !.job = @ + 1]
  /\ StoreJob(c, last'.job)
  /\ Broadcast(c, None, Notify(c, last'.job))
  /\ UNCHANGED <<mode, conn, sent, task, data, has, serverVars, targetVars>>

-----------------------------------------------------------------------------
(* Targets. *)

TargetEvent == targets < MaxTargets /\ targets' = targets + 1          \* bound

WithChannel == {m \in Miner : Known(m) /\ data[m].channel_id # None}

\* Miners whose new target the upstream's target allows at once.
Allowed(m, t) == data[m].upstream = None \/ t >= data[m].upstream

\* The orders in which a HashMap may visit these miners.
Orders(S) == {s \in [1..Cardinality(S) -> S] : \A i, j \in DOMAIN s : i # j => s[i] # s[j]}

\* handle_vardiff_updates: a miner's pending target is set; the set_difficulty
\* goes out at once, or waits for the upstream's SetTarget.
HandleVardiffUpdates ==
  /\ Idle /\ mode.vardiff
  /\ TargetEvent
  /\ \A m \in Miner : Len(inbox[m]) < MaxSent                          \* bound
  /\ \E S \in (SUBSET WithChannel) \ {{}} : \E new \in [S -> Target], order \in Orders(S) :
       /\ data' = [m \in Miner |-> IF m \in S THEN [data[m] EXCEPT !.pending = new[m]] ELSE data[m]]
       /\ waiting' = [m \in Miner |->
            IF m \in S /\ ~Allowed(m, new[m]) THEN Append(waiting[m], new[m]) ELSE waiting[m]]
       /\ updates' = updates \o
            IF Aggregated
              THEN <<[channel |-> All, target |-> LeastWanted(data', {m \in Miner : Known(m)})]>>
              ELSE [i \in DOMAIN order |-> [channel |-> data[order[i]].channel_id,
                                            target |-> new[order[i]]]]
       /\ inbox' = [m \in Miner |->
            IF m \in S /\ conn[m] = "connected" /\ Allowed(m, new[m])
              THEN Append(inbox[m], Difficulty(data[m].channel_id, new[m])) ELSE inbox[m]]
  /\ overlapped' = (overlapped \/ updates # <<>>)
  /\ UNCHANGED <<mode, conn, sent, task, has, serverVars, jobVars>>

\* get_pending_difficulty_updates: the updates of these miners leave the list,
\* the ones the new target does not allow without being sent.
LeaveWaiting(S) == waiting' = [m \in Miner |-> IF m \in S THEN <<>> ELSE waiting[m]]

\* The set_difficulty messages those updates become, for the miner's task.
Released(m, t) ==
  LET released[n \in 0..Len(waiting[m])] ==
        IF n = 0 THEN <<>>
        ELSE IF waiting[m][n] >= t
               THEN Append(released[n - 1], Difficulty(data[m].channel_id, waiting[m][n]))
               ELSE released[n - 1]
  IN  released[Len(waiting[m])]

\* handle_set_target_message, of all miners or of those on the channel.
SetTargetWithVardiff(c, t) ==
  LET affected == {m \in Miner : Known(m) /\ (Aggregated \/ data[m].channel_id = c)}
      named == IF Aggregated THEN Miner ELSE affected
  IN  /\ data' = [m \in Miner |->
                    IF m \in affected THEN [data[m] EXCEPT !.upstream = t] ELSE data[m]]
      /\ LeaveWaiting(named)
      /\ inbox' = [m \in Miner |->
                    IF m \in named /\ conn[m] = "connected" /\ data[m].channel_id # None
                      THEN inbox[m] \o Released(m, t) ELSE inbox[m]]

\* handle_set_target_without_vardiff
SetTargetWithoutVardiff(c, t) ==
  LET affected == {m \in WithChannel : Aggregated \/ data[m].channel_id = c}
  IN  /\ data' = [m \in Miner |->
                    IF m \in affected THEN [data[m] EXCEPT !.upstream = t, !.pending = t]
                    ELSE data[m]]
      /\ inbox' = [m \in Miner |->
                    IF m \in affected /\ conn[m] = "connected"
                      THEN Append(inbox[m], Difficulty(data[m].channel_id, t)) ELSE inbox[m]]
      /\ UNCHANGED waiting

HandleSetTarget(c, t) ==
  /\ FromManager
  /\ \A m \in Miner : Len(inbox[m]) < MaxSent                          \* bound
  /\ IF mode.vardiff THEN SetTargetWithVardiff(c, t) ELSE SetTargetWithoutVardiff(c, t)
  /\ UNCHANGED <<mode, conn, sent, task, has, serverVars, jobVars>>

\* The upstream grants what the oldest UpdateChannel asked for, or less.
UpstreamAnswers ==
  /\ updates # <<>>
  /\ updates' = Tail(updates)
  /\ \E t \in Target : t <= Head(updates).target /\ HandleSetTarget(Head(updates).channel, t)
  /\ UNCHANGED <<targets, overlapped>>

\* The upstream's own vardiff.
UpstreamRetargets ==
  /\ TargetEvent
  /\ \E c \in Served, t \in Target : HandleSetTarget(c, t)
  /\ overlapped' = (overlapped \/ updates # <<>>)
  /\ UNCHANGED updates

-----------------------------------------------------------------------------
Next ==
  \/ \E m \in Miner : \/ HandleHandshakeMessage(m) \/ AskForChannel(m) \/ QueueMessage(m)
                      \/ HandleSubmit(m) \/ HandleServerMessage(m)
                      \/ MinerLeaves(m) \/ RemoveDownstream(m)
  \/ HandleOpenChannelRequest \/ HandleSubmitShares
  \/ OpenChannel \/ DrainQueue
  \/ \E c \in Channel : HandleSetNewPrevHash(c) \/ HandleNewExtendedMiningJob(c)
  \/ HandleVardiffUpdates \/ UpstreamAnswers \/ UpstreamRetargets

Spec == Init /\ [][Next]_vars

-----------------------------------------------------------------------------
(* Properties. *)

DownstreamData ==
  [channel_id : (1..MaxChannels) \cup {None}, queued : Seq({"subscribe", "authorize"}),
   handshake : BOOLEAN, cached_difficulty : Target \cup {None},
   cached_notify : (1..MaxJobs) \cup {None}, target : Target, pending : Target \cup {None},
   upstream : Target \cup {None}]

Message ==
  [kind : {"difficulty"}, channel : 1..MaxChannels, value : Target]
    \cup [kind : {"notify"}, channel : Channel, value : 1..MaxJobs]

\* The type invariant: set_difficulty always names a channel, and a channel is
\* that of the miner it was opened for.
TypeOK ==
  /\ mode \in Modes
  /\ conn \in [Miner -> {"connected", "leaving", "removed"}]
  /\ sent \in [Miner -> 0..Len(Handshake)]
  /\ task \in [Miner -> {"none", "checked", "queueing"}]
  /\ data \in [Miner -> DownstreamData]
  /\ inbox \in [Miner -> Seq(Message)]
  /\ has \in [Miner -> [difficulty : Target \cup {0}, job : 0..MaxJobs]]
  /\ to_server \in Seq([kind : {"open", "share"}, miner : Miner])
  /\ server \in [pc : {"idle", "setup", "panicked"}, miner : Miner \cup {None}, channel : Channel]
  /\ asked \in Seq(Miner)
  /\ opened \in Seq(Miner) /\ Len(opened) <= MaxChannels
  /\ jobs \in [Channel -> SUBSET (1..MaxJobs)]
  /\ last \in [job : 0..MaxJobs, follows : Channel \cup {None}]
  /\ clean_job \in BOOLEAN
  /\ updates \in Seq([channel : Channel, target : Target])
  /\ waiting \in [Miner -> Seq(Target)]
  /\ targets \in 0..MaxTargets /\ overlapped \in BOOLEAN
  /\ \A m \in Miner : data[m].channel_id # None =>
       data[m].channel_id \in DOMAIN opened /\ opened[data[m].channel_id] = m

\* A second channel was opened for a miner whose message was queued too late.
Reopened(m) == \E i, j \in DOMAIN opened : i # j /\ opened[i] = m /\ opened[j] = m

\* Nothing is on its way to the miner.
Settled(m) ==
  /\ conn[m] = "connected" /\ data[m].handshake /\ inbox[m] = <<>>
  /\ server.pc # "setup"

\* A miner and the translator agree on the difficulty of a share whenever no
\* change is on its way: set_difficulty, the pending target and the updates
\* that wait for the upstream meet in the end, unless two of them overlapped.
DifficultyAgrees ==
  \A m \in Miner :
    \/ ~Settled(m) \/ has[m].difficulty = 0 \/ overlapped \/ Reopened(m)
    \/ data[m].cached_difficulty # None \/ data[m].pending # None
    \/ waiting[m] # <<>>
    \/ has[m].difficulty = data[m].target

\* "mining.notify messages are guaranteed to never arrive before their
\* corresponding mining.set_difficulty message" (handle_sv1_server_message): so
\* it is when every miner has its own upstream channel.
NotifyAfterDifficulty ==
  \A m \in Miner : ~Aggregated /\ has[m].job # 0 => has[m].difficulty # 0

\* A miner with nothing on its way works on the newest job for its channel, and
\* its shares on that job find it in the list they are validated against.
WorkIsCurrent ==
  \A m \in Miner :
    (Settled(m) /\ ~Reopened(m) /\ ValidJobs(m) # {}) =>
      /\ has[m].job \in ValidJobs(m)
      /\ \A j \in ValidJobs(m) : j <= has[m].job

=============================================================================
