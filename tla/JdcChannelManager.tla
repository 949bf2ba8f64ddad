------------------------- MODULE JdcChannelManager -------------------------
(***************************************************************************)
(* The channel manager of the job declarator client (JDC), composed with   *)
(* the part of its main loop that changes the pool under it: connections   *)
(* of miners, the template provider, one pool and job declarator server    *)
(* (JDS) at a time, and the fallback from one pool to the next.            *)
(*                                                                         *)
(* The manager is one task; its handlers only ever wait on unbounded       *)
(* queues, so a handler is one action. to_pool and to_jds hold the         *)
(* requests whose answer the manager has not served yet, in order; the     *)
(* queues behind them outlive the pool (see CmFallback). Requests that     *)
(* have no answer the manager acts upon (shares, UpdateChannel,            *)
(* CloseChannel, PushSolution) are not kept.                               *)
(***************************************************************************)
EXTENDS Integers, FiniteSets, Sequences, Functions

CONSTANTS
  MaxDownstream,      \* bound: ids downstream_id_factory gives between two resets
  MaxChannelId,       \* bound: ids one channel_id_factory gives
  MaxTemplate,        \* bound: templates of the template provider
  MaxRequest,         \* bound: request_id_factory
  MaxPrefix,          \* bound: extranonce prefixes the pools assign to the JDC
  MaxQueue,           \* bound: requests open at a time with a pool, a JDS, the provider
  MaxReport,          \* bound: fallback reports
  MaxPool,            \* configured pools
  FullTemplatePools,  \* those whose JDS asks for full templates
  RequireStdJob       \* what miners say of REQUIRE_STANDARD_JOBS when they connect

ASSUME JdcBounds ==
  /\ MaxDownstream \in Nat /\ MaxChannelId \in Nat /\ MaxTemplate \in Nat
  /\ MaxRequest \in Nat /\ MaxQueue \in Nat /\ MaxPrefix \in Nat /\ MaxReport \in Nat
  /\ MaxPool \in Nat /\ FullTemplatePools \subseteq 1..MaxPool
  /\ RequireStdJob \subseteq BOOLEAN

VARIABLES
  main,               \* JobDeclaratorClient::start
  unacked,            \* tasks that have not served the fallback notice yet
  pool,               \* the pool and JDS in use, 0 while there is none
  used,               \* upstreams[..].3: how many pools were tried already
  report,             \* fallback reports in the status channel
  fallbacks,          \* history: reports the main loop has acted upon
  jd_mode,            \* JD_MODE
  upstream_state,
  accepted,           \* ids a connection ever had: its messages may still be queued
  downstream,         \* ChannelManagerData.downstream with each DownstreamData
  downstream_id_factory,
  pending_downstream_requests,
  built_on,           \* the template provider: the tip each template extends, and
  prev_hash_due,      \* whether the SetNewPrevHash of the last one is still to come
  tx_requests,        \* RequestTransactionData not answered yet
  last_future_template,
  last_new_prev_hash, \* named by the template that came with it
  template_store,
  allocate_tokens,    \* the JDS the token is from, or 0
  coinbase_outputs,   \* the JDS the outputs are from, or Solo: the miner's own
  request_id_factory,
  last_declare_job_store,
  upstream_channel,   \* whether there is one
  extranonce_prefix_factory, \* the prefix the two factories extend
  job_factory,
  template_id_to_upstream_job_id,
  job_to_template,    \* downstream_channel_id_and_job_id_to_template_id
  to_pool,
  to_jds,
  pool_jobs,          \* the pool: the template of each job it gave an id
  next_prefix,        \* the pools: the next extranonce prefix
  cm_exit

mainVars == <<main, unacked, pool, used, report, fallbacks, jd_mode>>
downstreamVars == <<accepted, downstream, downstream_id_factory, job_to_template>>
streamVars == <<built_on, prev_hash_due>>
templateVars == <<last_future_template, last_new_prev_hash, template_store>>
tokenVars == <<allocate_tokens, coinbase_outputs>>
declareVars == <<request_id_factory, last_declare_job_store>>
channelVars == <<upstream_channel, extranonce_prefix_factory, job_factory>>
upstreamVars == <<upstream_state, channelVars, template_id_to_upstream_job_id>>
poolVars == <<pool_jobs, next_prefix>>
vars == <<mainVars, downstreamVars, streamVars, templateVars, tx_requests, tokenVars,
          declareVars, upstreamVars, to_pool, to_jds, poolVars,
          pending_downstream_requests, cm_exit>>

-----------------------------------------------------------------------------
(* Values. A job of a downstream channel is named by its template, a chain  *)
(* tip by the future template that announced it.                            *)

DownstreamId == 0..(MaxDownstream - 1)
ChannelId == 1..MaxChannelId
Template == 1..MaxTemplate
NoTemplate == 0
RequestId == 0..MaxRequest
Pool == 1..MaxPool
Solo == 0
Prefix == 1..MaxPrefix
OwnPrefix == 0             \* prefixes of the JDC's own, without a pool
NoJob == 0
IsFuture(t) == built_on[t] = t

Channel == [kind : {"none", "standard", "extended"}, prefix : Prefix \cup {OwnPrefix},
            future : Template \cup {NoTemplate}, active : Template \cup {NoTemplate},
            tip : Template \cup {NoTemplate}]
Closed == [kind |-> "none", prefix |-> OwnPrefix, future |-> NoTemplate,
           active |-> NoTemplate, tip |-> NoTemplate]

\* DownstreamData; next is its channel_id_factory, 0 for a connection not in the map.
DownstreamData == [next : 0..(MaxChannelId + 1), require_std_job : BOOLEAN,
                   group : BOOLEAN, channels : [ChannelId -> Channel]]
NoData == [next |-> 0, require_std_job |-> FALSE, group |-> FALSE,
           channels |-> [c \in ChannelId |-> Closed]]
Known(d) == downstream[d] # NoData
OpenChannels(data) == {c \in ChannelId : data.channels[c].kind # "none"}

DeclaredJob == [request_id : RequestId, template : Template, future : BOOLEAN,
                prev_hash : Template \cup {NoTemplate}]
OpenRequest == [downstream_id : DownstreamId, kind : {"standard", "extended"}]

\* A request carries the pool it was made for; an answered one survives that pool.
OpenUpstream == [type |-> "open", for |-> pool, answered |-> FALSE]
CustomJob(job) == [type |-> "custom", for |-> pool, answered |-> FALSE,
                   request_id |-> job.request_id, template |-> job.template,
                   prev_hash |-> job.prev_hash]
AllocateToken == [type |-> "allocate", for |-> pool, answered |-> FALSE]
DeclareMiningJob(req, t) == [type |-> "declare", for |-> pool, answered |-> FALSE,
                             request_id |-> req, template |-> t]

Serving == cm_exit = "running"

\* The manager serves the answer to the oldest request: the pool in use answers,
\* or a pool that is gone had answered already.
Answer(queue, type) ==
  /\ Serving
  /\ queue # <<>> /\ Head(queue).type = type
  /\ Head(queue).answered \/ pool # Solo
\* A pool or JDS refuses what was made for another one.
Accepts(request) == request.answered \/ request.for = pool

\* The bound on request ids, where a handler draws n of them.
Draws(n) ==
  /\ request_id_factory + n <= MaxRequest
  /\ request_id_factory' = request_id_factory + n

\* The bound on open requests, where a handler makes some.
QueueBound ==
  Len(to_pool') <= MaxQueue /\ Len(to_jds') <= MaxQueue /\ Len(tx_requests') <= MaxQueue

\* A fallback report into the status channel.
Reports ==
  /\ fallbacks + report < MaxReport
  /\ report' = report + 1
  /\ UNCHANGED <<main, unacked, pool, used, fallbacks, jd_mode>>

-----------------------------------------------------------------------------
(* The main loop and the connections to pools.                              *)

Init ==
  /\ main = "initializing" /\ unacked = {} /\ pool = Solo /\ used = 0 /\ report = 0
  /\ fallbacks = 0
  /\ jd_mode = "SoloMining"
  /\ accepted = {} /\ downstream = [d \in DownstreamId |-> NoData]
  /\ downstream_id_factory = 0 /\ job_to_template = {}
  /\ built_on = <<>> /\ prev_hash_due = FALSE
  /\ last_future_template = NoTemplate /\ last_new_prev_hash = NoTemplate
  /\ template_store = {} /\ tx_requests = <<>>
  /\ allocate_tokens = Solo /\ coinbase_outputs = Solo
  /\ request_id_factory = 0 /\ last_declare_job_store = {}
  /\ upstream_state = "SoloMining" /\ upstream_channel = FALSE
  /\ extranonce_prefix_factory = OwnPrefix /\ job_factory = FALSE
  /\ template_id_to_upstream_job_id = [t \in Template |-> NoJob]
  /\ to_pool = <<>> /\ to_jds = <<>>
  /\ pool_jobs = <<>> /\ next_prefix = 1
  /\ pending_downstream_requests = <<>> /\ cm_exit = "running"

\* initialize_jd sleeps a second per pool, in which the manager has served every
\* answer of the pool before.
Drained(queue) == \A i \in DOMAIN queue : ~queue[i].answered

\* The JDS says in SetupConnectionSuccess whether it wants full templates.
ModeOf(p) == IF p \in FullTemplatePools THEN "FullTemplate" ELSE "CoinbaseOnly"

\* initialize_jd finds the next pool that answers; its JDS chooses the mode. The
\* first token is requested and the listener started.
InitializeJd ==
  /\ Serving /\ main = "initializing"
  /\ Drained(to_pool) /\ Drained(to_jds)
  /\ \E p \in Pool : p > used /\ pool' = p /\ used' = p
  /\ jd_mode' = ModeOf(pool')
  /\ upstream_state' = "NoChannel"
  /\ Draws(1)
  /\ to_jds' = Append(to_jds, [AllocateToken EXCEPT !.for = pool'])
  /\ main' = "serving"
  /\ UNCHANGED <<unacked, report, fallbacks, downstreamVars, streamVars, templateVars, tx_requests,
                 tokenVars, last_declare_job_store, channelVars,
                 template_id_to_upstream_job_id, to_pool, poolVars,
                 pending_downstream_requests, cm_exit>>
  /\ QueueBound

KeepsUpstreamState ==                                                  \* mutant
  jd_mode' = "SoloMining" /\ UNCHANGED upstream_state

SetSoloMining ==
  jd_mode' = "SoloMining" /\ upstream_state' = "SoloMining"

\* No pool is left: the miners are served without one.
InitializeSolo ==
  /\ Serving /\ main = "initializing"
  /\ Drained(to_pool) /\ Drained(to_jds)
  /\ used' = MaxPool
  /\ SetSoloMining
  /\ main' = "serving"
  /\ UNCHANGED <<unacked, pool, report, fallbacks, downstreamVars, streamVars, templateVars,
                 tx_requests, tokenVars, declareVars, channelVars,
                 template_id_to_upstream_job_id, to_pool, to_jds, poolVars,
                 pending_downstream_requests, cm_exit>>

\* The task of the pool or of the JDS loses its connection.
LoseUpstream ==
  /\ Serving /\ pool # Solo
  /\ Reports
  /\ UNCHANGED <<downstreamVars, streamVars, templateVars, tx_requests, tokenVars,
                 declareVars, upstreamVars, to_pool, to_jds, poolVars,
                 pending_downstream_requests, cm_exit>>

\* The main loop takes a report and sends the fallback notice, with JD_MODE
\* changed under the handlers of the manager.
MainFallback ==
  /\ Serving /\ main = "serving" /\ report > 0
  /\ report' = report - 1
  /\ fallbacks' = fallbacks + 1
  /\ main' = "falling_back" /\ unacked' = {"channel_manager", "listener"}
  /\ jd_mode' = "SoloMining"
  /\ UNCHANGED <<pool, used, downstreamVars, streamVars, templateVars, tx_requests,
                 tokenVars, declareVars, upstreamVars, to_pool, to_jds, poolVars,
                 pending_downstream_requests, cm_exit>>

\* Every task acknowledges the notice by dropping its sender; the main loop goes on
\* when none is left.
Acknowledge(task) ==
  /\ main = "falling_back" /\ task \in unacked
  /\ unacked' = unacked \ {task}
  /\ main' = IF unacked' = {} THEN "initializing" ELSE main
  /\ UNCHANGED <<used, report, fallbacks, jd_mode>>

\* The accept loop ends.
ListenerStops ==
  /\ Serving
  /\ Acknowledge("listener")
  /\ UNCHANGED <<pool, downstreamVars, streamVars, templateVars, tx_requests, tokenVars,
                 declareVars, upstreamVars, to_pool, to_jds, poolVars,
                 pending_downstream_requests, cm_exit>>

\* Of the requests the manager made, the first a were answered and wait in its own
\* queue, the next are gone with the connection, and those after b have not left:
\* the task of the next pool will send them.
Survivors(queue, a, b) ==
  [i \in 1..a |-> [queue[i] EXCEPT !.answered = TRUE]] \o SubSeq(queue, b + 1, Len(queue))

KeepsUpstreamJobs ==                                                   \* mutant
  /\ upstream_channel' = FALSE /\ extranonce_prefix_factory' = OwnPrefix
  /\ UNCHANGED template_id_to_upstream_job_id
  /\ last_declare_job_store' = {} /\ request_id_factory' = 0
  /\ allocate_tokens' = Solo /\ coinbase_outputs' = Solo
  /\ template_store' = {}

\* ChannelManagerData::reset, for the variables of the JDS and the pool.
ResetUpstream ==
  /\ upstream_channel' = FALSE /\ extranonce_prefix_factory' = OwnPrefix
  /\ template_id_to_upstream_job_id' = [t \in Template |-> NoJob]
  /\ last_declare_job_store' = {} /\ request_id_factory' = 0
  /\ allocate_tokens' = Solo /\ coinbase_outputs' = Solo
  /\ template_store' = {}
\* For the miners.
ResetDownstream ==
  /\ downstream' = [d \in DownstreamId |-> NoData]
  /\ downstream_id_factory' = 0
  /\ job_to_template' = {}
  /\ pending_downstream_requests' = <<>>

\* The manager serves the fallback notice.
CmFallback ==
  /\ Serving
  /\ Acknowledge("channel_manager")
  /\ pool' = Solo /\ pool_jobs' = <<>>
  /\ upstream_state' = "SoloMining"
  /\ ResetUpstream /\ ResetDownstream
  /\ \E a, b \in 0..Len(to_pool) : a <= b /\ to_pool' = Survivors(to_pool, a, b)
  /\ \E a, b \in 0..Len(to_jds) : a <= b /\ to_jds' = Survivors(to_jds, a, b)
  /\ UNCHANGED <<accepted, streamVars, last_future_template, last_new_prev_hash,
                 tx_requests, job_factory, next_prefix, cm_exit>>

-----------------------------------------------------------------------------
(* Connections and channels of miners.                                      *)

\* The accept loop, until it has served the notice. A connection accepted after
\* the notice was sent does not hear it and stays.
AcceptDownstream ==
  /\ Serving
  /\ main = "serving" \/ "listener" \in unacked
  /\ LET d == downstream_id_factory IN
       /\ d \in DownstreamId
       /\ accepted' = accepted \cup {d}
       /\ \E std \in RequireStdJob :
            downstream' = [downstream EXCEPT ![d] =
                             [NoData EXCEPT !.next = 1, !.require_std_job = std]]
       /\ downstream_id_factory' = d + 1
  /\ UNCHANGED <<mainVars, job_to_template, streamVars, templateVars, tx_requests,
                 tokenVars, declareVars, upstreamVars, to_pool, to_jds, poolVars,
                 pending_downstream_requests, cm_exit>>

\* A DownstreamShutdown notice; the id may meanwhile be that of another connection.
RemoveDownstream(d) ==
  /\ Serving /\ d \in accepted
  /\ downstream' = [downstream EXCEPT ![d] = NoData]
  /\ job_to_template' = {e \in job_to_template : e[1] # d}
  /\ UNCHANGED <<mainVars, accepted, downstream_id_factory, streamVars, templateVars,
                 tx_requests, tokenVars, declareVars, upstreamVars, to_pool, to_jds,
                 poolVars, pending_downstream_requests, cm_exit>>

HandleCloseChannel(d, c) ==
  /\ Serving /\ d \in accepted
  /\ Known(d)
  /\ downstream' = [downstream EXCEPT ![d].channels[c] = Closed]
  /\ UNCHANGED <<mainVars, accepted, downstream_id_factory, job_to_template, streamVars,
                 templateVars, tx_requests, tokenVars, declareVars, upstreamVars, to_pool,
                 to_jds, poolVars, pending_downstream_requests, cm_exit>>

\* The new channel, with the last future template and prevhash applied.
OpenedChannel(kind, prefix) ==
  [kind |-> kind, prefix |-> prefix, future |-> NoTemplate,
   active |-> last_future_template, tip |-> last_new_prev_hash]
\* Applying a prevhash to a channel fails when the template is not the one it activates.
PrevHashFails == last_future_template # last_new_prev_hash

\* A group channel for the first standard channel; it takes an id of its own.
WithGroup(data, kind) ==
  IF kind = "standard" /\ ~data.require_std_job /\ ~data.group
  THEN [data EXCEPT !.group = TRUE, !.next = @ + 1]
  ELSE data

\* The tables while open requests are processed one after another. An error ends
\* the handler: "failed" when it is one the manager survives.
Tables(prefix) == [downstream |-> downstream, job_to_template |-> job_to_template,
                   prefix |-> prefix, result |-> "ok"]

\* handle_open_standard_mining_channel and handle_open_extended_mining_channel. A
\* request whose target, hash rate or extranonce size is refused spends its ids.
OpenChannel(s, r) ==
  LET d == r.downstream_id
      old == s.downstream[d]
      data == WithGroup(old, r.kind)
      c == data.next
      spent == [s EXCEPT !.downstream[d] = [data EXCEPT !.next = c + 1]]
  IN CASE s.result # "ok" -> s
       [] s.result = "ok" /\ (\/ last_future_template = NoTemplate
                              \/ last_new_prev_hash = NoTemplate
                              \/ old = NoData) ->
            [s EXCEPT !.result = "failed"]
       [] s.result = "ok" /\ old # NoData /\ last_new_prev_hash # NoTemplate
            /\ last_future_template # NoTemplate
            /\ PrevHashFails /\ (r.granted \/ data # old) ->
            [s EXCEPT !.result = "prevhash"]
       [] OTHER ->
            IF r.granted
            THEN [spent EXCEPT
                    !.downstream[d].channels[c] = OpenedChannel(r.kind, s.prefix),
                    !.job_to_template = @ \cup {<<d, c, last_future_template>>}]
            ELSE spent

Judged(r, granted) ==
  [downstream_id |-> r.downstream_id, kind |-> r.kind, granted |-> granted]

\* The manager stops on an error it does not survive.
Exit(s) == IF s.result \in {"ok", "failed"} THEN "running" ELSE s.result

Apply(s) ==
  /\ \A d \in DownstreamId : s.downstream[d].next <= MaxChannelId + 1
  /\ downstream' = s.downstream /\ job_to_template' = s.job_to_template
  /\ cm_exit' = Exit(s)

\* handle_downstream_message: without an upstream channel the first request asks
\* for one and those that follow wait with it.
HandleOpenFirst(r) ==
  /\ Serving /\ r.downstream_id \in accepted
  /\ upstream_state = "NoChannel"
  /\ pending_downstream_requests' = <<r>> \o pending_downstream_requests
  /\ upstream_state' = "Pending"
  /\ to_pool' = Append(to_pool, OpenUpstream)
  /\ UNCHANGED <<mainVars, downstreamVars, streamVars, templateVars, tx_requests, tokenVars,
                 declareVars, channelVars,
                 template_id_to_upstream_job_id, to_jds, poolVars, cm_exit>>
  /\ QueueBound

HandleOpenPending(r) ==
  /\ Serving /\ r.downstream_id \in accepted
  /\ upstream_state = "Pending"
  /\ Len(pending_downstream_requests) < MaxQueue
  /\ pending_downstream_requests' = Append(pending_downstream_requests, r)
  /\ UNCHANGED <<mainVars, downstreamVars, streamVars, templateVars, tx_requests, tokenVars,
                 declareVars, upstreamVars, to_pool, to_jds, poolVars, cm_exit>>

HandleOpenDirect(r) ==
  /\ Serving /\ r.downstream_id \in accepted
  /\ upstream_state \in {"Connected", "SoloMining"}
  /\ \E granted \in BOOLEAN :
       Apply(OpenChannel(Tables(extranonce_prefix_factory), Judged(r, granted)))
  /\ UNCHANGED <<mainVars, accepted, downstream_id_factory, streamVars, templateVars,
                 tx_requests, tokenVars, declareVars, upstreamVars, to_pool, to_jds,
                 poolVars, pending_downstream_requests>>

\* A share on the active job of a channel goes to the pool under the upstream job
\* of its template, if both are known.
UpstreamJobs(d, c, t) ==
  IF upstream_channel /\ <<d, c, t>> \in job_to_template
  THEN {template_id_to_upstream_job_id[t]} \ {NoJob}
  ELSE {}

\* The extended handler asks for the extensions of the connection first, with an
\* expect that panics when the connection was removed. Shares change nothing else
\* that is modelled.
HandleSubmitSharesExtended(d) ==
  /\ Serving /\ d \in accepted
  /\ ~Known(d)
  /\ cm_exit' = "panic"
  /\ UNCHANGED <<mainVars, downstreamVars, streamVars, templateVars, tx_requests, tokenVars,
                 declareVars, upstreamVars, to_pool, to_jds, poolVars,
                 pending_downstream_requests>>

-----------------------------------------------------------------------------
(* Messages of the pool.                                                    *)

\* The pool opened the channel, but no miner waits for it any more or its
\* extranonces are too short: the channel is closed again.
HandleOpenUnusable ==
  /\ Answer(to_pool, "open")
  /\ upstream_state' = "NoChannel"
  /\ to_pool' = Tail(to_pool)
  /\ Draws(1) /\ to_jds' = Append(to_jds, AllocateToken)
  /\ UNCHANGED <<mainVars, downstreamVars, streamVars, templateVars, tx_requests, tokenVars,
                 last_declare_job_store, channelVars,
                 template_id_to_upstream_job_id, poolVars, pending_downstream_requests,
                 cm_exit>>
  /\ QueueBound

\* The job of the last future template on the last prevhash, in CoinbaseOnly mode.
JobForOpen ==
  [request_id |-> request_id_factory, template |-> last_future_template,
   future |-> IsFuture(last_future_template), prev_hash |-> last_new_prev_hash]

\* Its job factory is the one of the pool before: there is none for the first pool.
CustomJobAtOpen ==
  /\ jd_mode = "CoinbaseOnly" /\ job_factory /\ allocate_tokens # Solo
  /\ last_future_template # NoTemplate /\ last_new_prev_hash # NoTemplate

\* The waiting requests are processed in the order they came.
OpenWaiting(prefix, granted) ==
  LET n == Len(pending_downstream_requests)
      after[i \in 0..n] ==
        IF i = 0 THEN Tables(prefix)
        ELSE OpenChannel(after[i - 1], Judged(pending_downstream_requests[i], granted[i]))
  IN  after[n]

HandleOpenExtendedMiningChannelSuccess ==
  /\ Answer(to_pool, "open")
  /\ pending_downstream_requests # <<>>
  /\ next_prefix \in Prefix
  /\ next_prefix' = next_prefix + 1
  /\ upstream_channel' = TRUE /\ job_factory' = TRUE
  /\ extranonce_prefix_factory' = next_prefix
  /\ upstream_state' = "Connected"
  /\ IF CustomJobAtOpen
     THEN /\ last_declare_job_store' = last_declare_job_store \cup {JobForOpen}
          /\ to_pool' = Append(Tail(to_pool), CustomJob(JobForOpen))
          /\ Draws(2) /\ to_jds' = Append(to_jds, AllocateToken)
     ELSE /\ to_pool' = Tail(to_pool)
          /\ UNCHANGED <<declareVars, to_jds>>
  /\ tx_requests' = IF jd_mode = "FullTemplate" /\ last_future_template # NoTemplate
                    THEN Append(tx_requests, last_future_template) ELSE tx_requests
  /\ \E granted \in [DOMAIN pending_downstream_requests -> BOOLEAN] :
       Apply(OpenWaiting(next_prefix, granted))
  /\ pending_downstream_requests' = <<>>
  /\ UNCHANGED <<mainVars, accepted, downstream_id_factory, streamVars, templateVars,
                 tokenVars, template_id_to_upstream_job_id, pool_jobs>>
  /\ QueueBound

\* OpenMiningChannelError and SetCustomMiningJobError: the pool is given up.
HandlePoolError ==
  /\ Answer(to_pool, "open") \/ Answer(to_pool, "custom")
  /\ Reports
  /\ to_pool' = Tail(to_pool)
  /\ UNCHANGED <<downstreamVars, streamVars, templateVars, tx_requests, tokenVars,
                 declareVars, upstreamVars, to_jds, poolVars, pending_downstream_requests,
                 cm_exit>>

HandleCloseChannelUpstream ==
  /\ Serving /\ pool # Solo /\ upstream_channel
  /\ upstream_channel' = FALSE
  /\ Reports
  /\ UNCHANGED <<downstreamVars, streamVars, templateVars, tx_requests, tokenVars,
                 declareVars, upstream_state, extranonce_prefix_factory, job_factory,
                 template_id_to_upstream_job_id,
                 to_pool, to_jds, poolVars, pending_downstream_requests, cm_exit>>

\* Every channel of every miner gets a prefix under the new one.
Reprefixed(data, prefix) ==
  [data EXCEPT !.channels =
     [c \in ChannelId |-> IF @[c].kind = "none" THEN @[c]
                          ELSE [@[c] EXCEPT !.prefix = prefix]]]

HandleSetExtranoncePrefix ==
  /\ Serving /\ pool # Solo /\ upstream_channel
  /\ next_prefix \in Prefix
  /\ next_prefix' = next_prefix + 1
  /\ extranonce_prefix_factory' = next_prefix
  /\ downstream' = [d \in DownstreamId |-> Reprefixed(downstream[d], next_prefix)]
  /\ UNCHANGED <<mainVars, accepted, downstream_id_factory, job_to_template,
                 streamVars, templateVars, tx_requests, tokenVars, declareVars,
                 upstream_state, upstream_channel, job_factory,
                 template_id_to_upstream_job_id, to_pool,
                 to_jds, pool_jobs, pending_downstream_requests, cm_exit>>

\* The job of the request is known to the pool; other jobs declared for its
\* template are dropped. An answer for a request that is not stored changes nothing.
HandleSetCustomMiningJobSuccess ==
  /\ Answer(to_pool, "custom")
  /\ Accepts(Head(to_pool))
  /\ to_pool' = Tail(to_pool)
  /\ LET r == Head(to_pool)
         declared == {j \in last_declare_job_store : j.request_id = r.request_id}
         job == Len(pool_jobs) + 1
     IN /\ pool_jobs' = IF r.answered THEN pool_jobs ELSE Append(pool_jobs, r.template)
        /\ \/ /\ declared = {}
              /\ UNCHANGED <<last_declare_job_store, template_id_to_upstream_job_id>>
           \/ \E j \in declared :
                /\ last_declare_job_store' =
                     {k \in last_declare_job_store : k.template # j.template}
                /\ template_id_to_upstream_job_id' =
                     [template_id_to_upstream_job_id EXCEPT ![j.template] = job]
  /\ UNCHANGED <<mainVars, downstreamVars, streamVars, templateVars, tx_requests, tokenVars,
                 request_id_factory, upstream_state, channelVars, to_jds,
                 next_prefix, pending_downstream_requests, cm_exit>>

-----------------------------------------------------------------------------
(* Messages of the JDS.                                                     *)

\* The token replaces the one before, the outputs of the JDS those in use.
HandleAllocateMiningJobTokenSuccess ==
  /\ Answer(to_jds, "allocate")
  /\ LET r == Head(to_jds)
         from == IF r.answered THEN r.for ELSE pool
     IN allocate_tokens' = from /\ coinbase_outputs' = from
  /\ to_jds' = Tail(to_jds)
  /\ UNCHANGED <<mainVars, downstreamVars, streamVars, templateVars, tx_requests,
                 declareVars, upstreamVars, to_pool, poolVars, pending_downstream_requests,
                 cm_exit>>

\* The declared job becomes a custom job for the pool, on the prevhash kept with it.
HandleDeclareMiningJobSuccess ==
  /\ Answer(to_jds, "declare")
  /\ Accepts(Head(to_jds))
  /\ to_jds' = Tail(to_jds)
  /\ LET declared == {j \in last_declare_job_store :
                        /\ j.request_id = Head(to_jds).request_id
                        /\ j.prev_hash # NoTemplate /\ job_factory /\ upstream_channel}
     IN \/ declared = {} /\ UNCHANGED to_pool
        \/ \E j \in declared : to_pool' = Append(to_pool, CustomJob(j))
  /\ UNCHANGED <<mainVars, downstreamVars, streamVars, templateVars, tx_requests, tokenVars,
                 declareVars, upstreamVars, poolVars, pending_downstream_requests, cm_exit>>
  /\ QueueBound

\* DeclareMiningJobError: the pool is given up.
HandleDeclareMiningJobError ==
  /\ Answer(to_jds, "declare")
  /\ Reports
  /\ to_jds' = Tail(to_jds)
  /\ UNCHANGED <<downstreamVars, streamVars, templateVars, tx_requests, tokenVars,
                 declareVars, upstreamVars, to_pool, poolVars, pending_downstream_requests,
                 cm_exit>>

-----------------------------------------------------------------------------
(* Messages of the template provider.                                       *)

\* on_new_template, for every channel of a connection.
WithTemplate(data, t, future) ==
  [data EXCEPT !.channels =
     [c \in ChannelId |->
        IF @[c].kind = "none" THEN @[c]
        ELSE IF future THEN [@[c] EXCEPT !.future = t] ELSE [@[c] EXCEPT !.active = t]]]

NewStandardJobs(t) ==                                                  \* mutant
  {e \in DownstreamId \X ChannelId \X {t} :
     downstream[e[1]].channels[e[2]].kind = "standard" /\ ~downstream[e[1]].group}

\* The jobs that are entered in the table: those of a standard channel only when
\* its connection has no group channel.
NewJobs(t) ==
  {e \in DownstreamId \X ChannelId \X {t} :
     LET kind == downstream[e[1]].channels[e[2]].kind IN
       kind = "extended" \/ (kind = "standard" /\ ~downstream[e[1]].group)}

\* In CoinbaseOnly mode a template on the current tip is proposed to the pool once
\* for every connection.
JobsForTemplate(t) ==
  LET n == Cardinality({d \in DownstreamId : Known(d)})
  IN IF jd_mode = "CoinbaseOnly" /\ upstream_channel /\ allocate_tokens # Solo
        /\ last_new_prev_hash # NoTemplate
     THEN [i \in 1..n |-> [request_id |-> request_id_factory + i - 1, template |-> t,
                           future |-> FALSE, prev_hash |-> last_new_prev_hash]]
     ELSE <<>>

\* A template on a new tip comes as a future template, followed by its SetNewPrevHash.
HandleNewTemplate(future) ==
  /\ Serving
  /\ ~prev_hash_due /\ Len(built_on) < MaxTemplate
  /\ future \/ built_on # <<>>
  /\ LET t == Len(built_on) + 1
         jobs == IF future THEN <<>> ELSE JobsForTemplate(t)
         allocates == jd_mode = "CoinbaseOnly" /\ ~future
     IN /\ built_on' = Append(built_on, IF future THEN t ELSE built_on[t - 1])
        /\ prev_hash_due' = future
        /\ template_store' = template_store \cup {t}
        /\ last_future_template' = IF future THEN t ELSE last_future_template
        /\ tx_requests' = IF jd_mode = "FullTemplate" THEN Append(tx_requests, t)
                          ELSE tx_requests
        /\ downstream' = [d \in DownstreamId |-> WithTemplate(downstream[d], t, future)]
        /\ job_to_template' = job_to_template \cup NewJobs(t)
        /\ last_declare_job_store' = last_declare_job_store \cup Range(jobs)
        /\ to_pool' = to_pool \o [i \in DOMAIN jobs |-> CustomJob(jobs[i])]
        /\ Draws(Len(jobs) + IF allocates THEN 1 ELSE 0)
        /\ to_jds' = IF allocates THEN Append(to_jds, AllocateToken) ELSE to_jds
  /\ UNCHANGED <<mainVars, accepted, downstream_id_factory, last_new_prev_hash,
                 tokenVars, upstreamVars, poolVars, pending_downstream_requests, cm_exit>>
  /\ QueueBound

\* The transactions of a template came: the job is declared to the JDS, or kept
\* until a prevhash activates its template. Without a token or the template only
\* the request ids and the template are spent.
HandleRequestTxDataSuccess ==
  /\ Serving
  /\ tx_requests # <<>>
  /\ LET t == Head(tx_requests)
         job == [request_id |-> request_id_factory, template |-> t,
                 future |-> IsFuture(t), prev_hash |-> last_new_prev_hash]
         declares == allocate_tokens # Solo /\ t \in template_store /\ job_factory
         waits == IsFuture(t) /\ last_new_prev_hash # t
     IN /\ tx_requests' = Tail(tx_requests)
        /\ template_store' = template_store \ {t}
        /\ Draws(2)
        /\ last_declare_job_store' =
             IF declares THEN last_declare_job_store \cup {job} ELSE last_declare_job_store
        /\ to_jds' = Append(to_jds, AllocateToken) \o
                       IF declares /\ ~waits
                       THEN <<DeclareMiningJob(job.request_id, t)>> ELSE <<>>
  /\ UNCHANGED <<mainVars, downstreamVars, streamVars, last_future_template,
                 last_new_prev_hash, tokenVars, upstreamVars, to_pool, poolVars,
                 pending_downstream_requests, cm_exit>>
  /\ QueueBound

\* The template is stale or not found: nothing is declared for it.
HandleRequestTxDataError ==
  /\ Serving
  /\ tx_requests # <<>>
  /\ tx_requests' = Tail(tx_requests)
  /\ UNCHANGED <<mainVars, downstreamVars, streamVars, templateVars, tokenVars, declareVars,
                 upstreamVars, to_pool, to_jds, poolVars, pending_downstream_requests,
                 cm_exit>>

WithPrevHashExtended(data, t) ==                                       \* mutant
  [data EXCEPT !.channels =
     [c \in ChannelId |->
        IF @[c].kind = "extended" /\ @[c].future = t
        THEN [@[c] EXCEPT !.active = t, !.tip = t, !.future = NoTemplate]
        ELSE @[c]]]

\* on_set_new_prev_hash, for every channel of a connection that has the template
\* as a future job.
WithPrevHash(data, t) ==
  [data EXCEPT !.channels =
     [c \in ChannelId |->
        IF @[c].kind # "none" /\ @[c].future = t
        THEN [@[c] EXCEPT !.active = t, !.tip = t, !.future = NoTemplate]
        ELSE @[c]]]

\* Declared jobs kept for the template now have their prevhash.
Activated(jobs, t) ==
  {IF j.future /\ j.template = t
   THEN [j EXCEPT !.future = FALSE, !.prev_hash = t] ELSE j : j \in jobs}

\* The future template of the new tip is proposed: to the JDS, if its transactions
\* came already, or to the pool.
HandleSetNewPrevHash ==
  /\ Serving
  /\ prev_hash_due
  /\ LET t == Len(built_on)
         kept == {j \in last_declare_job_store : j.template = last_future_template}
         job == [request_id |-> request_id_factory, template |-> last_future_template,
                 future |-> TRUE, prev_hash |-> t]
         proposes == jd_mode = "CoinbaseOnly" /\ upstream_channel /\ job_factory
                       /\ allocate_tokens # Solo
         coinbaseOnly == jd_mode = "CoinbaseOnly"
     IN /\ prev_hash_due' = FALSE
        /\ last_new_prev_hash' = t
        /\ downstream' = [d \in DownstreamId |-> WithPrevHash(downstream[d], t)]
        /\ last_declare_job_store' = Activated(last_declare_job_store, t) \cup
                                       IF proposes THEN {job} ELSE {}
        /\ to_pool' = IF proposes THEN Append(to_pool, CustomJob(job)) ELSE to_pool
        /\ Draws((IF proposes THEN 1 ELSE 0) + (IF coinbaseOnly THEN 1 ELSE 0))
        /\ CASE coinbaseOnly -> to_jds' = Append(to_jds, AllocateToken)
             [] jd_mode = "FullTemplate" /\ kept # {} ->
                  \E j \in kept : to_jds' = Append(to_jds, DeclareMiningJob(j.request_id, t))
             [] OTHER -> UNCHANGED to_jds
  /\ UNCHANGED <<mainVars, accepted, downstream_id_factory, job_to_template,
                 built_on, last_future_template, template_store, tx_requests, tokenVars,
                 upstreamVars, poolVars, pending_downstream_requests, cm_exit>>
  /\ QueueBound

-----------------------------------------------------------------------------
MainStep == InitializeJd \/ InitializeSolo \/ LoseUpstream \/ MainFallback \/ ListenerStops
            \/ CmFallback

DownstreamStep ==
  \/ AcceptDownstream
  \/ \E d \in DownstreamId :
       \/ RemoveDownstream(d) \/ HandleSubmitSharesExtended(d)
       \/ \E c \in ChannelId : HandleCloseChannel(d, c)
  \/ \E r \in OpenRequest :
       HandleOpenFirst(r) \/ HandleOpenPending(r) \/ HandleOpenDirect(r)

PoolStep ==
  \/ HandleOpenUnusable \/ HandleOpenExtendedMiningChannelSuccess \/ HandlePoolError
  \/ HandleCloseChannelUpstream \/ HandleSetExtranoncePrefix
  \/ HandleSetCustomMiningJobSuccess

JdsStep == HandleAllocateMiningJobTokenSuccess \/ HandleDeclareMiningJobSuccess
           \/ HandleDeclareMiningJobError

TemplateStep ==
  \/ \E future \in BOOLEAN : HandleNewTemplate(future)
  \/ HandleRequestTxDataSuccess \/ HandleRequestTxDataError \/ HandleSetNewPrevHash

Next == MainStep \/ DownstreamStep \/ PoolStep \/ JdsStep \/ TemplateStep

Spec == Init /\ [][Next]_vars

-----------------------------------------------------------------------------
(* Properties.                                                              *)

\* Type invariant; the main loop waits for the fallback exactly while someone has
\* not acknowledged the notice.
TypeOK ==
  /\ main \in {"initializing", "serving", "falling_back"}
  /\ unacked \subseteq {"channel_manager", "listener"}
  /\ main = "falling_back" <=> unacked # {}
  /\ pool \in Pool \cup {Solo} /\ used \in 0..MaxPool /\ report \in 0..MaxReport
  /\ fallbacks \in 0..MaxReport
  /\ jd_mode \in {"SoloMining", "CoinbaseOnly", "FullTemplate"}
  /\ upstream_state \in {"NoChannel", "Pending", "Connected", "SoloMining"}
  /\ accepted \subseteq DownstreamId /\ downstream \in [DownstreamId -> DownstreamData]
  /\ downstream_id_factory \in 0..MaxDownstream
  /\ job_to_template \subseteq DownstreamId \X ChannelId \X Template
  /\ pending_downstream_requests \in Seq(OpenRequest)
  /\ Len(built_on) <= MaxTemplate /\ prev_hash_due \in BOOLEAN
  /\ last_future_template \in Template \cup {NoTemplate}
  /\ last_new_prev_hash \in Template \cup {NoTemplate}
  /\ template_store \subseteq Template /\ tx_requests \in Seq(Template)
  /\ allocate_tokens \in Pool \cup {Solo} /\ coinbase_outputs \in Pool \cup {Solo}
  /\ request_id_factory \in RequestId /\ last_declare_job_store \subseteq DeclaredJob
  /\ upstream_channel \in BOOLEAN /\ job_factory \in BOOLEAN
  /\ extranonce_prefix_factory \in Prefix \cup {OwnPrefix}
  /\ template_id_to_upstream_job_id \in [Template -> Nat]
  /\ pool_jobs \in Seq(Template) /\ next_prefix \in 1..(MaxPrefix + 1)
  /\ cm_exit \in {"running", "prevhash", "panic"}

\* A share is forwarded under the right job: whatever upstream job id the manager
\* keeps for a template (SetCustomMiningJobSuccess), the pool in use knows that job,
\* and it is the job of this template. Answers of the pool before, which the manager
\* serves after the reset, must not leave their ids behind. (A SetCustomMiningJob of
\* before the reset cannot reach the next pool as a valid one: the queue is FIFO, so
\* it comes before any channel is opened there and the pool's check of the channel
\* id refuses it.)
ForwardingIsExact ==
  \A t \in Template :
    template_id_to_upstream_job_id[t] # NoJob /\ upstream_channel =>
      /\ template_id_to_upstream_job_id[t] \in DOMAIN pool_jobs
      /\ pool_jobs[template_id_to_upstream_job_id[t]] = t

\* Outside the window between a future template and its SetNewPrevHash every channel
\* of every miner works on the tip the manager knows, however the channel came to be:
\* opened directly, from the waiting requests, or before the pool changed.
TipAgreement ==
  ~prev_hash_due /\ Serving =>
    \A d \in DownstreamId : \A c \in OpenChannels(downstream[d]) :
      downstream[d].channels[c].tip = last_new_prev_hash

\* Work is not lost between the two tables: once the pool has given the template of
\* a channel's active job an id, a share on that job is forwarded. Standard channels
\* under a group channel are excepted: their jobs are not entered (template handler).
SharesReachThePool ==
  \A d \in DownstreamId : \A c \in OpenChannels(downstream[d]) :
    LET channel == downstream[d].channels[c] IN
      /\ upstream_channel /\ template_id_to_upstream_job_id[channel.active] # NoJob
      /\ ~(channel.kind = "standard" /\ downstream[d].group)
      => UpstreamJobs(d, c, channel.active) # {}

\* Without a pool the manager opens channels by itself: answers of the last pool,
\* served after the reset, leave no state in which a request would wait for a pool.
SoloServes ==
  main = "serving" /\ pool = Solo =>
    upstream_state = "SoloMining" /\ jd_mode = "SoloMining"

\* What the doc of ChannelManagerData::reset promises ("returns to a clean state"):
\* without a pool the coinbase pays the miner's own outputs, no longer a JDS's.
SoloPaysTheMiner ==
  main = "serving" /\ pool = Solo => coinbase_outputs = Solo
====
