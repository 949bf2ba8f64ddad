# mara-pool in TLA+

TLA+ models of the Stratum V2 applications in this repository, the TLC
configurations that check them on small instances, and TLAPS proofs of what
they state for every instance. `PROJECT.json` lists the components, the runs,
the source lines each definition stands for, the hazards the properties are
aimed at, the mutants that show each property can fail, the findings and the
theorems.

1. [The system](#1-the-system)
2. [Modules and their correspondence to the code](#2-modules-and-their-correspondence-to-the-code)
3. [Runs](#3-runs)
4. [Bounds, symmetry, deadlock and fairness](#4-bounds-symmetry-deadlock-and-fairness)
5. [Proofs](#5-proofs)
6. [Findings](#6-findings)
7. [What is assumed and what is not modelled](#7-what-is-assumed-and-what-is-not-modelled)
8. [Plan](#8-plan)

To check a run or a proof module, in this directory:

    tlc -workers 2 -config MCPoolChannelManager.cfg MCPoolChannelManager
    tlapm PoolChannelManagerProofs.tla

## 1. The system

A pool serves mining clients. It takes block templates from a template
provider, turns them into jobs for the channels of its clients and validates
their shares. A job declarator server (JDS) lets clients declare jobs of their
own; a job declarator client (JDC) sits between miners, pool and JDS; a
translator serves Stratum V1 miners. All are tokio programs whose tasks talk
through `async_channel` queues, tokio broadcast channels and state behind
mutexes.

| component | state | operations | talks to |
|---|---|---|---|
| pool channel manager (`pool/src/lib/channel_manager`) | connections, per connection group/standard/extended channels and an id factory; two extranonce factories; vardiff map; last future template and prev hash | mining messages, templates, vardiff timer, shutdown notices | downstream tasks (queue in, broadcast out), template receiver (queues), status queue, persistence |
| pool downstream task (`pool/src/lib/downstream`) | flags, negotiated extensions, channel objects | SetupConnection, forwarding in both directions | I/O tasks, channel manager, status queue |
| pool I/O tasks (`pool/src/lib/io_task.rs`) | a socket half and a queue | read frames, write frames | peer, downstream task |
| main loop, status, shutdown (`pool/src/lib/mod.rs`, `status.rs`, `utils.rs`) | status queue, broadcast channel, task handles | serve a status, Ctrl+C, join, abort | every task |
| pool template receiver (`pool/src/lib/template_receiver`) | connection to a template provider, or a thread with a cancellation token | forward templates, constraints, solutions | channel manager, Bitcoin Core |
| file persistence (`stratum-apps/src/persistence/file.rs`) | bounded channel, worker, file | persist, flush, shutdown | share handlers, disk |
| composite, metrics, no-op persistence | routes, counters | persist by route, with fallbacks | backends |
| task manager (`stratum-apps/src/task_manager.rs`) | task handles | spawn, abort_all, join_all | main loop |
| job declarator server (`pool-apps/jd-server`) | tokens, declared job, missing and known transactions per client; a shared mempool with reference counters | AllocateMiningJobToken, DeclareMiningJob, ProvideMissingTransactionsSuccess, PushSolution; mempool update, transaction fetch, block submission | clients, Bitcoin node (RPC) |
| job declarator client (`miner-apps/jd-client`) | upstream channel state, pending opens, declared and pending jobs, template state | opens, declarations, custom jobs, fallback between pools, solo mining | miners, pool, JDS, template provider |
| translator (`miner-apps/translator`) | SV1 sessions, jobs, pending difficulty updates, aggregated or per-miner channels | SV1 requests, SV2 channel messages, vardiff, fallback | SV1 miners, pool |
| bitcoin-core-sv2 | constraints, templates, monitors | waitNext, new templates, prev hashes | Bitcoin Core (IPC), pool or JDC |
| network helpers, stratum-apps helpers, configuration, errors | a partially read frame; else none | framing, encodings, RPC calls, parsing | all |
| mining device, integration tests, deployment | - | - | - |

What is hard in it, and what makes the components correct:

* **Opening, closing and removing channels race templates.** A channel may be
  created before, between or after a future template and its `SetNewPrevHash`,
  and may be closed or lost meanwhile. Correct: all channels stand on the last
  tip; the active job extends it; a client that follows its messages mines what
  the pool validates; the extranonce spaces given out are disjoint; vardiff
  entries live exactly as long as their channels.
* **A connection fails in several places at once.** Setup, reader, writer and
  forwarding may each discover it, while its messages are still queued.
  Correct: it is announced once, after its task has ended; it leaves the
  manager's map; its I/O tasks end; nothing else stops because of it.
* **Shutdown goes through two channels, one of them lossy.** Status messages
  are queued; the broadcast channel drops messages for a slow receiver.
  Correct: the loss of a component that the pool cannot do without is reported and
  stops the pool, and a pool that is stopping does stop.
* **Persistence never blocks its callers.** The channel is bounded, lines are
  written by a blocking pool behind the worker, failures are reported late.
  Correct: an accepted event is written once and in order, or has failed, as long as
  the worker runs.
* **The JDS mempool is shared.** Clients answer late or for old jobs;
  transactions are fetched by other tasks; a counter decides on eviction.
  Correct: only jobs without an open position are acknowledged, an answer about an
  older job fills none of a newer one's, only acknowledged jobs become blocks, and
  the transactions of a declared job are not evicted (they may be: section 6).
* **An upstream is replaced under a running program.** Translator and JDC fall
  back from one upstream to the next while miners, queues and answers of the old
  one are still there. Correct: the fallback completes and leaves nothing behind;
  a loss is always noticed; answers of the old pool do not name jobs of the new
  one; without a pool the JDC serves by itself and pays the miner.
* **The translator has three views of a miner's work.** The SV1 server and the
  task of a miner share its data lock by lock, the channel manager keeps a copy
  of every channel, aggregated mode shares one upstream channel. Correct: miner
  and translator agree on job and difficulty when nothing is on its way; shares
  go to the channel whose extranonce space they come from; no two miners search
  the same space.
* **Templates are fetched by overlapping tasks.** New constraints start a monitor
  while the old one may be waiting or fetching; stale templates are removed ten
  seconds later. Correct: as long as no monitor outlives a change of constraints,
  templates come with their tip or extend the last one; a template in use can be
  submitted; every tip is announced; a terminated
  connection ends.

`PROJECT.json` lists these hazards at the lines where they bite.

## 2. Modules and their correspondence to the code

All source names are kept where TLA+ allows. A definition marked `\* mutant`
is a plausible wrong version of the definition that follows it; nothing in a
specification uses one.

### PoolChannelManager

The manager is one task: its loop is a `select!` over shutdown notices, the
vardiff timer, template messages and mining messages. A handler takes the data
lock, mutates, unlocks and forwards its messages without really suspending, so
**one handler is one action** and interleaving is the order of the inputs.
Mining messages arrive on an unbounded queue and clients do not depend on how
far the manager has got: a message of a connection may be served any time after
its SetupConnection, *also after the connection was removed*.

| state | code |
|---|---|
| `downstream`, `vardiff` | keys of `ChannelManagerData.downstream` and `.vardiff` |
| `channels[d][c]`, `group_channels[d]` | `standard_channels`, `extended_channels`, `group_channels` of `DownstreamData`: kind, extranonce prefix, work (future jobs, active job, chain tip), target |
| `channel_id_factory[d]`, `extranonce_prefix_factory_*` | the factories; the prefix counters are finite and never reclaimed |
| `last_future_template`, `last_new_prev_hash` | the fields of that name |
| `phase`, `requires_*` | the connection's SetupConnection and its flags |
| `next_template`, `pending_prev_hash`, `built_on` | the template provider's stream (external) |
| `miner[d][c]` | what a client makes of the messages sent to it (external) |
| `cm_exit` | the error (or panic) that ended the loop |

A template, a job and a tip are one number: the template's id. A job is named
by its template, a tip by the template whose `SetNewPrevHash` announced it.

Actions: `AcceptDownstream`, `HandleSetupConnection`, `RemoveDownstream`,
`ShutdownAll`, the seven mining handlers (`HandleOpenStandardMiningChannel`,
`HandleOpenExtendedMiningChannel`, `HandleCloseChannel`,
`HandleSubmitSharesStandard`, `HandleSubmitSharesExtended`,
`HandleUpdateChannel`, `HandleSetCustomMiningJob`), `RunVardiff`,
`HandleNewTemplate`, `HandleSetNewPrevHash`. Every early return of a handler is
a disjunct: an answer (`Reply`) or an error that ends the loop (`Exit`).

### PoolLifecycle

The tasks of a running pool and how they are brought down. One action is one
branch of one task's `select!`, run to its next suspension.

| state | code |
|---|---|
| `main` | where `PoolSv2::start` is: its loop, joining the Bitcoin Core thread, after `abort_all`, in `join_all`, returned |
| `status` | the status queue |
| `notify_shutdown`, `position` | everything broadcast so far, and how much of it each receiver has passed; a receiver more than `NotifyCapacity` behind is lagged |
| `task` | every spawned task: channel manager, server, template receiver (or token watcher), and reader, writer and Downstream task of each connection |
| `downstream` | the manager's map |
| `frames`, `inbound`, `mining_queue` | what a peer sent, its inbound queue, its messages queued for the manager |
| `token`, `core` | cancellation token and thread of the Bitcoin Core receiver |
| `late`, `joined` | tasks spawned after `abort_all` drained the handles, and those of them that `join_all` found |

`Init` is a pool that serves, with either template provider (`core` is "none" for
Sv2Tp), whose manager may have up to `Earlier` notices of past connections still
to read. Lag is modelled as tokio defines it (`Err(Lagged)` once, then the oldest
message kept). The receivers differ in what they do with it, as the code does: the
manager, the server and the Sv2 template receiver break their loops without a
report (state "lagged"), the downstream and I/O tasks and the token watcher go on.
`LossIsReported` says that nothing else is lost in silence: a manager, template
receiver or Bitcoin Core thread that ended while the pool serves, other than by a
panic or by falling behind, has a report waiting or a watcher that will write it.
After `start` has returned the process ends with what still runs, so the
liveness properties count a stopped pool as done. A writer in the middle of
a frame sees neither notices nor closed queues.

`PoolLifecycle` says what `PoolChannelManager` leaves to its environment: when
a connection may be removed, and that its messages may still be queued then.
Conversely a mining message here may fail, or panic after the removal, because
`PoolChannelManager` shows that it can.

### FilePersistence

`calls` and `accepted` are the calls of `persist_event` and those that returned
`Ok`; `channel` the bounded channel; `worker` the worker's place in
`worker_loop`; `in_flight`, `write_err` tokio's `File` (one line is written by
the blocking pool at a time, its failure is reported by the next write); `file`
and `failed` the outcome. Callers persist, flush, shut down and drop their
handles; the worker opens, serves commands, drains, flushes, ends; it may be
aborted, but a line in flight is still written. An event is the number of its
call; the line format is left out.

`FilePersistence` implements the abstract `EventLog`: a queue of accepted events
(`pending`, the line in flight and the writes in the channel) that get their
outcome in order, and lose it only at the step that closes the log.

### JdServer

`tokens`, `jobs`, `declared` are per client the keys of `token_to_job_map`, the
last request id, and `declared_mining_job`: the list declared (`txs`), its
`transactions_with_state` (`filled`, `None` where missing) and `missing_indexes`
(`missing`). `answer` is what the client sent about its last job, `acknowledged`
what it was told; `mempool` maps a transaction to absent, thin (id only) or its
reference counter; `adding` holds the calls of `add_tx_data_to_mempool` under way,
one RPC at a time; `blocks` what was sent to the submitting task. A job is a list,
in which a transaction may occur twice. An answer holds *any* transactions, as
many as the client likes: the code stores the id of what it is given at the next
missing position, acknowledges once every position is filled, and fails when
there are more transactions than positions; ids are compared nowhere, and nowhere
in the model. A malformed token panics the client's task, and a client that hangs
up before its set-up is answered the listener's. Actions are the four messages,
the two ends of the retry in the solution handler (`Retrieved`,
`RetrievalTimeout`), the steps of the adding tasks (`Look`, `Fetched`,
`FetchFails`, `AddUnknown`), `UpdateMempool`, the end of the server, and connection
set-up and loss.

### BitcoinCoreTemplates and TemplateStream

The tasks of `bitcoin-core-sv2` run on one thread, so a step is what a task does
between two awaited IPC answers. `run` is where `BitcoinCoreSv2::run` is;
`monitor[m]` the `monitor_ipc_templates` task started by the m-th
`CoinbaseOutputConstraints`, with the counter it captured; `incoming` the
handler of client messages; `stale_tasks` the pending removals. A template is its
id and the tip it extends. `TemplateStream` is the promise the channel managers
of pool and JDC build on (their models have it as their environment): a template
announces a new tip or extends the last one, and nothing comes before the first
tip. The refinement maps `run` to the state of the stream, `current_prev_hash` to
its tip and `overlap` to the variable of that name.

New constraints raise a counter and start a monitor; the old one compares the
counter with the one it captured when its `waitNext` is answered, and stops. A
monitor that is waiting then stops, as the comment at `handlers.rs:21-22` wants
it, and `TemplateStream` keeps its whole promise over such a change. A monitor
that is fetching or sending captures the new counter in its next round and goes on
next to the new one. `overlap` is set when new constraints meet such a monitor
(`Between`), and from then on `TemplateStream` promises less: tips may be announced
again and templates of an older tip sent. So the refinement catches a monitor that does not stop (its
mutant), and not what two monitors do that the code lets overlap.

### TranslatorLifecycle

The tasks of the translator and the fallback between upstreams. One action is
one branch of one task's `select!`. The broadcast channel keeps one message
(`notice`; its capacity is 1 in the code), so a receiver with more to read lags
(`unread`); `status` is the status queue; `asks`, `to_cm`, `to_upstream`,
`from_upstream`, `to_server` the queues between the tasks, which outlive a
connection.

The reader and the writer of an upstream (`io_task.rs`) are receivers of the
broadcast too. In their `select!` they ignore every notice but `ShutdownAll`, so
one that waits there takes a notice in the step that sends it, and `link` is
whether their queues are open. A writer inside `write_frame` reads nothing:
`outbound[u]` is what the writer of upstream `u` still has to write, and `held`
the writers that have a notice to read when they are done (`WriterWrote`,
`WriterFails`). They outlive the upstream task, and a failed attempt to connect
may leave one behind (`ConnectFails`). A fallback is acknowledged when no receiver
holds the notice, writers included (`held = {}`), which is how `rx.recv()` on the
dropped senders behaves.

The actions of `TranslatorSv2::start` are `HandleStatus`, `Acknowledged`,
`ConnectFails`, `ConnectSucceeds`, `ServerStarts`, `ConnectGivesUp`, `CtrlC`,
`Completed`, `ShutdownTimeout`, `Joined`. Between `ConnectSucceeds` and
`ServerStarts` ("binding") the new upstream task runs without an SV1 server; if
the port cannot be bound, `start` leaves with that task alive. `join_all`
("joining_all") waits for the writers also on the way without the timeout. The
whole is `TasksInit`, `TasksNext`, `TasksSpec`. It shares the set of miners with
`TranslatorChannelManager` (`Sv1Miners`), and nothing else: the two look at the
same program from the tasks and from the channels.

### TranslatorChannelManager

The channels by id with the tip and job each stands on (`extended_channels`),
the shared channel of aggregated mode (`upstream_channel`) and its prefix
factory, both modes chosen in `Init`. A handler is one action: the manager's own
task is the only one that takes its lock. The upstream numbers channels, starts
each with a future job and its `SetNewPrevHash`, announces tips to all of them,
closes channels, refuses requests and is replaced by a fallback; its messages
wait in one queue.

### TranslatorSv1Server

A step ends where a lock is released, because the task of a miner and the server
task share `data[m]` (`DownstreamData`) one access at a time: a handshake message
is `HandleHandshakeMessage`, `AskForChannel`, `QueueMessage`, an opened channel is
`OpenChannel`, `DrainQueue`. `inbox` is what the server has broadcast to a
miner's task, `has` what the miner was told; `updates` and `waiting` are the
`UpdateChannel`s without an answer and `pending_target_updates`, kept per miner
because nothing reads their order among miners. Targets are numbers, a larger one
is easier.

### JdcChannelManager

The channel manager of the JDC together with the main loop that changes the pool
under it. A handler only awaits unbounded queues, so it is one action. `to_pool`
and `to_jds` are the requests whose answer the manager has not served; a fallback
resets the manager's data (`CmFallback`) but not these queues, so answers of the
old pool meet the new state. `downstream[d]` holds the channels of a connection
with their future and active job and tip; `job_to_template` and
`template_id_to_upstream_job_id` are the two tables a share passes on its way to
the pool; `pool_jobs` is what the pool has given ids to. A job is named by its
template, a tip by the future template that announced it. The mode of a pool
(`CoinbaseOnly` or `FullTemplate`) is `FullTemplatePools`, mining without a pool
is `Solo`.

## 3. Runs

| run | instance | checks | shows |
|---|---|---|---|
| `channel_manager` | 2 connections, 2 channel ids each, 3 templates, 2 targets, 2 + 2 prefixes | `TypeOK`, `VardiffMatchesChannels`, `TipAgreement`, `WorkIsOnTip`, `MinerAgreement`, `SearchSpacesDisjoint`, `ExitsAreExplained` | the manager's maps agree, all channels stand on the last tip, clients mine what is validated at the target it is validated against, search spaces are disjoint, the loop ends only for its causes |
| `panic_on_late_share` | 1 connection | `NeverPanics` (violated) | a queued share of a removed connection panics the manager |
| `teardown` | 1 connection, either template provider, capacity 1, 1 earlier notice, 2 frames | `OneNoticePerConnection`, `LiveSessionIsKnown`, `LossIsReported`, `ConnectionRemoved`, `IoTasksEnd`, `ComponentLossStopsPool`, `ShutdownCompletes` | with receivers that fall behind: one announcement per connection, after its task; no live one is forgotten; failed connections go; a failed component reports it and the pool goes down; a pool that is going down stops, unless a peer keeps it |
| `file_persistence` | channel of 2, 4 events | `TypeOK`, `NothingLostWhileRunning`, `AcceptedIsWritten`, `ImplementsLog` | the backend is an event log: order, no loss before the worker ends, every accepted event gets its outcome |
| `jd_server` | 1 client, 2 transactions, 2 jobs of up to 2 positions | `TypeOK`, `AcknowledgedIsComplete`, `BlocksWereAcknowledged` | an acknowledged job has no open position and none filled by an answer about another job; blocks are of acknowledged jobs |
| `jds_eviction` | 2 clients, 1 transaction | `JobStaysKnown` (violated) | the end of one client's job evicts a transaction of another's |
| `tproxy_lifecycle` | 2 miners, 2 upstreams | `FallbackLeavesNothing`, `FallbackCompletes`, `LossIsHandled`, `ShutdownReachesComponents` | a fallback leaves nothing and completes unless a writer never leaves `write_frame`, a loss is handled, a shutdown reaches everyone |
| `tproxy_channels` | 2 miners, 2 upstream channels, 2 tips, both modes | `PrefixesDistinct`, `SharesInTheirSpace`, `JobsOnTheServersTip`, `TwinsAgree` | search spaces are disjoint, shares go upstream where they belong, jobs follow their prev hash, miners' channels follow the shared one |
| `tproxy_sv1` | 2 miners, 2 jobs, 2 targets, aggregated with vardiff and per-miner without | `DifficultyAgrees`, `NotifyAfterDifficulty`, `WorkIsCurrent` | miner and translator agree on difficulty and job, lock by lock |
| `jdc` | 1 connection, 2 channel ids, 2 templates, 2 pools and solo mining | `ForwardingIsExact`, `TipAgreement`, `SharesReachThePool`, `SoloServes` | shares are forwarded under the right job across a fallback, all channels stand on the tip, solo mining serves |
| `jdc_stale_outputs` | the same | `SoloPaysTheMiner` (violated) | an answer of the lost JDS survives the reset; solo mining pays its outputs |
| `bitcoin_core` | 3 tips, 1 rise of fees, 2 constraints | `LiveTemplatesAreServed`, `ImplementsStream`, `TipIsAnnounced`, `ShutdownEnds` | the tasks implement the template stream, in order until a monitor goes on next to a new one; templates in use are served, tips announced, connections end |

The "violated" runs check what a comment or message of the repository says and
the code does not do; see [Findings](#6-findings). Every property of a passing
run has a mutant of the code under which TLC finds it violated.

## 4. Bounds, symmetry, deadlock and fairness

**Bounds.** Every bound is a constant, and its guard is marked `\* bound`.

* `PoolChannelManager`: two channel ids hold a group with a standard channel, two
  extended channels, or a refused open and a channel. Three templates are a first
  tip, a further template and a new tip. Two connections are enough for every
  property: all relate at most two channels. Two targets let vardiff and
  `UpdateChannel` change one. Prefix limits below the number of possible opens
  make exhaustion happen.
* `PoolLifecycle`: with a capacity of 1, any two notices (the earlier one, the
  connection's, `ShutdownAll`) make a receiver that has not read lag: the manager
  at its start, every receiver later. One frame is enough to be set up; the second
  is a message that can be queued when its connection goes.
* `FilePersistence`: four events overfill a channel of two while one is in
  flight.
* `JdServer`: two jobs of up to two positions: a request can be answered after the
  job was replaced, with too few, too many or other transactions; a transaction
  can be listed twice, leave and return. The server asks once for a job, and the
  model takes one answer about it; answers to older requests come any number of
  times. Two clients and one transaction are all that `jds_eviction` needs.
* `TranslatorLifecycle`: two upstreams are a fallback and the end of the list;
  two miners let one notice push out another, since the channel keeps one. Of the
  attempts on an upstream that is given up at most one leaves its writer behind.
* `TranslatorChannelManager`: a channel of each of two miners, two tips (a future
  job, its activation and the next), two other events (job, target, close,
  refusal, fallback).
* `TranslatorSv1Server`: two jobs (a job and its replacement), one retarget by the
  translator or the upstream, one miner that leaves, two messages waiting for a
  miner.
* `JdcChannelManager`: two templates (a tip and a further template, or two tips),
  three requests, queues of two, one fallback from a full-template pool to a
  coinbase-only one, or to none. With one fallback report the second report of
  the same loss does not occur. `RequireStdJob = {FALSE}`: a connection without
  its own group behaves as one with extended channels only.
* `BitcoinCoreTemplates`: two constraints make two monitors overlap; three tips
  let one change before, one during and one after that. The second constraints
  meet a monitor in each of its places.

The theorems of section 5 hold without the bounds being small.

**Symmetry** of the connections is used in `channel_manager`, of the miners in
`tproxy_sv1`; both check invariants only. No run of a liveness property uses it.

**Deadlock** is not checked: the manager's loop, the pool, the worker and the
server really end, and the bounds end the rest.

**Fairness.** `PoolLifecycle!FairSpec` has weak fairness of `Ready`, the branches of
all tasks that do not wait for a peer: serving a notice, noticing a closed queue,
serving a queued frame or message, serving a status, the steps of `start()`,
the end of an aborted task, the end of a cancelled thread. `select!` polls its
branches in random order, so a branch that stays ready is taken, and tokio
schedules every ready task; these steps are finite in number, so it is enough that
some ready one is always taken, which is less than fairness of each. Nothing is assumed of peers (`ReaderFrame`,
`WriterWritten`), of Bitcoin Core (`CoreConnected`), of failures or of Ctrl+C.
In `FilePersistence` the worker and the blocking pool are fair, the callers
and the abort are not. In `TranslatorLifecycle` it is again the branches that
wait for nobody outside: notices, a closed connection, the status queue and the
acknowledgement; nothing is assumed of connection attempts, nor of `write_frame`:
that every write ends some time is a premise of `FallbackCompletes`, not of the
specification. In `BitcoinCoreTemplates` every call to Bitcoin Core
is answered, a `waitNext` within the ten seconds it is given; new blocks,
constraints, failures and the cancellation are not assumed to happen.

## 5. Proofs

Every module but the two abstract ones has a `...Proofs` module; that of
`TranslatorChannelManager` and `TranslatorLifecycle` is `TranslatorProofs`. The theorems
hold for every set of connections, clients or miners, any number of channels,
templates, transactions, jobs, events, fallbacks and any capacities, from the
named `ASSUME`s of the modules only: bounds are naturals, capacities positive;
miners are a finite set; a target exists, and of the translator's,
which are positive numbers, one is the easiest; `None` is no other value; modes
are pairs of booleans.

| theorem | module | states |
|---|---|---|
| `TypeCorrect`, `VardiffExact`, `TipsAgree`, `WorkOnTip`, `MinersAgree`, `SpacesDisjoint`, `ExitsExplained` | `PoolChannelManagerProofs` | `Spec => []P` for the seven invariants of `channel_manager` |
| `LifecycleTypes`, `OneNotice`, `LiveSessionsKnown`, `LossesAreReported` | `PoolLifecycleProofs` | type correctness, and the three invariants of `teardown`, for any capacity of the broadcast channel |
| `FileTypes`, `LinesInOrder`, `NothingLost` | `FilePersistenceProofs` | type correctness, the order of the file (`FileInOrder`), and `NothingLostWhileRunning` |
| `BackendIsLog` | `FilePersistenceProofs` | `FilePersistence` implements `EventLog` (`ImplementsLog`) |
| `JdServerTypes`, `SuccessIsComplete`, `BlocksAcknowledged` | `JdServerProofs` | the three invariants of `jd_server`, for any number of clients, transactions and positions, and any answers |
| `CoreTypes`, `LiveServed` | `BitcoinCoreTemplatesProofs` | type correctness and `LiveTemplatesAreServed` |
| `TasksAreStream` | `BitcoinCoreTemplatesProofs` | `BitcoinCoreTemplates` implements `TemplateStream` (`ImplementsStream`) |
| `ManagerTypes`, `SpacesDistinct`, `SharesFit`, `ChannelsFollowTheShared`, `JobsFit` | `TranslatorProofs` | type correctness, `PrefixesDistinct`, `SharesInTheirSpace`, `TwinsAgree`, `JobsOnTheServersTip` |
| `FallbackIsClean` | `TranslatorProofs` | `FallbackLeavesNothing` of `TranslatorLifecycle`, without an assumption on its constants |
| `TasksTypes` | `TranslatorProofs` | `TasksTypeOK`, type correctness of `TranslatorLifecycle` |
| `NeverGoesBack` | `TranslatorProofs` | `UpstreamIsNew`: each upstream is used once, and only when nothing that served the last one is alive |
| `AcknowledgementsCome` | `TranslatorProofs` | `WaitedForCanRead` and `BacklogsOnlyShrink`: `start` waits only for tasks that can read and for writers inside `write_frame`, and no step makes it wait for more; `FallbackCompletes` short of fairness and the end of writes |
| `ServerTypesHold`, `DifficultiesAgree`, `NotifiesAfterDifficulty`, `WorkStaysCurrent` | `TranslatorSv1ServerProofs` | type correctness, `DifficultyAgrees`, `NotifyAfterDifficulty`, `WorkIsCurrent` |
| `JdcTypes`, `ForwardsExactly`, `TipsAgree`, `SharesReach`, `ServesAlone` | `JdcChannelManagerProofs` | type correctness, `ForwardingIsExact`, `TipAgreement`, `SharesReachThePool`, `SoloServes` |

The arguments:

* **PoolChannelManager.** `TipAgreement` is not inductive: that a
  `SetNewPrevHash` activates *every* channel rests on each channel having the
  future job of the template it names. `IInv` adds the template stream
  (`StreamInv`: the last future template is the last one activated unless its
  prev hash is due), that only set-up connections in the map have channels
  (`ObjectsInv`), and for every group and channel that its future jobs are
  exactly `Pending`, the template whose prev hash is due (`GroupInv`,
  `ChannelWork`). Custom work breaks the equality: an extended channel of such
  a client opened while a prev hash is due has no future job, and then only
  moves its tip. It is right for `WorkIsOnTip` because it has no template as
  active job either, which is the conjunct
  `w.future # Pending => w.active \notin Template`. Disjointness rests on
  `PrefixInv`: every prefix in use lies at or below the counter of its factory.
* **PoolLifecycle.** `OneNoticePerConnection` and `LiveSessionIsKnown` are
  inductive together with `TypeOK`: the manager removes a connection on its
  notice only, a notice exists only for an ended task, and a connection whose
  task has ended is never reported again. `LossIsReported` follows the one queue
  that leads to it: a report leaves the status queue only in the step in which the
  main loop is left, and the watcher, which speaks for the Bitcoin Core
  thread once that runs, ends without a report only on `ShutdownAll`, which is broadcast when the
  loop has been left (`LossInv`).
* **FilePersistence.** `IInv` orders the whole pipeline: queued events are in
  order, come after the line in flight, and both after what is written or
  failed (`ChannelInOrder`, `Pipeline`). For the refinement, `Pending` is *the*
  sequence that lists the unsettled events in order; a lemma shows there is one
  and only one (by the least unsettled event), and each action either appends
  its newest event, takes its first, or leaves the set alone (`LogNext`).
* **JdServer.** `Conversation(c)` ties a declared job to what its client answered
  and was told: `JobState(c)` says that a recognized position stands for the
  transaction declared there, and that the missing positions stand for what was
  given when the job is acknowledged, and for nothing before. An answer that names
  an older job changes none of this, since request ids only grow. Nothing is
  assumed of a client.
* **BitcoinCoreTemplates.** A delayed removal captures only ids that were stale,
  so that they are never live again rests on every id held by a monitor being
  new (`HeldIsFresh`) and everything stored or stale having been sent
  (`StoreIsSent`). The refinement needs that without an overlap there is one
  monitor that is not waiting to be stopped (`SoleMonitor`), and that it holds
  templates of no tip older than the announced one (`HeldInOrder`); so a change of
  constraints that meets waiting monitors only keeps the order. After an overlap a
  step of an overtaken monitor is one that `TemplateStream` allows from then on.
* **TranslatorChannelManager.** Prefixes are distinct because an answer that is
  still expected names an upstream channel nobody uses (`AnswersAreFresh`; a
  miner asks once, so an answer from before a fallback finds no pending
  request) and because a factory counts its prefixes (`Counted`,
  `PrefixSources`). `OneUpstream` says that with one upstream channel every
  channel follows the shared one. `JobsOnTheServersTip` is not inductive: it is
  a statement about the queue. `Armed` says that each `SetNewPrevHash` in it
  will find its future job when its turn comes, whatever is handled before it,
  `TipsInOrder` that tips and jobs come in order.
* **TranslatorLifecycle.** Until the fallback is acknowledged nothing else is
  broadcast, so the upstream task and the SV1 server hold the notice unless they
  have ended (`FallbackIsHeard`). That a server which ended before the notice has
  reported its failure (`ServerServes`) needs that a new server never reads the
  notice of the fallback before it, which is what `EndedIsDeaf` and the
  acknowledgement give. For the types, a queue keeps messages of its kind
  through every step, and `Candidate` is an upstream neither tried nor found
  failing (`CandidateIsNew`, by `LeastNumber`); with `InUse`, the upstream in use
  was tried, that gives `UpstreamIsNew`. `Backlog(r)` counts the reads by which a
  task is away from having acknowledged. A task has one as long as it is alive
  only (`AllDeaf`), its branch is then ready, its read lowers the count and no
  other step raises it (`OneBacklog`, task by task). Besides the tasks, `start`
  waits only for writers inside `write_frame` (`HeldWrite`), and none is added to
  them. What remains of `FallbackCompletes` is weak fairness of the finitely many
  reading branches, and its premise, the end of every write.
* **TranslatorSv1Server.** What a miner was sent, what is cached for it and what
  is in its inbox are seen as one: `Latest` is the value the miner will hold when
  everything is delivered. `Sound(m)` says that this is what the translator
  wants of the miner or, when a pending target waits, that the updates sent for
  its channel ask for no more (`InStep`, `Covered`), so that an answer releases
  it. `overlapped` marks exactly the steps that break `InStep`. `WillPrecede` puts
  a `set_difficulty` before the first job of the inbox, `Current` makes the
  newest valid job the last one told.
* **JdcChannelManager.** An answer of a pool that was given up finds nothing:
  without a pool nothing is stored (`NothingStored`, `Phases`), and request ids
  are never used for a second template (`Identified`), so a custom job answered
  by the pool in use is the job of its template (`Exact`). Every channel waits
  for the prev hash that is due or is on the tip (`Announced`, `OnTip`), and its
  jobs are in the job-to-template table (`Entered`); both are kept through
  the loop over queued open requests, message by message.

The loop over queued open requests (`OpenWaiting` of the JDC), and `Released` of the SV1 server, are
recursive functions on an interval. What the proofs need of them is not their value
but that a fact is kept from one argument to the next; `LeastNumber`, from the
well-foundedness of `<` on the naturals, gives the least argument at which it would
be lost (`Segment`).

Only model-checked:

* liveness (`ConnectionRemoved`, `IoTasksEnd`, `ComponentLossStopsPool`,
  `ShutdownCompletes`, `AcceptedIsWritten`, `FallbackCompletes`, `LossIsHandled`,
  `ShutdownReachesComponents`, `TipIsAnnounced`, `ShutdownEnds`), which is out of
  the prover's reach.
  With `AcknowledgementsCome` only the fairness half of the acknowledgement in
  `FallbackCompletes` is left to TLC.

`TasksTypeOK`, `UpstreamIsNew`, `WaitedForCanRead` and `BacklogsOnlyShrink` are
proved without being a question of a run; TLC agreed with
each on the instance of the component's run before it was proved.

No module uses a `RECURSIVE` operator.

## 6. Findings

Three are runs that TLC ends with a counterexample; `PROJECT.json` quotes the lines.

1. `panic_on_late_share` - `get_negotiated_extensions_with_client` uses
   `expect` on a lookup that fails for a queued share of a removed connection;
   the manager panics with its lock held. The other handlers answer such a
   message with `DownstreamNotFound`, which ends the manager and the pool.
2. `jdc_stale_outputs` - the reset of the JDC's channel manager at a fallback
   does not empty the queue of JDS answers; a late
   `AllocateMiningJobTokenSuccess` restores token and coinbase outputs of the
   pool that was given up.
3. `jds_eviction` - the doc comment calls the `u32` of a mempool entry "a reference
   counter for eviction", but it does not count references: it is not raised for a
   transaction that is already fat, and lowered for every transaction of a job that
   ends. A client's next declaration, even a refused one, evicts a transaction that
   another client's declared job lists.

Other disagreements between the code and its comments, or surprising behaviour,
that the models show (a counterexample is a few lines of cfg away) and that have
no run of their own:

*Pool.* A channel opened between a future `NewTemplate` and its
`SetNewPrevHash` gets a job the last prev hash cannot activate, and the error
ends the pool (`mining_message_handler.rs:496`). A lagged broadcast receiver is
taken for a closed channel: the manager, the server or the Sv2 template receiver
ends without a status and the pool runs on without it
(`channel_manager/mod.rs:319`); the state "lagged" of `PoolLifecycle`, which
`LossIsReported` and `ComponentLossStopsPool` leave out. `TaskManager::join_all` finds none of
the handles that `abort_all` drained.

*File persistence.* Events accepted while the worker drains or flushes, or before
a second `Shutdown` ends the drain, are dropped although `persist_event` returned
`Ok` (`file.rs:120`).

*JDS.* The ids of provided transactions are not compared with those declared: any
transactions of the right number complete a job, and its block is built from them.
They are still in another task's queue when `DeclareMiningJobSuccess` is sent. A
malformed token panics the client's task. A client that hangs up before its
`SetupConnection` is answered panics the listener, and no further client is let in.

*Translator.* One failure of an upstream may be reported twice, and the second
report leaves the healthy upstream the first fallback connected to; the list may
be exhausted that way although `initialize_upstream` promises to "exhaust every
healthy upstream". A message of a miner that is checked before its channel opens
and queued after the queue was drained opens a second channel for the miner
(`downstream.rs:390`), and a queued `mining.authorize` does not complete the
handshake. Overlapping vardiff updates, or a `SetTarget` nobody asked for, consume
pending updates. In aggregated mode a `notify` may precede the first
`set_difficulty`; two miners that open before the first answer get two upstream
channels; a miner that joins between a future job and its `SetNewPrevHash` stays
on the old job; an `UpdateChannel` without a shared channel panics the manager. A
share of a removed miner panics the server (`sv1_server.rs:373`). A channel
answered by the old upstream is installed after the reset. The writer of an upstream
that keeps the connection but stops reading stays inside `write_frame` with the
fallback's notice, and `start` then waits for ever to leave that upstream
(`translator/io_task.rs:102`, `mod.rs:175`; `FallbackCompletes` without its
premise); `join_all` at the shutdown waits for it as well. An upstream task that
fell behind the broadcasts ends without a report, and the translator stays without
an upstream.

*JDC.* Jobs of grouped standard channels after the first are not entered in the
job-to-template table, so their shares are not forwarded. A full template's
transaction data that arrives after the next tip is declared with the new prev
hash. After a reset the new pool gets no custom job until the next template, and
the first coinbase-only pool none at the opening of its channel. Requests behind
a failing one in the pending list are lost. Requests queued for the old pool or
JDS go to the next one. A second fallback report costs the next pool. A reset
restarts connection ids, so a late notice or message may hit a new connection,
and a connection accepted after the notice misses it. With Bitcoin Core over IPC
solo mining without a configured pool is never sent constraints, so no template
comes. `Upstream::start` returns silently when `SetupConnection` fails.

*bitcoin-core-sv2.* A monitor past its check when constraints change captures
the new counter and never ends, although the comment at `handlers.rs:21-22` says
the loop is broken (`Between`, `overlap`); it may send templates of the old constraints, announce an older
tip again or send an old tip's template as current. A template for the new
constraints is not sent before the next rise of fees or tip. The set of stale
ids is overwritten by the next tip, so older ids are answered as not found; a
request that races the removal terminates the connection; a failed `waitNext`
leaves its counter raised until the shutdown loop gives up.

## 7. What is assumed and what is not modelled

External code is modelled from how this repository uses it:

* `channels_sv2`: `on_new_template` stores a future job or replaces the active
  one; `on_set_new_prev_hash` needs the future job of the template it names,
  except an extended channel without future jobs; a custom job replaces the
  active job and leaves the tip.
* `ExtendedExtranonce`: `next_prefix_standard` and `next_prefix_extended`
  increment their own range before they return, and fail at the last value.
* The environment of `PoolChannelManager` and `JdcChannelManager` sends templates
  as `TemplateStream` promises them without an overlap, and as
  `BitcoinCoreTemplates` then does: a future `NewTemplate` is followed by its
  `SetNewPrevHash`, and no other template comes between. That the guards of this
  environment agree with `TemplateStream` is by reading, not a theorem. The JDC
  changes its constraints when its pool changes; the weaker promise of
  `TemplateStream` after an overlap is not in its model.
* A client that is sent a message handles it (the `miner` variable). Messages
  lost on the lagging broadcast channel towards the clients are not modelled
  yet.
* tokio: `select!` is fair, a lagged broadcast receiver gets `Lagged` once, a
  `File` writes one buffer at a time, an abort acts at the next suspension.
* A JDS client answers a request for transactions once, with whatever it likes, and
  messages are no longer than `MaxTxs`. Request ids are fresh: each is given to one
  declaration.
* Upstreams of translator and JDC answer requests in order, name the channels and
  jobs they open, and may refuse, fall silent or hang up at any time.
* Bitcoin Core answers an IPC call or fails it; `waitNext` ends after ten seconds.

Abstracted: share validation results, acknowledgement batching and what is
persisted about a share (`Validate`); negotiated extensions; sequence numbers and
TLV fields; hash rates (a target is drawn from a small set); message fields no
property tells apart; all encodings.

Coarser than the code:

* `FilePersistence`: failures of the drain and the final flush, which the code
  drops without logging them, are `failed` like the others; taking a command and
  handing its line to the file are one step.
* `HandleUpdateChannel` leaves out the `Err` returns for errors of the library
  other than its two refusals.
* `TranslatorSv1Server`: two runs of accesses to the data of a miner are one step
  each, a vardiff update with its `set_difficulty`, and the end of the handshake
  (see the module's header).
* `TranslatorLifecycle`: of the failed attempts on an upstream at most one leaves a
  writer behind.

Not modelled, with the reason:

* `UpdateChannel` and vardiff of the JDC: they only touch targets, and the same
  code is modelled in `PoolChannelManager`. `ProvideMissingTransactions` of the
  JDC: it answers from `template_store` without a change of state.
* Start-up connection attempts of pool and JDS, the JDS task that submits blocks,
  Noise handshake and framing: I/O around external code.
* Composite, metrics and no-op persistence: the composite keeps no state between
  calls; metrics are counters behind an HTTP endpoint.
* Configuration, errors, encodings, RPC client: no state.
* The mining device, integration tests, deployment: not part of the services.

## 8. Plan

Done: `PoolChannelManager`, `PoolLifecycle`, `FilePersistence` with `EventLog`,
`JdServer`, `BitcoinCoreTemplates` with `TemplateStream`, `TranslatorLifecycle`,
`TranslatorChannelManager`, `TranslatorSv1Server`, `JdcChannelManager`.

All safety properties the passing runs check are proved, both refinements among
them; what TLC keeps is liveness. To model, if the code moves there: the JDC under
the weaker template stream after its constraints have changed, the
delivery of messages to lagging clients of the pool, acknowledgement batches,
block submission of the JDS.
