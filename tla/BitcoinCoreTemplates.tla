------------------------ MODULE BitcoinCoreTemplates ------------------------
(***************************************************************************)
(* bitcoin-core-sv2: templates of Bitcoin Core, fetched over IPC, as a     *)
(* template distribution stream. The tasks run on one thread, so a step is *)
(* what a task does between two answers it waits for. A monitor waits for  *)
(* the next template (waitNext), fetches it and sends it. Every further    *)
(* CoinbaseOutputConstraints starts a monitor, and one that waits stops    *)
(* when its answer comes and the counter has changed. A monitor that is    *)
(* just fetching or sending reads the new counter and goes on.             *)
(***************************************************************************)
EXTENDS Naturals, Sequences, FiniteSets

CONSTANTS
  MaxTip,           \* bound: tips of Bitcoin Core
  MaxFeeRise,       \* bound: templates that only raise the fees
  MaxConstraints    \* bound: CoinbaseOutputConstraints of the client

ASSUME CoreBounds ==
  /\ MaxTip \in Nat \ {0} /\ MaxFeeRise \in Nat /\ MaxConstraints \in Nat \ {0}

VARIABLES
  core_tip,         \* Bitcoin Core's chain tip
  fee_rises,        \* history: fee-only templates so far
  run,              \* BitcoinCoreSv2::run
  cancelled,        \* global_cancellation_token
  current_template_ipc_client,           \* the tip its template extends
  current_prev_hash,
  coinbase_output_constraints_counter,
  wait_next_request_counter,
  template_id_factory,
  template_data,    \* ids of the templates kept
  stale_template_ids,
  stale_tasks,      \* process_stale_template_data: ids to remove, in order
  monitor,          \* the task spawned for each CoinbaseOutputConstraints
  incoming,         \* monitor_incoming_messages and the handler it runs
  overlap,          \* history: a monitor went on after a change of constraints
  sent,             \* history: templates sent with their tips, and
  live              \* the ids sent with or since the last SetNewPrevHash

tokenVars == <<run, cancelled>>
coreVars == <<core_tip, fee_rises>>
clientVars == <<current_template_ipc_client, coinbase_output_constraints_counter>>
storeVars == <<template_data, stale_template_ids, stale_tasks>>
streamVars == <<current_prev_hash, sent, live, overlap>>
vars == <<coreVars, tokenVars, clientVars, storeVars, streamVars, wait_next_request_counter,
          template_id_factory, monitor, incoming>>

Tip == 1..MaxTip
Monitor == 1..MaxConstraints

\* A monitor: where it is, the tip of the client it waits with, the counter it
\* captured, and the template it fetches or holds back.
Idle(pc) == [pc |-> pc, client |-> 0, count |-> 0, id |-> 0, tip |-> 0]

Init ==
  /\ core_tip = 1 /\ fee_rises = 0
  /\ run = "waiting" /\ cancelled = FALSE
  /\ current_template_ipc_client = 0 /\ current_prev_hash = 0
  /\ coinbase_output_constraints_counter = 0 /\ wait_next_request_counter = 0
  /\ template_id_factory = 0
  /\ template_data = {} /\ stale_template_ids = {} /\ stale_tasks = <<>>
  /\ monitor = [m \in Monitor |-> Idle("off")]
  /\ incoming = [pc |-> "off", tip |-> 0]
  /\ sent = {} /\ live = {} /\ overlap = FALSE

Alive == run # "ended"

-----------------------------------------------------------------------------
(* Bitcoin Core and the owner of the cancellation token.                    *)

NewBlock ==
  /\ Alive /\ core_tip < MaxTip
  /\ core_tip' = core_tip + 1
  /\ UNCHANGED <<fee_rises, tokenVars, clientVars, storeVars, streamVars,
                 wait_next_request_counter, template_id_factory, monitor, incoming>>

Cancel ==
  /\ Alive /\ ~cancelled
  /\ cancelled' = TRUE
  /\ UNCHANGED <<run, coreVars, clientVars, storeVars, streamVars,
                 wait_next_request_counter, template_id_factory, monitor, incoming>>

-----------------------------------------------------------------------------
(* BitcoinCoreSv2::run.                                                     *)

\* The first CoinbaseOutputConstraints gives the first template.
RunReceivesConstraints ==
  /\ run = "waiting"
  /\ run' = "bootstrapping"
  /\ current_template_ipc_client' = core_tip
  /\ coinbase_output_constraints_counter' = 1
  /\ template_id_factory' = template_id_factory + 1
  /\ UNCHANGED <<cancelled, coreVars, storeVars, streamVars, wait_next_request_counter,
                 monitor, incoming>>

\* NewTemplate as a future template, and SetNewPrevHash.
AnnouncesTip(id, tip) ==
  /\ current_prev_hash' = tip
  /\ sent' = sent \cup {[id |-> id, tip |-> tip]}
  /\ live' = {id}
  /\ UNCHANGED overlap

RunBootstraps ==
  /\ run = "bootstrapping"
  /\ run' = "serving"
  /\ AnnouncesTip(template_id_factory, current_template_ipc_client)
  /\ template_data' = {template_id_factory}
  /\ monitor' = [monitor EXCEPT ![1] = Idle("starting")]
  /\ incoming' = [pc |-> "idle", tip |-> 0]
  /\ UNCHANGED <<cancelled, coreVars, clientVars, stale_template_ids, stale_tasks,
                 wait_next_request_counter, template_id_factory>>

Waiting == {m \in Monitor : monitor[m].pc = "waiting"}

\* The shutdown loop waits for the waitNext requests. They end within 10 s, so the
\* limit of 50 s is only reached when the counter misses a failed one.
Drained ==
  wait_next_request_counter = 0 \/ wait_next_request_counter > Cardinality(Waiting)

\* run returns: before it has begun, when the first fetch fails, or after the
\* shutdown loop. Its thread ends, and every task with it.
RunEnds ==
  /\ \/ run = "waiting" /\ cancelled /\ UNCHANGED cancelled
     \/ run = "bootstrapping" /\ cancelled' = TRUE
     \/ run = "serving" /\ cancelled /\ Drained /\ UNCHANGED cancelled
  /\ run' = "ended"
  /\ UNCHANGED <<coreVars, clientVars, storeVars, streamVars, wait_next_request_counter,
                 template_id_factory, monitor, incoming>>

-----------------------------------------------------------------------------
(* monitor_ipc_templates.                                                   *)

\* The beginning of the loop: a waitNext request with the client that is current,
\* and the constraints counter as it is now.
NextRequest(m, client) ==
  monitor' = [monitor EXCEPT ![m] =
                [Idle("waiting") EXCEPT !.client = client,
                                        !.count = coinbase_output_constraints_counter]]

MonitorStarts(m) ==
  /\ Alive /\ monitor[m].pc = "starting"
  /\ NextRequest(m, current_template_ipc_client)
  /\ wait_next_request_counter' = wait_next_request_counter + 1
  /\ UNCHANGED <<coreVars, tokenVars, clientVars, storeVars, streamVars,
                 template_id_factory, incoming>>

StopsWhenCancelled(m) == cancelled                                     \* mutant

StopsOnChangeOnly(m) ==                                                \* mutant
  monitor[m].count # coinbase_output_constraints_counter

\* Whether the monitor stops at the answer of its request.
Stops(m) == cancelled \/ monitor[m].count # coinbase_output_constraints_counter

MonitorStops(m) ==
  /\ Alive /\ monitor[m].pc = "waiting"
  /\ Stops(m)
  /\ wait_next_request_counter' = wait_next_request_counter - 1
  /\ monitor' = [monitor EXCEPT ![m] = Idle("done")]
  /\ UNCHANGED <<coreVars, tokenVars, clientVars, storeVars, streamVars,
                 template_id_factory, incoming>>

TimeoutEndsMonitor(m) ==                                               \* mutant
  /\ Alive /\ monitor[m].pc = "waiting" /\ ~Stops(m)
  /\ monitor[m].client = core_tip
  /\ monitor' = [monitor EXCEPT ![m] = Idle("done")]
  /\ wait_next_request_counter' = wait_next_request_counter - 1
  /\ UNCHANGED <<coreVars, tokenVars, clientVars, storeVars, streamVars,
                 template_id_factory, incoming>>

\* Ten seconds without a new tip or higher fees.
WaitNextTimesOut(m) ==
  /\ Alive /\ monitor[m].pc = "waiting" /\ ~Stops(m)
  /\ monitor[m].client = core_tip
  /\ NextRequest(m, current_template_ipc_client)
  /\ UNCHANGED <<coreVars, tokenVars, clientVars, storeVars, streamVars,
                 wait_next_request_counter, template_id_factory, incoming>>

\* A fetch of the data of a new template, under a new id.
FetchTemplateData ==
  [Idle("fetching") EXCEPT !.id = template_id_factory + 1, !.tip = core_tip]

\* A new template, since the tip is another one or the fees rose: it becomes the
\* current client and its data are requested.
WaitNextReturns(m) ==
  /\ Alive /\ monitor[m].pc = "waiting" /\ ~Stops(m)
  /\ \/ monitor[m].client # core_tip /\ UNCHANGED fee_rises
     \/ /\ monitor[m].client = core_tip /\ fee_rises < MaxFeeRise
        /\ fee_rises' = fee_rises + 1
  /\ wait_next_request_counter' = wait_next_request_counter - 1
  /\ current_template_ipc_client' = core_tip
  /\ template_id_factory' = template_id_factory + 1
  /\ monitor' = [monitor EXCEPT ![m] = FetchTemplateData]
  /\ UNCHANGED <<core_tip, tokenVars, coinbase_output_constraints_counter, storeVars,
                 streamVars, incoming>>

StaleLater(id) ==                                                      \* mutant
  /\ stale_tasks' = Append(stale_tasks, template_data \cup {id})
  /\ template_data' = template_data \cup {id}

\* The templates kept so far go stale, the new one is kept.
KeepsWithNewTip(id) ==
  /\ stale_tasks' = Append(stale_tasks, template_data)
  /\ template_data' = template_data \cup {id}

OnNewTip(m) == monitor[m].tip # current_prev_hash

\* The data came. A template on another tip is announced with it; one on the same
\* tip is held back until the minimum interval has passed.
MonitorFetched(m) ==
  /\ Alive /\ monitor[m].pc = "fetching"
  /\ IF OnNewTip(m)
     THEN /\ AnnouncesTip(monitor[m].id, monitor[m].tip)
          /\ KeepsWithNewTip(monitor[m].id)
          /\ NextRequest(m, current_template_ipc_client)
          /\ wait_next_request_counter' = wait_next_request_counter + 1
     ELSE /\ monitor' = [monitor EXCEPT ![m].pc = "sleeping"]
          /\ UNCHANGED <<streamVars, stale_tasks, template_data, wait_next_request_counter>>
  /\ UNCHANGED <<coreVars, tokenVars, clientVars, stale_template_ids, template_id_factory,
                 incoming>>

\* The template goes out as one on the current tip, whatever that is by now.
MonitorSends(m) ==
  /\ Alive /\ monitor[m].pc = "sleeping"
  /\ sent' = sent \cup {[id |-> monitor[m].id, tip |-> monitor[m].tip]}
  /\ live' = live \cup {monitor[m].id}
  /\ template_data' = template_data \cup {monitor[m].id}
  /\ NextRequest(m, current_template_ipc_client)
  /\ wait_next_request_counter' = wait_next_request_counter + 1
  /\ UNCHANGED <<coreVars, tokenVars, clientVars, current_prev_hash, overlap,
                 stale_template_ids, stale_tasks, template_id_factory, incoming>>

\* An IPC call fails: the connection is terminated. A waitNext that failed stays
\* counted, one whose answer is unusable does not.
MonitorFails(m) ==
  /\ Alive
  /\ \/ /\ monitor[m].pc \in {"starting", "waiting", "fetching"}
        /\ UNCHANGED wait_next_request_counter
     \/ /\ monitor[m].pc = "waiting" /\ ~Stops(m)
        /\ wait_next_request_counter' = wait_next_request_counter - 1
  /\ cancelled' = TRUE
  /\ monitor' = [monitor EXCEPT ![m] = Idle("done")]
  /\ UNCHANGED <<run, coreVars, clientVars, storeVars, streamVars, template_id_factory,
                 incoming>>

\* Ten seconds after a new tip; its ids replace those that were stale before.
ProcessStaleTemplateData ==
  /\ Alive /\ stale_tasks # <<>>
  /\ stale_template_ids' = Head(stale_tasks)
  /\ template_data' = template_data \ Head(stale_tasks)
  /\ stale_tasks' = Tail(stale_tasks)
  /\ cancelled' \in {cancelled, TRUE}
  /\ UNCHANGED <<run, coreVars, clientVars, streamVars, wait_next_request_counter,
                 template_id_factory, monitor, incoming>>

-----------------------------------------------------------------------------
(* monitor_incoming_messages: one handler at a time.                        *)

\* Further constraints: a template under them is requested.
HandleCoinbaseOutputConstraints ==
  /\ Alive /\ incoming.pc = "idle"
  /\ coinbase_output_constraints_counter < MaxConstraints
  /\ incoming' = [pc |-> "creating", tip |-> core_tip]
  /\ UNCHANGED <<coreVars, tokenVars, clientVars, storeVars, streamVars,
                 wait_next_request_counter, template_id_factory, monitor>>

\* Monitors between two requests: they read the counter anew before they wait.
Between == {m \in Monitor : monitor[m].pc \in {"starting", "fetching", "sleeping"}}

\* It becomes the current client; the data of this template are never fetched. The
\* monitors that wait will stop, those between two requests will not.
ConstraintsApply ==
  /\ Alive /\ incoming.pc = "creating"
  /\ incoming' = [pc |-> "idle", tip |-> 0]
  /\ current_template_ipc_client' = incoming.tip
  /\ coinbase_output_constraints_counter' = coinbase_output_constraints_counter + 1
  /\ monitor' = [monitor EXCEPT ![coinbase_output_constraints_counter'] = Idle("starting")]
  /\ overlap' = (overlap \/ Between # {})
  /\ UNCHANGED <<coreVars, tokenVars, storeVars, current_prev_hash, sent, live,
                 wait_next_request_counter, template_id_factory>>

\* handle_submit_solution and handle_request_transaction_data look a template up.
Found(id) == id \in template_data

\* A template that is not stale and found is fetched; the others are refused.
HandleRequestTransactionData(id) ==
  /\ Alive /\ incoming.pc = "idle"
  /\ id \notin stale_template_ids /\ Found(id)
  /\ incoming' = [incoming EXCEPT !.pc = "fetching"]
  /\ UNCHANGED <<coreVars, tokenVars, clientVars, storeVars, streamVars,
                 wait_next_request_counter, template_id_factory, monitor>>

RequestAnswered ==
  /\ Alive /\ incoming.pc = "fetching"
  /\ incoming' = [incoming EXCEPT !.pc = "idle"]
  /\ UNCHANGED <<coreVars, tokenVars, clientVars, storeVars, streamVars,
                 wait_next_request_counter, template_id_factory, monitor>>

\* An IPC call fails, that of a template removed meanwhile included.
IncomingFails ==
  /\ Alive /\ incoming.pc \in {"creating", "fetching"}
  /\ cancelled' = TRUE
  /\ incoming' = [pc |-> "done", tip |-> 0]
  /\ UNCHANGED <<run, coreVars, clientVars, storeVars, streamVars,
                 wait_next_request_counter, template_id_factory, monitor>>

IncomingEnds ==
  /\ Alive /\ incoming.pc = "idle" /\ cancelled
  /\ incoming' = [pc |-> "done", tip |-> 0]
  /\ UNCHANGED <<coreVars, tokenVars, clientVars, storeVars, streamVars,
                 wait_next_request_counter, template_id_factory, monitor>>

-----------------------------------------------------------------------------
MonitorStep(m) ==
  \/ MonitorStarts(m) \/ MonitorStops(m) \/ WaitNextTimesOut(m) \/ WaitNextReturns(m)
  \/ MonitorFetched(m) \/ MonitorSends(m)

IncomingStep == ConstraintsApply \/ RequestAnswered \/ IncomingEnds

Next ==
  \/ NewBlock \/ Cancel
  \/ RunReceivesConstraints \/ RunBootstraps \/ RunEnds
  \/ \E m \in Monitor : MonitorStep(m) \/ MonitorFails(m)
  \/ ProcessStaleTemplateData
  \/ HandleCoinbaseOutputConstraints \/ IncomingStep \/ IncomingFails
  \/ \E s \in sent : HandleRequestTransactionData(s.id)

\* Bitcoin Core answers every call, a waitNext within its 10 s.
Fairness ==
  /\ WF_vars(RunBootstraps) /\ WF_vars(RunEnds)
  /\ \A m \in Monitor : WF_vars(MonitorStep(m))
  /\ WF_vars(IncomingStep)

Spec == Init /\ [][Next]_vars /\ Fairness

-----------------------------------------------------------------------------
(* Properties.                                                              *)

Id == 1..template_id_factory

\* Type invariant; the counter of waitNext requests covers those under way.
TypeOK ==
  /\ core_tip \in Tip /\ fee_rises \in 0..MaxFeeRise
  /\ run \in {"waiting", "bootstrapping", "serving", "ended"} /\ cancelled \in BOOLEAN
  /\ current_template_ipc_client \in Tip \cup {0} /\ current_prev_hash \in Tip \cup {0}
  /\ coinbase_output_constraints_counter \in 0..MaxConstraints
  /\ wait_next_request_counter >= Cardinality(Waiting)
  /\ template_data \subseteq Id /\ stale_template_ids \subseteq Id
  /\ stale_tasks \in Seq(SUBSET Id)
  /\ \A m \in Monitor :
       /\ monitor[m].pc \in {"off", "starting", "waiting", "fetching", "sleeping", "done"}
       /\ monitor[m].client \in Tip \cup {0} /\ monitor[m].tip \in Tip \cup {0}
       /\ monitor[m].id \in Id \cup {0}
  /\ incoming.pc \in {"off", "idle", "creating", "fetching", "done"}
  /\ sent \subseteq [id : Id, tip : Tip] /\ live \subseteq Id /\ overlap \in BOOLEAN

\* A solution for a template sent with or since the last tip can be submitted, and
\* its transactions requested: the removal of stale templates, ten seconds after a
\* tip and with ids captured then, never hits a template that is still in use.
LiveTemplatesAreServed ==
  \A id \in live : Found(id) /\ id \notin stale_template_ids
                   /\ \A i \in DOMAIN stale_tasks : id \notin stale_tasks[i]

\* The stream the channel managers rely on.
Stream == INSTANCE TemplateStream WITH
  state <- CASE run \in {"waiting", "bootstrapping"} -> "starting"
             [] run = "serving" -> "open"
             [] OTHER -> "closed",
  tip <- current_prev_hash

\* The tasks implement the template stream: tips only rise and a template extends the
\* last one, changes of constraints included, as long as each of them met only monitors
\* that waited. Once one went on, only templates of known tips are promised.
ImplementsStream == Stream!Spec

\* With one set of constraints every tip of Bitcoin Core is announced, unless the
\* next one comes first or the connection is terminated.
TipIsAnnounced ==
  \A t \in Tip :
    (run = "serving" /\ core_tip = t) ~>
      (current_prev_hash = t \/ core_tip # t \/ cancelled
       \/ coinbase_output_constraints_counter > 1)

\* A terminated connection ends: the shutdown loop sees all waitNext requests done.
ShutdownEnds == cancelled ~> run = "ended"
====
