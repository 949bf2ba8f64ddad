--------------------- MODULE BitcoinCoreTemplatesProofs ---------------------
(***************************************************************************)
(* Proofs about BitcoinCoreTemplates, for any number of tips, fee rises    *)
(* and coinbase output constraints.                                        *)
(***************************************************************************)
EXTENDS BitcoinCoreTemplates, FiniteSetTheorems, TLAPS

SentIds == {s.id : s \in sent}

\* A monitor that fetches a template or holds one back.
Holds(m) == monitor[m].pc \in {"fetching", "sleeping"}

MonitorState ==
  [pc : {"off", "starting", "waiting", "fetching", "sleeping", "done"},
   client : Tip \cup {0}, count : 0..MaxConstraints, id : Nat, tip : Tip \cup {0}]

IncomingState ==
  [pc : {"off", "idle", "creating", "fetching", "done"}, tip : Tip \cup {0}]

Types ==
  /\ TypeOK
  /\ template_id_factory \in Nat /\ wait_next_request_counter \in Nat
  /\ monitor \in [Monitor -> MonitorState] /\ incoming \in IncomingState

\* The tasks start when run has sent the first template, and one monitor for
\* each set of constraints.
Phases ==
  /\ run \in {"waiting", "bootstrapping"} =>
       /\ \A m \in Monitor : monitor[m].pc = "off"
       /\ incoming.pc = "off" /\ sent = {} /\ current_prev_hash = 0
  /\ run = "waiting" => coinbase_output_constraints_counter = 0 /\ template_id_factory = 0
  /\ run = "bootstrapping" =>
       /\ coinbase_output_constraints_counter = 1 /\ template_id_factory = 1
       /\ current_template_ipc_client \in Tip
  /\ run = "serving" =>
       coinbase_output_constraints_counter > 0 /\ \E s \in sent : s.tip = current_prev_hash
  /\ incoming.pc = "creating" =>
       coinbase_output_constraints_counter < MaxConstraints
  /\ \A m \in Monitor : m > coinbase_output_constraints_counter => monitor[m].pc = "off"

\* Nothing is ahead of Bitcoin Core.
BehindCore ==
  /\ current_prev_hash <= core_tip /\ current_template_ipc_client <= core_tip
  /\ incoming.tip <= core_tip
  /\ \A m \in Monitor : monitor[m].tip <= core_tip

\* Only templates that were sent are kept, go stale or are in use.
StoreIsSent ==
  /\ template_data \cup stale_template_ids \cup live \subseteq SentIds
  /\ \A i \in DOMAIN stale_tasks : stale_tasks[i] \subseteq SentIds

\* A template that is fetched or held back is new, and no two are the same.
HeldIsFresh ==
  /\ \A m \in Monitor : Holds(m) =>
       monitor[m].id \in Id \ SentIds /\ monitor[m].tip \in Tip
  /\ \A m, n \in Monitor : Holds(m) /\ Holds(n) /\ m # n => monitor[m].id # monitor[n].id

\* A monitor that goes on: between two requests, or waiting under the constraints in
\* force.
GoesOn(m) ==
  \/ m \in Between
  \/ monitor[m].pc = "waiting" /\ monitor[m].count = coinbase_output_constraints_counter

\* As long as no change of constraints left a monitor behind that goes on, the last
\* one started is the only one.
SoleMonitor ==
  /\ \A m \in Monitor : monitor[m].count <= coinbase_output_constraints_counter
  /\ ~overlap => \A m \in Monitor : GoesOn(m) => m = coinbase_output_constraints_counter

\* A template held back extends an announced tip: with one monitor that goes on, the
\* one announced last.
HeldInOrder ==
  /\ \A m \in Monitor :
       monitor[m].pc = "sleeping" => \E s \in sent : s.tip = monitor[m].tip
  /\ ~overlap =>
       \A m \in Monitor : Holds(m) =>
         /\ monitor[m].tip >= current_prev_hash
         /\ monitor[m].pc = "sleeping" => monitor[m].tip = current_prev_hash

IInv ==
  /\ Types /\ SoleMonitor /\ Phases /\ BehindCore /\ StoreIsSent /\ HeldIsFresh /\ HeldInOrder
  /\ LiveTemplatesAreServed

-----------------------------------------------------------------------------
(* The records of the tasks. *)

\* What a monitor is after a step, and that the others are left alone.
LEMMA MonitorSet ==
  ASSUME Types, NEW m \in Monitor, NEW r \in MonitorState,
         monitor' = [monitor EXCEPT ![m] = r]
  PROVE  /\ monitor' \in [Monitor -> MonitorState]
         /\ monitor'[m] = r
         /\ \A n \in Monitor : n # m => monitor'[n] = monitor[n]
BY DEF Types

\* The records the steps write.
LEMMA Records ==
  ASSUME Types
  PROVE  /\ \A pc \in {"starting", "done"} :
              Idle(pc) \in MonitorState /\ Idle(pc).pc = pc /\ Idle(pc).id = 0 /\ Idle(pc).tip = 0
         /\ FetchTemplateData \in MonitorState /\ FetchTemplateData.pc = "fetching"
         /\ FetchTemplateData.id = template_id_factory + 1 /\ FetchTemplateData.tip = core_tip
         /\ \A m \in Monitor :
              /\ monitor[m] \in MonitorState
              /\ [monitor[m] EXCEPT !.pc = "sleeping"] \in MonitorState
<1>1. core_tip \in Tip \cup {0} /\ template_id_factory + 1 \in Nat /\ 0 \in 0..MaxConstraints
  BY CoreBounds DEF Types, TypeOK
<1>2. \A pc \in {"starting", "done"} :
        Idle(pc) \in MonitorState /\ Idle(pc).pc = pc /\ Idle(pc).id = 0 /\ Idle(pc).tip = 0
  BY <1>1 DEF Idle, MonitorState
<1>3. /\ FetchTemplateData \in MonitorState /\ FetchTemplateData.pc = "fetching"
      /\ FetchTemplateData.id = template_id_factory + 1 /\ FetchTemplateData.tip = core_tip
  BY <1>1 DEF FetchTemplateData, Idle, MonitorState
<1>4. \A m \in Monitor :
          /\ monitor[m] \in MonitorState
          /\ [monitor[m] EXCEPT !.pc = "sleeping"] \in MonitorState
  BY DEF Types, MonitorState
<1> QED
  BY <1>2, <1>3, <1>4

\* A request for the next template leaves the monitor waiting, with nothing held.
LEMMA Requests ==
  ASSUME Types, NEW m \in Monitor, NextRequest(m, current_template_ipc_client)
  PROVE  /\ monitor' \in [Monitor -> MonitorState]
         /\ monitor'[m].pc = "waiting" /\ monitor'[m].id = 0 /\ monitor'[m].tip = 0
         /\ monitor'[m].count = coinbase_output_constraints_counter
         /\ \A n \in Monitor : n # m => monitor'[n] = monitor[n]
<1> DEFINE r == [Idle("waiting") EXCEPT !.client = current_template_ipc_client,
                                        !.count = coinbase_output_constraints_counter]
<1>1. /\ r \in MonitorState /\ r.pc = "waiting" /\ r.id = 0 /\ r.tip = 0
      /\ r.count = coinbase_output_constraints_counter
  BY CoreBounds DEF Types, TypeOK, Idle, MonitorState
<1>2. monitor' = [monitor EXCEPT ![m] = r]
  BY DEF NextRequest
<1> HIDE DEF r
<1> QED
  BY <1>1, <1>2, MonitorSet

-----------------------------------------------------------------------------
(* Types. *)

\* Bounds of the numbers, for the arithmetic of the steps.
LEMMA Numbers ==
  ASSUME Types
  PROVE  /\ MaxTip \in Nat \ {0} /\ MaxConstraints \in Nat \ {0} /\ MaxFeeRise \in Nat
         /\ core_tip \in 1..MaxTip /\ fee_rises \in 0..MaxFeeRise
         /\ template_id_factory \in Nat /\ wait_next_request_counter \in Nat
         /\ coinbase_output_constraints_counter \in 0..MaxConstraints
         /\ current_prev_hash \in 0..MaxTip /\ current_template_ipc_client \in 0..MaxTip
         /\ incoming.tip \in 0..MaxTip
         /\ \A m \in Monitor : monitor[m].tip \in 0..MaxTip /\ m \in 1..MaxConstraints
BY CoreBounds DEF Types, TypeOK, Tip, Monitor, MonitorState, IncomingState

\* The waitNext requests under way are finitely many.
LEMMA WaitingIsFinite ==
  ASSUME Types
  PROVE  IsFiniteSet(Waiting) /\ Cardinality(Waiting) \in Nat
<1>1. IsFiniteSet(Monitor)
  BY CoreBounds, FS_Interval DEF Monitor
<1>2. Waiting \in SUBSET Monitor
  BY DEF Waiting
<1>3. IsFiniteSet(Waiting)
  BY <1>1, <1>2, FS_Subset
<1> QED
  BY <1>3, FS_CardinalityType

\* The counter of waitNext requests covers those under way after a step of m: it is
\* raised when m begins to wait and lowered, if at all, when m no longer waits.
LEMMA RequestsAreCounted ==
  ASSUME Types, NEW m \in Monitor,
         \A n \in Monitor : n # m => monitor'[n].pc = monitor[n].pc,
         \/ /\ wait_next_request_counter' = wait_next_request_counter
            /\ monitor[m].pc = "waiting" \/ monitor'[m].pc # "waiting"
         \/ wait_next_request_counter' = wait_next_request_counter + 1
         \/ /\ wait_next_request_counter' = wait_next_request_counter - 1
            /\ monitor[m].pc = "waiting" /\ monitor'[m].pc # "waiting"
  PROVE  /\ wait_next_request_counter' \in Nat
         /\ wait_next_request_counter' >= Cardinality(Waiting')
<1>1. /\ IsFiniteSet(Waiting) /\ Cardinality(Waiting) \in Nat
      /\ wait_next_request_counter \in Nat
      /\ wait_next_request_counter >= Cardinality(Waiting)
  BY WaitingIsFinite DEF Types, TypeOK
<1>2. Waiting' \in {Waiting, Waiting \cup {m}, Waiting \ {m}}
  BY DEF Waiting
<1>3. /\ Cardinality(Waiting \cup {m}) =
           IF m \in Waiting THEN Cardinality(Waiting) ELSE Cardinality(Waiting) + 1
      /\ Cardinality(Waiting \ {m}) =
           IF m \in Waiting THEN Cardinality(Waiting) - 1 ELSE Cardinality(Waiting)
  BY <1>1, FS_AddElement, FS_RemoveElement
<1>4. CASE wait_next_request_counter' = wait_next_request_counter + 1
  <2>1. \/ Cardinality(Waiting') = Cardinality(Waiting)
        \/ Cardinality(Waiting') = Cardinality(Waiting \cup {m})
        \/ Cardinality(Waiting') = Cardinality(Waiting \ {m})
    BY <1>2, Zenon
  <2> QED
    BY <1>1, <1>3, <1>4, <2>1
<1>5. CASE /\ wait_next_request_counter' = wait_next_request_counter
           /\ monitor[m].pc = "waiting" \/ monitor'[m].pc # "waiting"
  <2>1. Waiting' = Waiting \/ Waiting' = Waiting \ {m}
    BY <1>5 DEF Waiting
  <2>2. \/ Cardinality(Waiting') = Cardinality(Waiting)
        \/ Cardinality(Waiting') = Cardinality(Waiting \ {m})
    BY <2>1, Zenon
  <2> QED
    BY <1>1, <1>3, <1>5, <2>2
<1>6. CASE /\ wait_next_request_counter' = wait_next_request_counter - 1
           /\ monitor[m].pc = "waiting" /\ monitor'[m].pc # "waiting"
  <2>1. m \in Waiting /\ Waiting' = Waiting \ {m}
    BY <1>6 DEF Waiting
  <2>2. Cardinality(Waiting) # 0
    BY <1>1, <2>1, FS_EmptySet
  <2> QED
    BY <1>1, <1>3, <1>6, <2>1, <2>2
<1> QED
  BY <1>4, <1>5, <1>6

\* Ids only grow, so sets of ids stay sets of ids.
LEMMA IdsGrow ==
  ASSUME Types, template_id_factory' \in {template_id_factory, template_id_factory + 1}
  PROVE  /\ Id \subseteq Id' /\ template_id_factory' \in Nat
         /\ \A s \in Seq(SUBSET Id) : s \in Seq(SUBSET Id')
<1>1. Id \subseteq Id' /\ template_id_factory' \in Nat
  BY DEF Types, Id
<1> QED
  BY <1>1

\* The types of the monitors and of the counter of their requests.
MonitorTypes ==
  /\ monitor \in [Monitor -> MonitorState]
  /\ \A m \in Monitor : monitor[m].id \in Id \cup {0}
  /\ wait_next_request_counter \in Nat
  /\ wait_next_request_counter >= Cardinality(Waiting)

\* The other types.
OtherTypes ==
  /\ core_tip \in Tip /\ fee_rises \in 0..MaxFeeRise
  /\ run \in {"waiting", "bootstrapping", "serving", "ended"} /\ cancelled \in BOOLEAN
  /\ current_template_ipc_client \in Tip \cup {0} /\ current_prev_hash \in Tip \cup {0}
  /\ coinbase_output_constraints_counter \in 0..MaxConstraints
  /\ template_id_factory \in Nat
  /\ template_data \subseteq Id /\ stale_template_ids \subseteq Id
  /\ stale_tasks \in Seq(SUBSET Id)
  /\ incoming \in IncomingState
  /\ sent \subseteq [id : Id, tip : Tip] /\ live \subseteq Id
  /\ overlap \in BOOLEAN

\* Together they are the types.
LEMMA TypesInParts ==
  /\ Types <=> MonitorTypes /\ OtherTypes
  /\ Types' <=> MonitorTypes' /\ OtherTypes'
<1>1. Types => MonitorTypes /\ OtherTypes
  BY DEF Types, TypeOK, MonitorTypes, OtherTypes
<1>2. MonitorTypes /\ OtherTypes => Types
  BY DEF Types, TypeOK, MonitorTypes, OtherTypes, MonitorState, IncomingState
<1>3. Types' => MonitorTypes' /\ OtherTypes'
  BY DEF Types, TypeOK, MonitorTypes, OtherTypes
<1>4. MonitorTypes' /\ OtherTypes' => Types'
  BY DEF Types, TypeOK, MonitorTypes, OtherTypes, MonitorState, IncomingState
<1> QED
  BY <1>1, <1>2, <1>3, <1>4

\* Steps that leave the monitors alone.
LEMMA MonitorTypesKept ==
  ASSUME Types, UNCHANGED <<monitor, wait_next_request_counter>>,
         template_id_factory' \in {template_id_factory, template_id_factory + 1}
  PROVE  MonitorTypes'
<1>1. MonitorTypes
  BY TypesInParts
<1>2. Waiting' = Waiting
  BY DEF Waiting
<1> QED
  BY <1>1, <1>2, IdsGrow DEF MonitorTypes

\* Steps of one monitor.
LEMMA MonitorTypesStep ==
  ASSUME Types, NEW m \in Monitor,
         monitor' \in [Monitor -> MonitorState],
         monitor'[m].id \in Id' \cup {0},
         \A n \in Monitor : n # m => monitor'[n] = monitor[n],
         template_id_factory' \in {template_id_factory, template_id_factory + 1},
         \/ /\ wait_next_request_counter' = wait_next_request_counter
            /\ monitor[m].pc = "waiting" \/ monitor'[m].pc # "waiting"
         \/ wait_next_request_counter' = wait_next_request_counter + 1
         \/ /\ wait_next_request_counter' = wait_next_request_counter - 1
            /\ monitor[m].pc = "waiting" /\ monitor'[m].pc # "waiting"
  PROVE  MonitorTypes'
<1>1. MonitorTypes
  BY TypesInParts
<1>2. /\ wait_next_request_counter' \in Nat
      /\ wait_next_request_counter' >= Cardinality(Waiting')
  BY RequestsAreCounted
<1> QED
  BY <1>1, <1>2, IdsGrow DEF MonitorTypes

\* Every step keeps the types.
LEMMA TypesNext ==
  ASSUME IInv, [Next]_vars
  PROVE  Types'
<1>0. Types /\ OtherTypes /\ MonitorTypes /\ Phases /\ HeldIsFresh
  BY TypesInParts DEF IInv
<1> USE CoreBounds
<1>1. ASSUME NEW m \in Monitor, MonitorStarts(m) PROVE Types'
  <2>1. MonitorTypes'
    BY <1>0, <1>1, Requests, MonitorTypesStep DEF MonitorStarts
  <2>2. OtherTypes'
    BY <1>0, <1>1 DEF MonitorStarts, OtherTypes, Id, coreVars, tokenVars, clientVars, storeVars,
                      streamVars
  <2> QED
    BY <2>1, <2>2, TypesInParts
<1>2. ASSUME NEW m \in Monitor, MonitorStops(m) \/ MonitorFails(m) PROVE Types'
  <2>1. monitor' = [monitor EXCEPT ![m] = Idle("done")]
    BY <1>2 DEF MonitorStops, MonitorFails
  <2>2. MonitorTypes'
    BY <1>0, <1>2, <2>1, Records, MonitorSet, MonitorTypesStep DEF MonitorStops, MonitorFails
  <2>3. OtherTypes'
    BY <1>0, <1>2 DEF MonitorStops, MonitorFails, OtherTypes, Id, coreVars, tokenVars,
                      clientVars, storeVars, streamVars
  <2> QED
    BY <2>2, <2>3, TypesInParts
<1>3. ASSUME NEW m \in Monitor, WaitNextTimesOut(m) PROVE Types'
  <2>1. MonitorTypes'
    BY <1>0, <1>3, Requests, MonitorTypesStep DEF WaitNextTimesOut
  <2>2. OtherTypes'
    BY <1>0, <1>3 DEF WaitNextTimesOut, OtherTypes, Id, coreVars, tokenVars, clientVars,
                      storeVars, streamVars
  <2> QED
    BY <2>1, <2>2, TypesInParts
<1>4. ASSUME NEW m \in Monitor, WaitNextReturns(m) PROVE Types'
  <2>1. /\ monitor' = [monitor EXCEPT ![m] = FetchTemplateData]
        /\ template_id_factory' = template_id_factory + 1 /\ monitor[m].pc = "waiting"
        /\ wait_next_request_counter' = wait_next_request_counter - 1
    BY <1>4 DEF WaitNextReturns
  <2>2. /\ monitor' \in [Monitor -> MonitorState] /\ monitor'[m] = FetchTemplateData
        /\ \A n \in Monitor : n # m => monitor'[n] = monitor[n]
    BY <1>0, <2>1, Records, MonitorSet
  <2>3. monitor'[m].id \in Id' /\ monitor'[m].pc # "waiting"
    BY <1>0, <2>1, <2>2, Records DEF Id, OtherTypes
  <2>4. MonitorTypes'
    BY <1>0, <2>1, <2>2, <2>3, MonitorTypesStep
  <2>5. OtherTypes'
    <3>1. Id \subseteq Id' /\ template_id_factory' \in Nat /\ stale_tasks \in Seq(SUBSET Id')
      BY <1>0, <2>1, IdsGrow DEF OtherTypes
    <3>2. /\ core_tip' \in Tip /\ fee_rises' \in 0..MaxFeeRise
          /\ current_template_ipc_client' \in Tip \cup {0}
      BY <1>0, <1>4 DEF WaitNextReturns, OtherTypes
    <3> QED
      BY <1>0, <1>4, <3>1, <3>2
         DEF WaitNextReturns, OtherTypes, tokenVars, storeVars, streamVars
  <2> QED
    BY <2>4, <2>5, TypesInParts
<1>5. ASSUME NEW m \in Monitor, MonitorFetched(m), OnNewTip(m) PROVE Types'
  <2>1. MonitorTypes'
    BY <1>0, <1>5, Requests, MonitorTypesStep DEF MonitorFetched
  <2>2. monitor[m].id \in Id /\ monitor[m].tip \in Tip
    BY <1>0, <1>5 DEF MonitorFetched, HeldIsFresh, Holds
  <2>3. Append(stale_tasks, template_data) \in Seq(SUBSET Id)
    BY <1>0 DEF OtherTypes
  <2>4. OtherTypes'
    <3>1. Id' = Id
      BY <1>5 DEF MonitorFetched, Id
    <3>2. [id |-> monitor[m].id, tip |-> monitor[m].tip] \in [id : Id, tip : Tip]
      BY <2>2
    <3>3. /\ UNCHANGED <<core_tip, fee_rises, run, cancelled, incoming, template_id_factory,
                         current_template_ipc_client, coinbase_output_constraints_counter,
                         overlap>>
          /\ current_prev_hash' = monitor[m].tip
          /\ sent' = sent \cup {[id |-> monitor[m].id, tip |-> monitor[m].tip]}
          /\ live' = {monitor[m].id}
      BY <1>5 DEF MonitorFetched, AnnouncesTip, coreVars, tokenVars, clientVars
    <3>4. /\ template_data' \subseteq Id /\ stale_template_ids' \subseteq Id
          /\ stale_tasks' \in Seq(SUBSET Id)
      BY <1>0, <1>5, <2>2, <2>3 DEF MonitorFetched, KeepsWithNewTip, OtherTypes
    <3>5. /\ current_prev_hash' \in Tip \cup {0} /\ sent' \subseteq [id : Id, tip : Tip]
          /\ live' \subseteq Id
      BY <1>0, <2>2, <3>2, <3>3 DEF OtherTypes
    <3> QED
      BY <1>0, <3>1, <3>3, <3>4, <3>5 DEF OtherTypes
  <2> QED
    BY <2>1, <2>4, TypesInParts
<1>6. ASSUME NEW m \in Monitor, MonitorFetched(m), ~OnNewTip(m) PROVE Types'
  <2>1. monitor' = [monitor EXCEPT ![m] = [monitor[m] EXCEPT !.pc = "sleeping"]]
        /\ UNCHANGED <<wait_next_request_counter, template_id_factory>>
    BY <1>0, <1>6 DEF MonitorFetched, MonitorTypes
  <2>2. /\ monitor' \in [Monitor -> MonitorState]
        /\ monitor'[m] = [monitor[m] EXCEPT !.pc = "sleeping"]
        /\ \A n \in Monitor : n # m => monitor'[n] = monitor[n]
    BY <1>0, <2>1, Records, MonitorSet
  <2>3. monitor'[m].pc # "waiting" /\ monitor'[m].id = monitor[m].id
    BY <1>0, <2>2 DEF MonitorTypes, MonitorState
  <2>4. MonitorTypes'
    BY <1>0, <2>1, <2>2, <2>3, IdsGrow, MonitorTypesStep DEF MonitorTypes
  <2>5. OtherTypes'
    BY <1>0, <1>6 DEF MonitorFetched, OtherTypes, Id, coreVars, tokenVars, clientVars, streamVars
  <2> QED
    BY <2>4, <2>5, TypesInParts
<1>7. ASSUME NEW m \in Monitor, MonitorSends(m) PROVE Types'
  <2>1. MonitorTypes'
    BY <1>0, <1>7, Requests, MonitorTypesStep DEF MonitorSends
  <2>2. monitor[m].id \in Id /\ monitor[m].tip \in Tip
    BY <1>0, <1>7 DEF MonitorSends, HeldIsFresh, Holds
  <2>3. OtherTypes'
    <3>1. /\ Id' = Id
          /\ [id |-> monitor[m].id, tip |-> monitor[m].tip] \in [id : Id, tip : Tip]
      BY <1>7, <2>2 DEF MonitorSends, Id
    <3> QED
      BY <1>0, <1>7, <2>2, <3>1 DEF MonitorSends, OtherTypes, coreVars, tokenVars, clientVars
  <2> QED
    BY <2>1, <2>3, TypesInParts
<1>8. CASE NewBlock \/ Cancel \/ RunEnds \/ UNCHANGED vars
  <2>1. MonitorTypes'
    BY <1>0, <1>8, MonitorTypesKept DEF NewBlock, Cancel, RunEnds, vars
  <2>2. OtherTypes'
    <3>1. core_tip' \in Tip
      BY <1>0, <1>8 DEF NewBlock, Cancel, RunEnds, OtherTypes, Tip, vars, coreVars
    <3>2. /\ run' \in {"waiting", "bootstrapping", "serving", "ended"} /\ cancelled' \in BOOLEAN
          /\ UNCHANGED <<fee_rises, clientVars, storeVars, streamVars, template_id_factory,
                         incoming>>
      BY <1>0, <1>8 DEF NewBlock, Cancel, RunEnds, OtherTypes, vars, coreVars, tokenVars
    <3> QED
      BY <1>0, <3>1, <3>2 DEF OtherTypes, Id, clientVars, storeVars, streamVars
  <2> QED
    BY <2>1, <2>2, TypesInParts
<1>9. CASE RunReceivesConstraints
  <2>1. template_id_factory' = template_id_factory + 1
    BY <1>9 DEF RunReceivesConstraints
  <2>2. MonitorTypes'
    BY <1>0, <1>9, <2>1, MonitorTypesKept DEF RunReceivesConstraints
  <2>3. Id \subseteq Id' /\ template_id_factory' \in Nat /\ stale_tasks \in Seq(SUBSET Id')
    BY <1>0, <2>1, IdsGrow DEF OtherTypes
  <2>4. OtherTypes'
    BY <1>0, <1>9, <2>3
       DEF RunReceivesConstraints, OtherTypes, coreVars, storeVars, streamVars
  <2> QED
    BY <2>2, <2>4, TypesInParts
<1>10. CASE RunBootstraps
  <2>0. 1 \in Monitor /\ template_id_factory = 1 /\ current_template_ipc_client \in Tip
    BY <1>0, <1>10 DEF Monitor, RunBootstraps, Phases
  <2>1. MonitorTypes'
    BY <1>0, <1>10, <2>0, Records, MonitorSet, MonitorTypesStep DEF RunBootstraps
  <2>2. OtherTypes'
    BY <1>0, <1>10, <2>0
       DEF RunBootstraps, AnnouncesTip, OtherTypes, IncomingState, Id, coreVars, clientVars
  <2> QED
    BY <2>1, <2>2, TypesInParts
<1>11. CASE ProcessStaleTemplateData
  <2>1. MonitorTypes'
    BY <1>0, <1>11, MonitorTypesKept DEF ProcessStaleTemplateData
  <2>2. Head(stale_tasks) \subseteq Id /\ Tail(stale_tasks) \in Seq(SUBSET Id)
    BY <1>0, <1>11 DEF ProcessStaleTemplateData, OtherTypes
  <2>3. OtherTypes'
    BY <1>0, <1>11, <2>2
       DEF ProcessStaleTemplateData, OtherTypes, Id, coreVars, clientVars, streamVars
  <2> QED
    BY <2>1, <2>3, TypesInParts
<1>12. CASE ConstraintsApply
  <2>0. /\ coinbase_output_constraints_counter < MaxConstraints
        /\ coinbase_output_constraints_counter' = coinbase_output_constraints_counter + 1
        /\ coinbase_output_constraints_counter' \in Monitor
    BY <1>0, <1>12 DEF ConstraintsApply, Phases, OtherTypes, Monitor
  <2>1. MonitorTypes'
    <3> DEFINE m == coinbase_output_constraints_counter'
    <3>1. m \in Monitor /\ monitor' = [monitor EXCEPT ![m] = Idle("starting")]
          /\ UNCHANGED <<wait_next_request_counter, template_id_factory>>
      BY <1>12, <2>0 DEF ConstraintsApply
    <3> HIDE DEF m
    <3> QED
      BY <1>0, <3>1, Records, MonitorSet, MonitorTypesStep
  <2>2. OtherTypes'
    BY <1>0, <1>12, <2>0 DEF ConstraintsApply, OtherTypes, IncomingState, Id, coreVars,
                             tokenVars, storeVars, streamVars
  <2> QED
    BY <2>1, <2>2, TypesInParts
<1>13. ASSUME incoming' \in IncomingState, cancelled' \in BOOLEAN,
              UNCHANGED <<run, coreVars, clientVars, storeVars, streamVars,
                          wait_next_request_counter, template_id_factory, monitor>>
       PROVE  Types'
  <2>1. MonitorTypes'
    BY <1>0, <1>13, MonitorTypesKept
  <2>2. OtherTypes'
    BY <1>0, <1>13 DEF OtherTypes, Id, coreVars, clientVars, storeVars, streamVars
  <2> QED
    BY <2>1, <2>2, TypesInParts
<1>14. CASE HandleCoinbaseOutputConstraints
  BY <1>0, <1>13, <1>14
     DEF HandleCoinbaseOutputConstraints, OtherTypes, IncomingState, tokenVars
<1>15. CASE RequestAnswered
  BY <1>0, <1>13, <1>15 DEF RequestAnswered, OtherTypes, IncomingState, tokenVars
<1>16. CASE IncomingFails
  BY <1>0, <1>13, <1>16 DEF IncomingFails, OtherTypes, IncomingState
<1>18. CASE IncomingEnds
  BY <1>0, <1>13, <1>18 DEF IncomingEnds, OtherTypes, IncomingState, tokenVars
<1>17. ASSUME NEW id, HandleRequestTransactionData(id) PROVE Types'
  BY <1>0, <1>13, <1>17 DEF HandleRequestTransactionData, OtherTypes, IncomingState, tokenVars
<1> QED
  BY <1>1, <1>2, <1>3, <1>4, <1>5, <1>6, <1>7, <1>8, <1>9, <1>10, <1>11, <1>12, <1>14, <1>15,
     <1>16, <1>17, <1>18
     DEF Next, MonitorStep, IncomingStep

-----------------------------------------------------------------------------
(* One monitor goes on. *)

\* At most one monitor goes on after a step, unless the step is a change of
\* constraints that meets one between two requests.
LEMMA SoleNext ==
  ASSUME IInv, Types', [Next]_vars
  PROVE  SoleMonitor'
<1>0. Types /\ Phases /\ SoleMonitor
  BY DEF IInv
<1> USE Numbers
<1>1. ASSUME NEW m \in Monitor, GoesOn(m), monitor'[m].count <= coinbase_output_constraints_counter,
             \A n \in Monitor : n # m => monitor'[n] = monitor[n],
             UNCHANGED <<coinbase_output_constraints_counter, overlap>>
      PROVE  SoleMonitor'
  BY <1>0, <1>1 DEF SoleMonitor, GoesOn, Between
<1>2. ASSUME NEW m \in Monitor, MonitorStarts(m) \/ WaitNextTimesOut(m) \/ MonitorSends(m)
                                 \/ (MonitorFetched(m) /\ OnNewTip(m))
      PROVE  SoleMonitor'
  <2>1. GoesOn(m) /\ NextRequest(m, current_template_ipc_client)
    BY <1>2 DEF MonitorStarts, WaitNextTimesOut, MonitorSends, MonitorFetched, GoesOn, Between,
                Stops
  <2>2. UNCHANGED <<coinbase_output_constraints_counter, overlap>>
    BY <1>2 DEF MonitorStarts, WaitNextTimesOut, MonitorSends, MonitorFetched, AnnouncesTip,
                clientVars, streamVars
  <2> QED
    BY <1>0, <1>1, <2>1, <2>2, Requests
<1>3. ASSUME NEW m \in Monitor, MonitorFetched(m), ~OnNewTip(m) PROVE SoleMonitor'
  <2>1. /\ monitor[m].pc = "fetching" /\ monitor' = [monitor EXCEPT ![m].pc = "sleeping"]
        /\ UNCHANGED <<coinbase_output_constraints_counter, overlap>>
    BY <1>3 DEF MonitorFetched, clientVars, streamVars
  <2>2. /\ monitor'[m].count = monitor[m].count
        /\ \A n \in Monitor : n # m => monitor'[n] = monitor[n]
    BY <1>0, <2>1 DEF Types, MonitorState
  <2> QED
    BY <1>0, <1>1, <2>1, <2>2 DEF SoleMonitor, GoesOn, Between
<1>4. ASSUME NEW m \in Monitor, WaitNextReturns(m) PROVE SoleMonitor'
  <2>1. /\ GoesOn(m) /\ monitor' = [monitor EXCEPT ![m] = FetchTemplateData]
        /\ UNCHANGED <<coinbase_output_constraints_counter, overlap>>
    BY <1>4 DEF WaitNextReturns, GoesOn, Stops, streamVars
  <2>2. FetchTemplateData.count = 0 /\ FetchTemplateData \in MonitorState
    BY <1>0, Records DEF FetchTemplateData, Idle
  <2>3. /\ monitor'[m].count = 0
        /\ \A n \in Monitor : n # m => monitor'[n] = monitor[n]
    BY <1>0, <2>1, <2>2, MonitorSet
  <2>4. monitor'[m].count <= coinbase_output_constraints_counter
    BY <1>0, <2>3
  <2> QED
    BY <1>1, <2>1, <2>3, <2>4
<1>5. ASSUME NEW m \in Monitor, MonitorStops(m) \/ MonitorFails(m) PROVE SoleMonitor'
  <2>1. /\ monitor' = [monitor EXCEPT ![m] = Idle("done")]
        /\ UNCHANGED <<coinbase_output_constraints_counter, overlap>>
    BY <1>5 DEF MonitorStops, MonitorFails, clientVars, streamVars
  <2>2. /\ monitor'[m].pc = "done" /\ monitor'[m].count = 0
        /\ \A n \in Monitor : n # m => monitor'[n] = monitor[n]
    <3>1. Idle("done").count = 0
      BY DEF Idle
    <3> QED
      BY <1>0, <2>1, <3>1, Records, MonitorSet
  <2> QED
    BY <1>0, <2>1, <2>2 DEF SoleMonitor, GoesOn, Between
<1>6. CASE RunBootstraps
  <2>1. /\ 1 \in Monitor /\ coinbase_output_constraints_counter = 1
        /\ \A m \in Monitor : monitor[m].pc = "off"
        /\ monitor' = [monitor EXCEPT ![1] = Idle("starting")]
        /\ UNCHANGED <<coinbase_output_constraints_counter, overlap>>
    BY <1>0, <1>6 DEF RunBootstraps, AnnouncesTip, clientVars, Phases, Monitor
  <2>2. /\ monitor'[1].count = 0
        /\ \A n \in Monitor : n # 1 => monitor'[n] = monitor[n]
    <3>1. Idle("starting").count = 0
      BY DEF Idle
    <3> QED
      BY <1>0, <2>1, <3>1, Records, MonitorSet
  <2> QED
    BY <1>0, <2>1, <2>2 DEF SoleMonitor, GoesOn, Between
<1>7. CASE ConstraintsApply
  <2> DEFINE k == coinbase_output_constraints_counter + 1
  <2>1. /\ k \in Monitor /\ coinbase_output_constraints_counter' = k
        /\ monitor' = [monitor EXCEPT ![k] = Idle("starting")]
        /\ overlap' = (overlap \/ Between # {})
    BY <1>0, <1>7 DEF ConstraintsApply, Phases, Monitor
  <2>2. \A m \in Monitor : monitor[m].count < k /\ monitor[m].count \in Nat
    <3>1. \A m \in Monitor : monitor[m].count \in Nat
      BY <1>0 DEF Types, MonitorState
    <3>2. coinbase_output_constraints_counter \in Nat
      BY <1>0
    <3> QED
      BY <1>0, <3>1, <3>2 DEF SoleMonitor
  <2>3. k \in Nat
    BY <1>0
  <2> HIDE DEF k
  <2>4. /\ monitor'[k].count = 0
        /\ \A n \in Monitor : n # k => monitor'[n] = monitor[n]
    <3>1. Idle("starting").count = 0
      BY DEF Idle
    <3> QED
      BY <1>0, <2>1, <3>1, Records, MonitorSet
  <2>5. \A m \in Monitor : monitor'[m].count <= k
    BY <2>2, <2>3, <2>4
  <2>6. ASSUME ~overlap', NEW m \in Monitor, m # k PROVE ~GoesOn(m)'
    <3>1. m \notin Between /\ monitor'[m] = monitor[m]
      BY <2>1, <2>4, <2>6
    <3>2. monitor[m].count # k
      BY <2>2, <2>3
    <3> QED
      BY <2>1, <3>1, <3>2 DEF GoesOn, Between
  <2> QED
    BY <2>1, <2>5, <2>6 DEF SoleMonitor
<1>8. CASE RunReceivesConstraints
  <2>1. /\ coinbase_output_constraints_counter = 0 /\ coinbase_output_constraints_counter' = 1
        /\ \A m \in Monitor : monitor[m].pc = "off"
        /\ UNCHANGED <<monitor, overlap>>
    BY <1>0, <1>8 DEF RunReceivesConstraints, Phases, streamVars
  <2>2. \A m \in Monitor : monitor[m].count <= 1
    BY <1>0, <2>1 DEF SoleMonitor, Types, MonitorState
  <2> QED
    BY <2>1, <2>2 DEF SoleMonitor, GoesOn, Between
<1>9. CASE \/ NewBlock \/ Cancel \/ RunEnds \/ UNCHANGED vars \/ ProcessStaleTemplateData
           \/ HandleCoinbaseOutputConstraints \/ RequestAnswered \/ IncomingEnds
           \/ IncomingFails \/ \E s \in sent : HandleRequestTransactionData(s.id)
  <2>1. UNCHANGED <<coinbase_output_constraints_counter, overlap, monitor>>
    BY <1>9
       DEF NewBlock, Cancel, RunEnds, vars, ProcessStaleTemplateData,
           HandleCoinbaseOutputConstraints, RequestAnswered, IncomingEnds, IncomingFails,
           HandleRequestTransactionData, clientVars, streamVars
  <2> QED
    BY <1>0, <2>1 DEF SoleMonitor, GoesOn, Between
<1> QED
  BY <1>2, <1>3, <1>4, <1>5, <1>6, <1>7, <1>8, <1>9 DEF Next, MonitorStep, IncomingStep

-----------------------------------------------------------------------------
(* Steps that send nothing: the stream and the store stay as they are, and  *)
(* no monitor gets hold of a template.                                      *)

QuietStep ==
  /\ UNCHANGED <<template_data, stale_template_ids, stale_tasks, current_prev_hash, sent, live,
                 template_id_factory>>
  /\ core_tip' >= core_tip
  /\ run' \in {run, "ended"}
  /\ coinbase_output_constraints_counter' >= coinbase_output_constraints_counter
  /\ overlap => overlap'
  /\ current_template_ipc_client' <= core_tip' /\ incoming'.tip <= core_tip'
  /\ incoming'.pc = "creating" => coinbase_output_constraints_counter' < MaxConstraints
  /\ run \in {"waiting", "bootstrapping"} => UNCHANGED <<clientVars, monitor, incoming>>
  /\ \A m \in Monitor :
       \/ monitor'[m] = monitor[m]
       \/ /\ monitor'[m].pc \in {"starting", "waiting", "done"} /\ monitor'[m].tip = 0
          /\ m <= coinbase_output_constraints_counter'

\* Such a step keeps the invariant.
LEMMA QuietStepInv ==
  ASSUME IInv, Types', SoleMonitor', QuietStep
  PROVE  IInv'
<1> USE DEF IInv, QuietStep
<1>0. SentIds' = SentIds /\ Id' = Id
  BY DEF SentIds, Id
<1>1. \A m \in Monitor : Holds(m)' => Holds(m) /\ monitor'[m] = monitor[m]
  BY DEF Holds
<1>2. Phases'
  <2>1. \A m \in Monitor :
          m > coinbase_output_constraints_counter' => monitor'[m].pc = "off"
    BY Numbers DEF Phases, Types, TypeOK, Monitor
  <2>2. run' = "serving" => coinbase_output_constraints_counter' > 0
    BY Numbers DEF Phases, Types, TypeOK
  <2> QED
    BY <2>1, <2>2 DEF Phases, clientVars
<1>3. BehindCore'
  <2>1. current_prev_hash' <= core_tip'
    BY Numbers DEF BehindCore, Types, TypeOK, Tip
  <2>2. ASSUME NEW m \in Monitor PROVE monitor'[m].tip <= core_tip'
    <3>1. core_tip' \in Nat /\ core_tip \in Nat /\ core_tip' >= core_tip
      BY Numbers DEF Types, TypeOK, Tip
    <3>2. monitor[m].tip \in Nat /\ monitor[m].tip <= core_tip
      BY Numbers DEF BehindCore
    <3>3. monitor'[m].tip \in {monitor[m].tip, 0}
      OBVIOUS
    <3> QED
      BY <3>1, <3>2, <3>3
  <2> QED
    BY <2>1, <2>2 DEF BehindCore
<1>4. StoreIsSent'
  BY <1>0 DEF StoreIsSent
<1>5. HeldIsFresh'
  BY <1>0, <1>1 DEF HeldIsFresh
<1>6. HeldInOrder'
  <2>1. ASSUME NEW m \in Monitor, monitor'[m].pc = "sleeping"
        PROVE  \E s \in sent' : s.tip = monitor'[m].tip
    BY <1>1, <2>1 DEF HeldInOrder, Holds
  <2> QED
    BY <1>1, <2>1 DEF HeldInOrder
<1>7. LiveTemplatesAreServed'
  BY DEF LiveTemplatesAreServed, Found
<1> QED
  BY <1>2, <1>3, <1>4, <1>5, <1>6, <1>7

\* The steps that send nothing, and start no fetch.
LEMMA QuietSteps ==
  ASSUME IInv, Types', SoleMonitor',
         \/ NewBlock \/ Cancel \/ RunEnds \/ UNCHANGED vars
         \/ HandleCoinbaseOutputConstraints \/ IncomingStep \/ IncomingFails
         \/ \E s \in sent : HandleRequestTransactionData(s.id)
         \/ \E m \in Monitor : \/ MonitorStarts(m) \/ MonitorStops(m)
                               \/ WaitNextTimesOut(m) \/ MonitorFails(m)
  PROVE  IInv'
<1>0. Types /\ Phases /\ BehindCore
  BY DEF IInv
<1> USE Numbers
<1>1. CASE NewBlock \/ Cancel \/ RunEnds \/ UNCHANGED vars
  <2>1. QuietStep
    BY <1>0, <1>1
       DEF NewBlock, Cancel, RunEnds, vars, coreVars, tokenVars, clientVars, storeVars, streamVars,
           QuietStep, Phases, BehindCore
  <2> QED
    BY <2>1, QuietStepInv
<1>2. CASE HandleCoinbaseOutputConstraints
  <2>1. QuietStep
    BY <1>0, <1>2
       DEF HandleCoinbaseOutputConstraints, coreVars, tokenVars, clientVars, storeVars, streamVars,
           QuietStep, Phases, BehindCore
  <2> QED
    BY <2>1, QuietStepInv
<1>3. CASE \/ RequestAnswered \/ IncomingEnds \/ IncomingFails
           \/ \E s \in sent : HandleRequestTransactionData(s.id)
  <2>1. /\ UNCHANGED <<run, coreVars, clientVars, storeVars, streamVars,
                       wait_next_request_counter, template_id_factory, monitor>>
        /\ incoming'.pc # "creating" /\ incoming'.tip \in {incoming.tip, 0}
        /\ incoming.pc # "off"
    BY <1>0, <1>3 DEF RequestAnswered, IncomingEnds, IncomingFails, HandleRequestTransactionData,
                      tokenVars, Types, IncomingState
  <2>2. QuietStep
    BY <1>0, <2>1 DEF coreVars, clientVars, storeVars, streamVars, QuietStep, Phases, BehindCore
  <2> QED
    BY <2>2, QuietStepInv
<1>4. CASE ConstraintsApply
  <2> DEFINE n == coinbase_output_constraints_counter + 1
  <2>1. /\ coinbase_output_constraints_counter' = n /\ n \in Monitor
        /\ run \notin {"waiting", "bootstrapping"}
    BY <1>0, <1>4 DEF ConstraintsApply, Phases, Monitor
  <2>2. \A m \in Monitor :
          \/ monitor'[m] = monitor[m]
          \/ monitor'[m].pc = "starting" /\ monitor'[m].tip = 0 /\ m = n
    BY <1>0, <1>4, <2>1, Records, MonitorSet DEF ConstraintsApply
  <2>3. overlap => overlap'
    BY <1>4, Zenon DEF ConstraintsApply
  <2>4. QuietStep
    BY <1>0, <1>4, <2>1, <2>2, <2>3
       DEF ConstraintsApply, coreVars, tokenVars, storeVars, streamVars, QuietStep, BehindCore
  <2> QED
    BY <2>4, QuietStepInv
<1>5. ASSUME NEW m \in Monitor,
             \/ MonitorStarts(m) \/ MonitorStops(m) \/ WaitNextTimesOut(m) \/ MonitorFails(m)
      PROVE  IInv'
  <2>1. monitor[m].pc # "off" /\ run \notin {"waiting", "bootstrapping"}
        /\ m <= coinbase_output_constraints_counter
    BY <1>0, <1>5
       DEF MonitorStarts, MonitorStops, WaitNextTimesOut, MonitorFails, Phases, Monitor
  <2>2. /\ monitor'[m].pc \in {"waiting", "done"} /\ monitor'[m].tip = 0
        /\ \A n \in Monitor : n # m => monitor'[n] = monitor[n]
    BY <1>0, <1>5, Records, Requests, MonitorSet
       DEF MonitorStarts, MonitorStops, WaitNextTimesOut, MonitorFails
  <2>3. UNCHANGED <<run, coreVars, clientVars, storeVars, streamVars, template_id_factory,
                    incoming>>
    BY <1>5 DEF MonitorStarts, MonitorStops, WaitNextTimesOut, MonitorFails, tokenVars
  <2>4. QuietStep
    BY <1>0, <2>1, <2>2, <2>3
       DEF coreVars, clientVars, storeVars, streamVars, QuietStep, Phases, BehindCore
  <2> QED
    BY <2>4, QuietStepInv
<1> QED
  BY <1>1, <1>2, <1>3, <1>4, <1>5 DEF IncomingStep

-----------------------------------------------------------------------------
(* The first template. *)

\* The first constraints are received: nothing runs yet.
LEMMA ReceivesInv ==
  ASSUME IInv, Types', SoleMonitor', RunReceivesConstraints
  PROVE  IInv'
<1> USE DEF IInv
<1>0. /\ run = "waiting" /\ run' = "bootstrapping" /\ current_template_ipc_client' = core_tip
      /\ coinbase_output_constraints_counter' = 1
      /\ template_id_factory' = template_id_factory + 1
      /\ UNCHANGED <<core_tip, template_data, stale_template_ids, stale_tasks, current_prev_hash,
                     sent, live, monitor, incoming>>
  BY DEF RunReceivesConstraints, coreVars, storeVars, streamVars
<1>1. /\ sent = {} /\ SentIds = {} /\ SentIds' = {} /\ current_prev_hash = 0
      /\ \A m \in Monitor : monitor[m].pc = "off"
  BY <1>0 DEF Phases, SentIds
<1>2. \A m \in Monitor : ~Holds(m)'
  BY <1>0, <1>1 DEF Holds
<1>3. Phases'
  BY <1>0, <1>1, Numbers DEF Phases, Types, TypeOK
<1>4. BehindCore'
  BY <1>0, Numbers DEF BehindCore
<1>5. StoreIsSent' /\ LiveTemplatesAreServed'
  BY <1>0, <1>1 DEF StoreIsSent, LiveTemplatesAreServed, Found
<1>6. HeldIsFresh' /\ HeldInOrder'
  BY <1>0, <1>1, <1>2 DEF HeldIsFresh, HeldInOrder
<1> QED
  BY <1>3, <1>4, <1>5, <1>6

\* The first template goes out with its tip, and the tasks start.
LEMMA BootstrapsInv ==
  ASSUME IInv, Types', SoleMonitor', RunBootstraps
  PROVE  IInv'
<1> USE DEF IInv
<1> DEFINE first == [id |-> template_id_factory, tip |-> current_template_ipc_client]
<1>0. /\ run = "bootstrapping" /\ run' = "serving"
      /\ current_prev_hash' = current_template_ipc_client
      /\ sent' = sent \cup {first} /\ live' = {template_id_factory}
      /\ template_data' = {template_id_factory}
      /\ monitor' = [monitor EXCEPT ![1] = Idle("starting")]
      /\ incoming' = [pc |-> "idle", tip |-> 0]
      /\ UNCHANGED <<core_tip, current_template_ipc_client, coinbase_output_constraints_counter,
                     stale_template_ids, stale_tasks, template_id_factory>>
  BY DEF RunBootstraps, AnnouncesTip, coreVars, clientVars
<1>1. /\ sent = {} /\ SentIds = {} /\ coinbase_output_constraints_counter = 1
      /\ \A m \in Monitor : monitor[m].pc = "off"
  BY <1>0 DEF Phases, SentIds
<1>2. SentIds' = {template_id_factory}
  BY <1>0, <1>1 DEF SentIds
<1>3. /\ 1 \in Monitor
      /\ \A m \in Monitor : monitor'[m].pc = IF m = 1 THEN "starting" ELSE "off"
      /\ \A m \in Monitor : m # 1 => monitor'[m] = monitor[m]
      /\ monitor'[1].tip = 0
  <2>1. 1 \in Monitor
    BY CoreBounds DEF Monitor
  <2> QED
    BY <1>0, <1>1, <2>1, Records, MonitorSet
<1>4. \A m \in Monitor : ~Holds(m)'
  BY <1>3 DEF Holds
<1>5. Phases'
  <2>1. \E s \in sent' : s.tip = current_prev_hash'
    <3>1. first \in sent' /\ first.tip = current_prev_hash'
      BY <1>0
    <3> QED
      BY <3>1
  <2> QED
    BY <1>0, <1>1, <1>3, <2>1, Numbers DEF Phases, Monitor
<1>6. BehindCore'
  <2>1. \A m \in Monitor : monitor'[m].tip <= core_tip'
    BY <1>0, <1>3, Numbers DEF BehindCore
  <2> QED
    BY <1>0, <2>1, Numbers DEF BehindCore
<1>7. stale_template_ids = {} /\ \A i \in DOMAIN stale_tasks : stale_tasks[i] = {}
  BY <1>1 DEF StoreIsSent
<1>8. StoreIsSent' /\ LiveTemplatesAreServed'
  BY <1>0, <1>2, <1>7 DEF StoreIsSent, LiveTemplatesAreServed, Found
<1>9. HeldIsFresh' /\ HeldInOrder'
  BY <1>4 DEF HeldIsFresh, HeldInOrder, Holds
<1> QED
  BY <1>5, <1>6, <1>8, <1>9

-----------------------------------------------------------------------------
(* Later templates. *)

\* A monitor gets hold of a template under a new id.
LEMMA WaitNextReturnsInv ==
  ASSUME IInv, Types', SoleMonitor', NEW m \in Monitor, WaitNextReturns(m)
  PROVE  IInv'
<1> USE DEF IInv
<1>0. /\ monitor[m].pc = "waiting" /\ monitor' = [monitor EXCEPT ![m] = FetchTemplateData]
      /\ template_id_factory' = template_id_factory + 1
      /\ current_template_ipc_client' = core_tip
      /\ UNCHANGED <<run, core_tip, coinbase_output_constraints_counter, template_data,
                     stale_template_ids, stale_tasks, current_prev_hash, sent, live, incoming,
                     overlap>>
  BY DEF WaitNextReturns, tokenVars, storeVars, streamVars
<1>1. /\ monitor'[m].pc = "fetching" /\ monitor'[m].id = template_id_factory + 1
      /\ monitor'[m].tip = core_tip
      /\ \A n \in Monitor : n # m => monitor'[n] = monitor[n]
  BY <1>0, Records, MonitorSet
<1>2. /\ SentIds' = SentIds /\ SentIds \subseteq Id /\ Id' = Id \cup {template_id_factory + 1}
      /\ template_id_factory + 1 \notin Id
  <2>1. SentIds' = SentIds
    BY <1>0 DEF SentIds
  <2>2. sent \subseteq [id : Id, tip : Tip]
    BY DEF Types, TypeOK
  <2>3. SentIds \subseteq Id
    BY <2>2 DEF SentIds
  <2>4. template_id_factory \in Nat
    BY DEF Types
  <2> QED
    BY <1>0, <2>1, <2>3, <2>4 DEF Id
<1>3. /\ Holds(m)' /\ ~Holds(m)
      /\ \A n \in Monitor : n # m => (Holds(n)' <=> Holds(n))
  BY <1>0, <1>1 DEF Holds
<1>4. Phases'
  <2>1. run \notin {"waiting", "bootstrapping"} /\ m <= coinbase_output_constraints_counter
    BY <1>0, Numbers DEF Phases, Monitor
  <2> QED
    BY <1>0, <1>1, <2>1, Numbers DEF Phases
<1>5. BehindCore'
  BY <1>0, <1>1, Numbers DEF BehindCore
<1>6. StoreIsSent' /\ LiveTemplatesAreServed'
  BY <1>0, <1>2 DEF StoreIsSent, LiveTemplatesAreServed, Found
<1>7. HeldIsFresh'
  <2>1. ASSUME NEW n \in Monitor, Holds(n)'
        PROVE  monitor'[n].id \in Id' \ SentIds' /\ monitor'[n].tip \in Tip
    BY <1>1, <1>2, <1>3, <2>1 DEF HeldIsFresh, Types, TypeOK
  <2>2. ASSUME NEW n \in Monitor, NEW o \in Monitor, Holds(n)', Holds(o)', n # o
        PROVE  monitor'[n].id # monitor'[o].id
    <3>1. \A k \in Monitor : k # m /\ Holds(k)' => monitor'[k].id \in Id
      BY <1>1, <1>3 DEF HeldIsFresh
    <3>2. CASE n # m /\ o # m
      BY <1>1, <1>3, <2>2, <3>2 DEF HeldIsFresh
    <3> QED
      BY <1>1, <1>2, <2>2, <3>1, <3>2
  <2> QED
    BY <2>1, <2>2 DEF HeldIsFresh
<1>8. HeldInOrder'
  <2>1. monitor'[m].tip >= current_prev_hash'
    BY <1>0, <1>1, Numbers DEF BehindCore
  <2> QED
    BY <1>0, <1>1, <1>3, <2>1 DEF HeldInOrder
<1> QED
  BY <1>4, <1>5, <1>6, <1>7, <1>8

\* A fetched template on the announced tip is held back.
LEMMA HeldBackInv ==
  ASSUME IInv, Types', SoleMonitor', NEW m \in Monitor, MonitorFetched(m), ~OnNewTip(m)
  PROVE  IInv'
<1> USE DEF IInv
<1>0. /\ run \notin {"waiting", "bootstrapping", "ended"} /\ monitor[m].pc = "fetching"
      /\ monitor' = [monitor EXCEPT ![m].pc = "sleeping"] /\ monitor[m].tip = current_prev_hash
      /\ UNCHANGED <<run, core_tip, current_template_ipc_client, template_id_factory,
                     coinbase_output_constraints_counter, template_data, stale_template_ids,
                     stale_tasks, current_prev_hash, sent, live, incoming, overlap>>
  BY DEF MonitorFetched, OnNewTip, coreVars, tokenVars, clientVars, streamVars, Alive, Phases
<1>1. /\ monitor'[m].pc = "sleeping" /\ monitor'[m].id = monitor[m].id
      /\ monitor'[m].tip = monitor[m].tip
      /\ \A n \in Monitor : n # m => monitor'[n] = monitor[n]
  BY <1>0 DEF Types, MonitorState
<1>2. SentIds' = SentIds /\ Id' = Id
  BY <1>0 DEF SentIds, Id
<1>3. \A n \in Monitor : (Holds(n)' <=> Holds(n)) /\ monitor'[n].id = monitor[n].id
                         /\ monitor'[n].tip = monitor[n].tip
  BY <1>0, <1>1 DEF Holds
<1>4. Phases'
  <2>1. m <= coinbase_output_constraints_counter
    BY <1>0, Numbers DEF Phases, Monitor
  <2> QED
    BY <1>0, <1>1, <2>1, Numbers DEF Phases
<1>5. BehindCore'
  BY <1>0, <1>3 DEF BehindCore
<1>6. StoreIsSent' /\ LiveTemplatesAreServed'
  BY <1>0, <1>2 DEF StoreIsSent, LiveTemplatesAreServed, Found
<1>7. HeldIsFresh'
  BY <1>2, <1>3 DEF HeldIsFresh
<1>8. HeldInOrder'
  <2>1. run = "serving"
    BY <1>0 DEF Types, TypeOK
  <2>2. \E s \in sent : s.tip = current_prev_hash
    BY <2>1 DEF Phases
  <2>3. \A n \in Monitor : monitor'[n].pc = "sleeping" => n = m \/ monitor[n].pc = "sleeping"
    BY <1>1
  <2>4. current_prev_hash >= current_prev_hash
    BY Numbers
  <2> QED
    BY <1>0, <1>1, <1>3, <2>2, <2>3, <2>4 DEF HeldInOrder
<1> QED
  BY <1>4, <1>5, <1>6, <1>7, <1>8

\* What a monitor that sends the template m holds does to what is kept and held:
\* the id is new to the store, and the others hold other ids.
LEMMA SendingInv ==
  ASSUME IInv, Types', SoleMonitor', NEW m \in Monitor, Holds(m), run = "serving",
         sent' = sent \cup {[id |-> monitor[m].id, tip |-> monitor[m].tip]},
         NextRequest(m, current_template_ipc_client),
         UNCHANGED <<run, core_tip, current_template_ipc_client, template_id_factory,
                     coinbase_output_constraints_counter, incoming, overlap>>,
         current_prev_hash' = monitor[m].tip
           \/ (UNCHANGED current_prev_hash /\ monitor[m].pc = "sleeping")
  PROVE  /\ Phases' /\ BehindCore' /\ HeldIsFresh' /\ HeldInOrder'
         /\ SentIds' = SentIds \cup {monitor[m].id} /\ monitor[m].id \notin SentIds
<1> USE DEF IInv
<1> DEFINE new == [id |-> monitor[m].id, tip |-> monitor[m].tip]
<1>1. /\ monitor'[m].pc = "waiting" /\ monitor'[m].tip = 0
      /\ \A n \in Monitor : n # m => monitor'[n] = monitor[n]
  BY Requests
<1>2. SentIds' = SentIds \cup {monitor[m].id} /\ Id' = Id
  <2>1. sent' = sent \cup {new} /\ new.id = monitor[m].id
    OBVIOUS
  <2> HIDE DEF new
  <2>2. SentIds' = SentIds \cup {new.id}
    BY <2>1 DEF SentIds
  <2> QED
    BY <2>1, <2>2 DEF Id
<1>3. ~Holds(m)' /\ \A n \in Monitor : n # m => (Holds(n)' <=> Holds(n))
  BY <1>1 DEF Holds
<1>4. monitor[m].id \notin SentIds
  BY DEF HeldIsFresh
<1>5. m <= coinbase_output_constraints_counter
  BY Numbers DEF Phases, Holds, Monitor
<1>6. Phases'
  <2>1. \E s \in sent' : s.tip = current_prev_hash'
    <3>1. new \in sent' /\ new.tip = monitor[m].tip
      OBVIOUS
    <3>2. \E s \in sent : s.tip = current_prev_hash
      BY DEF Phases
    <3> QED
      BY <3>1, <3>2
  <2>2. \A n \in Monitor : n > coinbase_output_constraints_counter' => monitor'[n].pc = "off"
    BY <1>1, <1>5, Numbers DEF Phases
  <2> QED
    BY <2>1, <2>2 DEF Phases
<1>7. BehindCore'
  <2>1. \A n \in Monitor : monitor'[n].tip <= core_tip'
    BY <1>1, Numbers DEF BehindCore
  <2> QED
    BY <2>1 DEF BehindCore
<1>8. HeldIsFresh'
  BY <1>1, <1>2, <1>3 DEF HeldIsFresh
<1>9. HeldInOrder'
  <2>1. ASSUME NEW n \in Monitor, monitor'[n].pc = "sleeping"
        PROVE  \E s \in sent' : s.tip = monitor'[n].tip
    BY <1>1, <2>1 DEF HeldInOrder
  <2>2. ASSUME ~overlap, NEW n \in Monitor PROVE ~Holds(n)'
    <3>1. \A k \in Monitor : Holds(k) => k = coinbase_output_constraints_counter
      BY <2>2 DEF SoleMonitor, GoesOn, Between, Holds
    <3> QED
      BY <1>3, <3>1
  <2> QED
    BY <2>1, <2>2 DEF HeldInOrder
<1> QED
  BY <1>2, <1>4, <1>6, <1>7, <1>8, <1>9

\* A template on another tip is announced: what was kept goes stale, it does not.
LEMMA AnnouncedInv ==
  ASSUME IInv, Types', SoleMonitor', NEW m \in Monitor, MonitorFetched(m), OnNewTip(m)
  PROVE  IInv'
<1> USE DEF IInv
<1>0. /\ monitor[m].pc = "fetching" /\ Holds(m) /\ run = "serving"
      /\ current_prev_hash' = monitor[m].tip /\ live' = {monitor[m].id}
      /\ sent' = sent \cup {[id |-> monitor[m].id, tip |-> monitor[m].tip]}
      /\ stale_tasks' = Append(stale_tasks, template_data)
      /\ template_data' = template_data \cup {monitor[m].id}
      /\ NextRequest(m, current_template_ipc_client)
      /\ UNCHANGED <<run, core_tip, current_template_ipc_client, template_id_factory,
                     coinbase_output_constraints_counter, stale_template_ids, incoming,
                     overlap>>
  BY DEF MonitorFetched, AnnouncesTip, KeepsWithNewTip, Holds, coreVars, tokenVars, clientVars,
         Alive, Phases, Types, TypeOK
<1>1. /\ Phases' /\ BehindCore' /\ HeldIsFresh' /\ HeldInOrder'
      /\ SentIds' = SentIds \cup {monitor[m].id} /\ monitor[m].id \notin SentIds
  BY <1>0, SendingInv
<1>2. /\ DOMAIN stale_tasks' = DOMAIN stale_tasks \cup {Len(stale_tasks) + 1}
      /\ \A i \in DOMAIN stale_tasks : stale_tasks'[i] = stale_tasks[i]
      /\ stale_tasks'[Len(stale_tasks) + 1] = template_data
  BY <1>0 DEF Types, TypeOK
<1>3. \A i \in DOMAIN stale_tasks' : stale_tasks'[i] \subseteq SentIds
  BY <1>2 DEF StoreIsSent
<1>4. StoreIsSent'
  BY <1>0, <1>1, <1>3 DEF StoreIsSent
<1>5. LiveTemplatesAreServed'
  BY <1>0, <1>1, <1>3 DEF LiveTemplatesAreServed, Found, StoreIsSent
<1> QED
  BY <1>1, <1>4, <1>5

\* A template that was held back is sent: it is not among those captured as stale.
LEMMA SentInv ==
  ASSUME IInv, Types', SoleMonitor', NEW m \in Monitor, MonitorSends(m)
  PROVE  IInv'
<1> USE DEF IInv
<1>0. /\ monitor[m].pc = "sleeping" /\ Holds(m) /\ run = "serving"
      /\ live' = live \cup {monitor[m].id}
      /\ sent' = sent \cup {[id |-> monitor[m].id, tip |-> monitor[m].tip]}
      /\ template_data' = template_data \cup {monitor[m].id}
      /\ NextRequest(m, current_template_ipc_client)
      /\ UNCHANGED <<run, core_tip, current_template_ipc_client, template_id_factory,
                     coinbase_output_constraints_counter, current_prev_hash, stale_template_ids,
                     stale_tasks, incoming, overlap>>
  BY DEF MonitorSends, Holds, coreVars, tokenVars, clientVars, Alive, Phases, Types, TypeOK
<1>1. /\ Phases' /\ BehindCore' /\ HeldIsFresh' /\ HeldInOrder'
      /\ SentIds' = SentIds \cup {monitor[m].id} /\ monitor[m].id \notin SentIds
  BY <1>0, SendingInv
<1>2. StoreIsSent'
  BY <1>0, <1>1 DEF StoreIsSent
<1>3. LiveTemplatesAreServed'
  BY <1>0, <1>1 DEF LiveTemplatesAreServed, Found, StoreIsSent
<1> QED
  BY <1>1, <1>2, <1>3

\* Stale templates are removed, and none that is in use.
LEMMA StaleInv ==
  ASSUME IInv, Types', SoleMonitor', ProcessStaleTemplateData
  PROVE  IInv'
<1> USE DEF IInv
<1>0. /\ stale_tasks # <<>> /\ stale_tasks' = Tail(stale_tasks)
      /\ stale_template_ids' = Head(stale_tasks)
      /\ template_data' = template_data \ Head(stale_tasks)
      /\ UNCHANGED <<run, core_tip, current_template_ipc_client, template_id_factory,
                     coinbase_output_constraints_counter, current_prev_hash, sent, live, monitor,
                     incoming, overlap>>
  BY DEF ProcessStaleTemplateData, coreVars, clientVars, streamVars
<1>1. /\ 1 \in DOMAIN stale_tasks /\ Head(stale_tasks) = stale_tasks[1]
      /\ \A i \in DOMAIN stale_tasks' :
           i + 1 \in DOMAIN stale_tasks /\ stale_tasks'[i] = stale_tasks[i + 1]
  BY <1>0 DEF Types, TypeOK
<1>2. SentIds' = SentIds /\ Id' = Id /\ \A m \in Monitor : Holds(m)' = Holds(m)
  BY <1>0 DEF SentIds, Id, Holds
<1>3. Phases' /\ BehindCore' /\ HeldIsFresh' /\ HeldInOrder'
  BY <1>0, <1>2 DEF Phases, BehindCore, HeldIsFresh, HeldInOrder
<1>4. StoreIsSent'
  BY <1>0, <1>1, <1>2 DEF StoreIsSent
<1>5. LiveTemplatesAreServed'
  BY <1>0, <1>1 DEF LiveTemplatesAreServed, Found
<1> QED
  BY <1>3, <1>4, <1>5

-----------------------------------------------------------------------------
(* The theorems. *)

\* The invariant holds before the first constraints.
THEOREM InitInv == Init => IInv
<1> SUFFICES ASSUME Init PROVE IInv
  OBVIOUS
<1> USE CoreBounds
<1>1. \A m \in Monitor : monitor[m] = Idle("off")
  BY DEF Init
<1>2. Idle("off") \in MonitorState /\ Idle("off").pc = "off" /\ Idle("off").id = 0
      /\ Idle("off").tip = 0
  BY DEF Idle, MonitorState
<1>3. MonitorTypes
  <2>1. Waiting = {}
    BY <1>1, <1>2 DEF Waiting
  <2>2. Cardinality(Waiting) = 0
    BY <2>1, FS_EmptySet
  <2>3. monitor \in [Monitor -> MonitorState]
    BY <1>2 DEF Init
  <2> QED
    BY <1>1, <1>2, <2>2, <2>3 DEF Init, MonitorTypes
<1>4. OtherTypes
  <2>1. 1 \in Tip /\ [pc |-> "off", tip |-> 0] \in IncomingState
    BY DEF Tip, IncomingState
  <2>2. stale_tasks \in Seq(SUBSET Id)
    BY DEF Init
  <2>3. /\ fee_rises \in 0..MaxFeeRise /\ coinbase_output_constraints_counter \in 0..MaxConstraints
        /\ template_id_factory \in Nat
    BY DEF Init
  <2>4. sent = {} /\ live = {} /\ template_data = {} /\ stale_template_ids = {}
    BY DEF Init
  <2> QED
    BY <2>1, <2>2, <2>3, <2>4 DEF Init, OtherTypes
<1>5. Types
  BY <1>3, <1>4, TypesInParts
<1>6. Phases
  BY <1>1, <1>2 DEF Init, Phases
<1>7. BehindCore
  BY <1>1, <1>2 DEF Init, BehindCore
<1>8. StoreIsSent /\ LiveTemplatesAreServed
  BY DEF Init, StoreIsSent, SentIds, LiveTemplatesAreServed
<1>9. HeldIsFresh /\ HeldInOrder
  BY <1>1, <1>2 DEF HeldIsFresh, HeldInOrder, Holds
<1>10. SoleMonitor
  <2>1. Idle("off").count = 0
    BY DEF Idle
  <2> QED
    BY <1>1, <1>2, <2>1 DEF SoleMonitor, GoesOn, Between, Init
<1> QED
  BY <1>5, <1>6, <1>7, <1>8, <1>9, <1>10 DEF IInv

\* Every step keeps it.
THEOREM NextInv == IInv /\ [Next]_vars => IInv'
<1> SUFFICES ASSUME IInv, [Next]_vars PROVE IInv'
  OBVIOUS
<1>1. Types' /\ SoleMonitor'
  BY TypesNext, SoleNext
<1> QED
  BY <1>1, QuietSteps, ReceivesInv, BootstrapsInv, WaitNextReturnsInv, HeldBackInv, AnnouncedInv,
     SentInv, StaleInv
     DEF Next, MonitorStep

\* The invariant holds in every reachable state.
THEOREM Invariance == Spec => []IInv
BY InitInv, NextInv, PTL DEF Spec

\* The type invariant, with a counter that covers the waitNext requests under way.
THEOREM CoreTypes == Spec => []TypeOK
<1>1. IInv => TypeOK
  BY DEF IInv, Types
<1> QED
  BY <1>1, Invariance, PTL

\* The delayed removal of stale templates never hits one that is still in use,
\* however many monitors overlap.
THEOREM LiveServed == Spec => []LiveTemplatesAreServed
<1>1. IInv => LiveTemplatesAreServed
  BY DEF IInv
<1> QED
  BY <1>1, Invariance, PTL

-----------------------------------------------------------------------------
(* The tasks implement the template stream. *)

\* What the mapping makes of the phases of run.
LEMMA StreamStates ==
  ASSUME TypeOK, TypeOK', run' = run
  PROVE  UNCHANGED (CASE run \in {"waiting", "bootstrapping"} -> "starting"
                      [] run = "serving" -> "open"
                      [] OTHER -> "closed")
OBVIOUS

\* A new template with a tip: the first one, or one of a monitor. Unless monitors
\* overlap, a monitor's new tip is above the one announced before.
LEMMA AnnouncesSimulated ==
  ASSUME IInv, NEW id, NEW t \in Tip, id \notin SentIds,
         run \in {"bootstrapping", "serving"}, run' = "serving",
         AnnouncesTip(id, t),
         t # current_prev_hash,
         ~overlap => t > current_prev_hash
  PROVE  Stream!AnnounceTip
<1> DEFINE s == [id |-> id, tip |-> t]
<1>1. /\ s \in sent' /\ sent' = sent \cup {s} /\ s.id = id /\ s.tip = t
      /\ current_prev_hash' = t
  BY DEF AnnouncesTip
<1> HIDE DEF s
<1>2. ~Stream!Sent(s.id)
  BY <1>1 DEF Stream!Sent, SentIds
<1>3. s.tip > current_prev_hash
        \/ (overlap /\ s.tip # current_prev_hash)
  BY <1>1, Numbers DEF IInv
<1>4. UNCHANGED overlap
  BY DEF AnnouncesTip
<1> QED
  BY <1>1, <1>2, <1>3, <1>4 DEF Stream!AnnounceTip

\* A template held back goes out on a tip announced before: unless monitors overlap,
\* on the last one.
LEMMA SendsSimulated ==
  ASSUME IInv, NEW m \in Monitor, MonitorSends(m)
  PROVE  Stream!SendTemplate
<1> USE DEF IInv
<1> DEFINE s == [id |-> monitor[m].id, tip |-> monitor[m].tip]
<1>0. /\ monitor[m].pc = "sleeping" /\ Holds(m) /\ run = "serving" /\ run' = "serving"
      /\ UNCHANGED <<current_prev_hash, overlap>>
  BY DEF MonitorSends, Holds, tokenVars, clientVars, Alive, Phases, Types, TypeOK
<1>1. s \in sent' /\ sent' = sent \cup {s} /\ s.id = monitor[m].id /\ s.tip = monitor[m].tip
  BY DEF MonitorSends
<1> HIDE DEF s
<1>2. ~Stream!Sent(s.id)
  BY <1>0, <1>1 DEF Stream!Sent, SentIds, HeldIsFresh
<1>3. \E u \in sent : s.tip = u.tip
  BY <1>0, <1>1 DEF HeldInOrder
<1>4. s.tip = current_prev_hash \/ overlap
  BY <1>0, <1>1 DEF HeldInOrder
<1> QED
  BY <1>0, <1>1, <1>2, <1>3, <1>4 DEF Stream!SendTemplate

\* Nothing is sent before the first constraints.
THEOREM StreamInit == Init => Stream!Init
BY DEF Init, Stream!Init

\* Every step of the tasks is a step of the stream, or changes nothing in it.
THEOREM StreamNext == IInv /\ IInv' /\ [Next]_vars => [Stream!Next]_Stream!vars
<1> SUFFICES ASSUME IInv, IInv', [Next]_vars PROVE [Stream!Next]_Stream!vars
  OBVIOUS
<1>0. /\ Types /\ TypeOK /\ TypeOK' /\ Phases /\ HeldIsFresh /\ HeldInOrder
      /\ MaxTip \in Nat
  BY Numbers DEF IInv, Types
<1>1. ASSUME run' = run, UNCHANGED <<current_prev_hash, sent, overlap>>
      PROVE  UNCHANGED Stream!vars
  BY <1>0, <1>1, StreamStates DEF Stream!vars
<1>2. CASE \/ NewBlock \/ Cancel \/ UNCHANGED vars \/ ProcessStaleTemplateData
           \/ HandleCoinbaseOutputConstraints \/ RequestAnswered \/ IncomingEnds \/ IncomingFails
           \/ \E s \in sent : HandleRequestTransactionData(s.id)
  BY <1>1, <1>2
     DEF NewBlock, Cancel, vars, ProcessStaleTemplateData, HandleCoinbaseOutputConstraints,
         RequestAnswered, IncomingEnds, IncomingFails, HandleRequestTransactionData, tokenVars,
         streamVars, clientVars
<1>3. ASSUME NEW m \in Monitor,
             \/ MonitorStarts(m) \/ MonitorStops(m) \/ WaitNextTimesOut(m) \/ WaitNextReturns(m)
             \/ MonitorFails(m) \/ (MonitorFetched(m) /\ ~OnNewTip(m))
      PROVE  UNCHANGED Stream!vars
  BY <1>1, <1>3
     DEF MonitorStarts, MonitorStops, WaitNextTimesOut, WaitNextReturns, MonitorFails,
         MonitorFetched, tokenVars, streamVars, clientVars
<1>4. CASE RunReceivesConstraints
  <2>1. /\ run = "waiting" /\ run' = "bootstrapping"
        /\ UNCHANGED <<current_prev_hash, sent, overlap>>
    BY <1>4 DEF RunReceivesConstraints, streamVars
  <2> QED
    BY <2>1 DEF Stream!vars
<1>5. CASE RunBootstraps
  <2>1. /\ run = "bootstrapping" /\ run' = "serving"
        /\ AnnouncesTip(template_id_factory, current_template_ipc_client)
    BY <1>5 DEF RunBootstraps
  <2>2. /\ current_template_ipc_client \in Tip /\ current_prev_hash = 0 /\ SentIds = {}
        /\ current_template_ipc_client > 0
    BY <1>0, <2>1 DEF Phases, SentIds, Tip
  <2>3. Stream!AnnounceTip
    BY <2>1, <2>2, AnnouncesSimulated
  <2> QED
    BY <2>3 DEF Stream!Next
<1>6. ASSUME NEW m \in Monitor, MonitorFetched(m), OnNewTip(m)
      PROVE  Stream!AnnounceTip
  <2>1. /\ Holds(m) /\ run = "serving" /\ run' = "serving"
        /\ AnnouncesTip(monitor[m].id, monitor[m].tip) /\ monitor[m].tip # current_prev_hash
    BY <1>0, <1>6 DEF MonitorFetched, OnNewTip, Holds, tokenVars, Alive, Phases, TypeOK
  <2>2. monitor[m].id \notin SentIds /\ monitor[m].tip \in Tip
    BY <1>0, <2>1 DEF HeldIsFresh
  <2>3. ~overlap => monitor[m].tip > current_prev_hash
    BY <1>0, <2>1, <2>2, Numbers DEF HeldInOrder, Tip
  <2> QED
    BY <2>1, <2>2, <2>3, AnnouncesSimulated
<1>7. CASE RunEnds
  <2>1. run' = "ended" /\ UNCHANGED <<current_prev_hash, sent, overlap>>
    BY <1>7 DEF RunEnds, streamVars
  <2> QED
    BY <2>1 DEF Stream!Next, Stream!Close
<1>8. CASE ConstraintsApply
  <2>1. run = "serving" /\ run' = run /\ UNCHANGED <<current_prev_hash, sent>>
    BY <1>0, <1>8 DEF ConstraintsApply, tokenVars, Alive, Phases, TypeOK
  <2>2. CASE overlap' = overlap
    BY <1>1, <2>1, <2>2
  <2>3. CASE overlap' # overlap
    <3>1. overlap' = TRUE
      BY <1>0, <1>8, <2>3 DEF ConstraintsApply, TypeOK
    <3> QED
      BY <1>0, <2>1, <3>1, StreamStates DEF Stream!Next, Stream!SourcesOverlap
  <2> QED
    BY <2>2, <2>3
<1> QED
  BY <1>2, <1>3, <1>4, <1>5, <1>6, <1>7, <1>8, SendsSimulated
     DEF Next, MonitorStep, IncomingStep, Stream!Next

\* What is sent is the stream the channel managers rely on: tips only rise and a
\* template comes with its tip or extends the last one, until a change of constraints
\* meets a monitor between two requests. From then on a template comes with its tip
\* or extends one announced before.
THEOREM TasksAreStream == Spec => ImplementsStream
BY StreamInit, StreamNext, Invariance, PTL DEF Spec, ImplementsStream, Stream!Spec

=============================================================================
