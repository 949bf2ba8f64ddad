------------------------- MODULE PoolChannelManager -------------------------
(***************************************************************************)
(* The channel manager of the pool (pool-apps/pool/src/lib/channel_manager)*)
(* together with what the rest of the pool feeds it: connections accepted  *)
(* by the downstream server, mining messages forwarded by the Downstream   *)
(* tasks, templates from the template receiver, and shutdown notices.      *)
(*                                                                         *)
(* The manager is one task whose loop is a `select!` over four inputs; a   *)
(* handler takes the data lock, mutates, unlocks and forwards messages     *)
(* without ever really suspending, so a handler is one action and the      *)
(* interleaving is the order in which the inputs are served.               *)
(*                                                                         *)
(* Both inbound queues are unbounded and nothing a client or the template  *)
(* provider sends depends on how far the manager has got, so the queues    *)
(* are not variables: a message of d may be served at any time after d     *)
(* completed SetupConnection, ALSO after d was removed (its message was    *)
(* still queued), and the template stream is the order in which            *)
(* bitcoin-core-sv2 emits it (see pending_prev_hash).                      *)
(***************************************************************************)
EXTENDS Integers, FiniteSets

CONSTANTS
  Downstream,          \* connections, by the ids downstream_id_factory gives them
  MaxChannelId,        \* bound: ids handed out by one channel_id_factory
  MaxTemplate,         \* bound: templates the template provider emits
  MaxStandardPrefix,   \* last value of the 16-byte counter of standard prefixes
  MaxExtendedPrefix,   \* last value of the 2-byte counter of extended prefixes
  Target               \* difficulty targets, as far as they are told apart

ASSUME BoundsAssumption ==
  /\ MaxChannelId \in Nat
  /\ MaxTemplate \in Nat
  /\ MaxStandardPrefix \in Nat
  /\ MaxExtendedPrefix \in Nat

ASSUME TargetAssumption == Target # {}

VARIABLES
  phase,                    \* how far the connection got with the downstream server
  requires_standard_jobs,   \* SetupConnection flags, per Downstream
  requires_custom_work,
  downstream,               \* keys of ChannelManagerData.downstream
  channel_id_factory,       \* next id of DownstreamData.channel_id_factory
  group_channels,           \* DownstreamData.group_channels, or NoGroup
  channels,                 \* standard_channels and extended_channels, by id
  extranonce_prefix_factory_standard,
  extranonce_prefix_factory_extended,
  vardiff,                  \* keys of ChannelManagerData.vardiff
  last_future_template,
  last_new_prev_hash,
  next_template,            \* the template provider: its next template id,
  pending_prev_hash,        \* the template whose SetNewPrevHash comes next, and
  built_on,                 \* the tip each template extends
  miner,                    \* what the peer makes of the messages sent to it
  cm_exit                   \* why the manager's loop ended, or Running

connectionVars == <<phase, requires_standard_jobs, requires_custom_work>>
channelVars == <<channel_id_factory, group_channels, channels, miner, vardiff>>
factoryVars == <<extranonce_prefix_factory_standard,
                 extranonce_prefix_factory_extended>>
templateVars == <<last_future_template, last_new_prev_hash, next_template,
                  pending_prev_hash, built_on>>
vars == <<connectionVars, downstream, channelVars, factoryVars, templateVars,
          cm_exit>>

-----------------------------------------------------------------------------
(* Values. *)

NoChannel == 0
ChannelId == 1..MaxChannelId
NoTemplate == 0
Template == 1..MaxTemplate
NoJob == 0
CustomJob == -1          \* a job declared by SetCustomMiningJob, of no template

\* What a channel mines on. A template is named by its id, a chain tip by the
\* template whose SetNewPrevHash announced it.
Work == [future : SUBSET Template, active : Template \cup {NoJob, CustomJob},
         tip : Template \cup {NoTemplate}]
NoWork == [future |-> {}, active |-> NoJob, tip |-> NoTemplate]

Group == [id : ChannelId \cup {NoChannel}, work : Work]
NoGroup == [id |-> NoChannel, work |-> NoWork]

\* range_1 is the pool's allocation, range_2 the client's search space; an
\* extended prefix leaves all of range_2 to the client, written 0.
Prefix == [range_1 : 0..MaxExtendedPrefix, range_2 : 0..MaxStandardPrefix]
NoPrefix == [range_1 |-> 0, range_2 |-> 0]

AnyTarget == CHOOSE target \in Target : TRUE

Channel == [kind : {"none", "standard", "extended"}, prefix : Prefix,
            work : Work, target : Target]
Closed == [kind |-> "none", prefix |-> NoPrefix, work |-> NoWork, target |-> AnyTarget]
AllClosed == [c \in ChannelId |-> Closed]

View == [work : Work, target : Target]
NoView == [work |-> NoWork, target |-> AnyTarget]
NoViews == [c \in ChannelId |-> NoView]

WithWork(object, work) == [object EXCEPT !.work = work]
WithTarget(object, target) == [object EXCEPT !.target = target]

Running == "running"
ExitReason == {"ShutdownAll", "Panic", "DownstreamNotFound",
               "DownstreamIdNotFound", "FutureTemplateNotPresent",
               "LastNewPrevhashNotFound", "TemplateIdNotFound", "ChannelNotCreated",
               "ExtranonceExhausted", "VardiffNotFound", "ShareValidationError",
               "CustomJobRejected"}

-----------------------------------------------------------------------------
(* The channels_sv2 objects, as the handlers use them. *)

\* A future template becomes a future job; any other one the active job, which
\* is an error (and no change) while the channel has no chain tip.
TakesTemplate(w, future) == future \/ w.tip # NoTemplate

OnNewTemplate(w, t, future) ==
  IF future THEN [w EXCEPT !.future = @ \cup {t}] ELSE [w EXCEPT !.active = t]

\* Standard and group channels need the future job of that very template.
CanActivate(w, t) == t \in w.future

OnSetNewPrevHash(t) == [future |-> {}, active |-> t, tip |-> t]

\* An extended channel without future jobs (custom work) only moves its tip.
CanActivateExtended(w, t) == w.future = {} \/ CanActivate(w, t)

OnSetNewPrevHashExtended(w, t) ==
  IF w.future = {} THEN [w EXCEPT !.tip = t] ELSE OnSetNewPrevHash(t)

OnSetCustomMiningJob(w) == [w EXCEPT !.active = CustomJob]

\* The peer's side: a SetNewPrevHash names a job the peer must know.
MinerSetNewPrevHash(w, job, t) ==
  IF job \in w.future \cup {w.active}
    THEN [future |-> {}, active |-> job, tip |-> t]
    ELSE w

-----------------------------------------------------------------------------
OfKind(d, kind) == {c \in ChannelId : channels[d][c].kind = kind}
OpenChannels(d) == OfKind(d, "standard") \cup OfKind(d, "extended")

Init ==
  /\ phase = [d \in Downstream |-> "absent"]
  /\ requires_standard_jobs = [d \in Downstream |-> FALSE]
  /\ requires_custom_work = [d \in Downstream |-> FALSE]
  /\ downstream = {}
  /\ channel_id_factory = [d \in Downstream |-> 1]
  /\ group_channels = [d \in Downstream |-> NoGroup]
  /\ channels = [d \in Downstream |-> AllClosed]
  /\ miner = [d \in Downstream |-> NoViews]
  /\ extranonce_prefix_factory_standard = 0
  /\ extranonce_prefix_factory_extended = 0
  /\ vardiff = {}
  /\ last_future_template = NoTemplate
  /\ last_new_prev_hash = NoTemplate
  /\ next_template = 1
  /\ pending_prev_hash = NoTemplate
  /\ built_on = [t \in Template |-> NoTemplate]
  /\ cm_exit = Running

-----------------------------------------------------------------------------
(* The downstream server and the Downstream task. *)

\* Accept: a fresh id, and the entry is in the map before SetupConnection.
AcceptDownstream(d) ==
  /\ phase[d] = "absent"
  /\ phase' = [phase EXCEPT ![d] = "accepted"]
  /\ downstream' = downstream \cup {d}
  /\ UNCHANGED <<requires_standard_jobs, requires_custom_work, channelVars,
                 factoryVars, templateVars, cm_exit>>

\* Only a connection that completed SetupConnection forwards mining messages.
HandleSetupConnection(d) ==
  /\ phase[d] = "accepted"
  /\ phase' = [phase EXCEPT ![d] = "setup"]
  /\ \E standard, custom \in BOOLEAN :
       /\ requires_standard_jobs' = [requires_standard_jobs EXCEPT ![d] = standard]
       /\ requires_custom_work' = [requires_custom_work EXCEPT ![d] = custom]
  /\ UNCHANGED <<downstream, channelVars, factoryVars, templateVars, cm_exit>>

-----------------------------------------------------------------------------
(* The manager's loop: shutdown notices. *)

\* An Err of a handler ends the loop and brings the whole pool down. The data
\* behind the lock is not read again, so it is left as it was.
Exit(reason) ==
  /\ cm_exit' = reason
  /\ UNCHANGED <<connectionVars, downstream, channelVars, factoryVars,
                 templateVars>>

ShutdownAll == cm_exit = Running /\ Exit("ShutdownAll")

\* A connection that fails before its SetupConnection never forwards a message.
Disconnected(d) ==
  phase' = [phase EXCEPT ![d] = IF @ = "accepted" THEN "failed" ELSE @]

RemoveDownstreamOnly(d) ==                                              \* mutant
  /\ cm_exit = Running
  /\ phase[d] # "absent"
  /\ Disconnected(d)
  /\ downstream' = downstream \ {d}
  /\ group_channels' = [group_channels EXCEPT ![d] = NoGroup]
  /\ channels' = [channels EXCEPT ![d] = AllClosed]
  /\ miner' = [miner EXCEPT ![d] = NoViews]
  /\ UNCHANGED <<requires_standard_jobs, requires_custom_work, channel_id_factory,
                 vardiff, factoryVars, templateVars, cm_exit>>

\* DownstreamShutdown(d): the setup failed, or the Downstream task ended on an
\* error of its connection. The object goes with all its channels; messages the
\* connection forwarded before may still be queued.
RemoveDownstream(d) ==
  /\ cm_exit = Running
  /\ phase[d] # "absent"
  /\ Disconnected(d)
  /\ downstream' = downstream \ {d}
  /\ group_channels' = [group_channels EXCEPT ![d] = NoGroup]
  /\ channels' = [channels EXCEPT ![d] = AllClosed]
  /\ miner' = [miner EXCEPT ![d] = NoViews]
  /\ vardiff' = {key \in vardiff : key[1] # d}
  /\ UNCHANGED <<requires_standard_jobs, requires_custom_work, channel_id_factory,
                 factoryVars, templateVars, cm_exit>>

-----------------------------------------------------------------------------
(* The manager's loop: mining messages. *)

Receives(d) == cm_exit = Running /\ phase[d] = "setup"

\* The handler only answers: nothing the manager keeps has changed.
Reply == UNCHANGED vars

CloseVardiffOnly(d, c) ==                                               \* mutant
  /\ Receives(d)
  /\ \/ d \notin downstream /\ Exit("DownstreamNotFound")
     \/ /\ d \in downstream
        /\ vardiff' = vardiff \ {<<d, c>>}
        /\ UNCHANGED <<connectionVars, downstream, channel_id_factory, channels,
                       miner, group_channels, factoryVars, templateVars, cm_exit>>

HandleCloseChannel(d, c) ==
  /\ Receives(d)
  /\ \/ d \notin downstream /\ Exit("DownstreamNotFound")
     \/ /\ d \in downstream
        /\ channels' = [channels EXCEPT ![d][c] = Closed]
        /\ miner' = [miner EXCEPT ![d][c] = NoView]
        /\ vardiff' = vardiff \ {<<d, c>>}
        /\ UNCHANGED <<connectionVars, downstream, channel_id_factory,
                       group_channels, factoryVars, templateVars, cm_exit>>

\* A new channel is given the last future template and then the last prev hash.
LastTemplateActivates ==
  CanActivate(OnNewTemplate(NoWork, last_future_template, TRUE), last_new_prev_hash)
InitialWork == OnSetNewPrevHash(last_new_prev_hash)

\* Its peer gets the job and a SetNewPrevHash naming that job.
InitialMinerWork ==
  MinerSetNewPrevHash(OnNewTemplate(NoWork, last_future_template, TRUE),
                      last_future_template, last_new_prev_hash)

\* The counters are incremented first: a standard prefix has a range_1 of 0 and
\* a range_2 above 0, an extended one a range_1 above 0.
NextPrefixStandard ==
  [range_1 |-> 0, range_2 |-> extranonce_prefix_factory_standard + 1]

NextPrefixExtendedBeforeIncrement ==                                    \* mutant
  [range_1 |-> extranonce_prefix_factory_extended, range_2 |-> 0]

NextPrefixExtended ==
  [range_1 |-> extranonce_prefix_factory_extended + 1, range_2 |-> 0]

Insert(d, c, kind, prefix, work, minerWork) ==
  \E target \in Target :
    /\ channels' = [channels EXCEPT ![d][c] =
         [kind |-> kind, prefix |-> prefix, work |-> work, target |-> target]]
    /\ miner' = [miner EXCEPT ![d][c] = [work |-> minerWork, target |-> target]]
    /\ vardiff' = vardiff \cup {<<d, c>>}

\* The group channel is created by the first standard channel that needs one.
NeedsGroup(d) == ~requires_standard_jobs[d] /\ group_channels[d] = NoGroup
StandardId(d) == channel_id_factory[d] + (IF NeedsGroup(d) THEN 1 ELSE 0)

OpenStandardWithoutLimit(d) ==                                          \* mutant
  IF d \notin downstream THEN "DownstreamIdNotFound"
  ELSE IF requires_custom_work[d] THEN Running
  ELSE IF last_future_template = NoTemplate THEN "FutureTemplateNotPresent"
  ELSE IF last_new_prev_hash = NoTemplate THEN "LastNewPrevhashNotFound"
  ELSE IF NeedsGroup(d) /\ ~LastTemplateActivates THEN "TemplateIdNotFound"
  ELSE Running

\* The early returns of handle_open_standard_mining_channel, in their order.
OpenStandardFails(d) ==
  IF d \notin downstream THEN "DownstreamIdNotFound"
  ELSE IF requires_custom_work[d] THEN Running     \* answered with an error
  ELSE IF last_future_template = NoTemplate THEN "FutureTemplateNotPresent"
  ELSE IF last_new_prev_hash = NoTemplate THEN "LastNewPrevhashNotFound"
  ELSE IF NeedsGroup(d) /\ ~LastTemplateActivates THEN "TemplateIdNotFound"
  ELSE IF extranonce_prefix_factory_standard = MaxStandardPrefix THEN "ExtranonceExhausted"
  ELSE Running

\* Past them: ids and prefix are consumed and the group channel is kept, also
\* when new_for_pool then refuses the hash rate or the max target.
OpenStandard(d) ==
  /\ StandardId(d) \in ChannelId                            \* bound
  /\ extranonce_prefix_factory_standard' = extranonce_prefix_factory_standard + 1
  /\ channel_id_factory' = [channel_id_factory EXCEPT ![d] = StandardId(d) + 1]
  /\ group_channels' =
       IF NeedsGroup(d)
         THEN [group_channels EXCEPT ![d] =
                 [id |-> channel_id_factory[d], work |-> InitialWork]]
         ELSE group_channels
  /\ \/ UNCHANGED <<channels, miner, vardiff>>              \* OpenMiningChannelError
     \/ /\ LastTemplateActivates
        /\ Insert(d, StandardId(d), "standard", NextPrefixStandard,
                  InitialWork, InitialMinerWork)
  /\ UNCHANGED <<connectionVars, downstream, extranonce_prefix_factory_extended,
                 templateVars, cm_exit>>

HandleOpenStandardMiningChannel(d) ==
  /\ Receives(d)
  /\ \/ OpenStandardFails(d) # Running /\ Exit(OpenStandardFails(d))
     \/ OpenStandardFails(d) = Running /\ requires_custom_work[d] /\ Reply
     \/ /\ OpenStandardFails(d) = Running /\ ~requires_custom_work[d]
        /\ \/ OpenStandard(d)
           \/ ~LastTemplateActivates /\ Exit("TemplateIdNotFound")
           \/ Exit("ChannelNotCreated")

\* handle_open_extended_mining_channel checks for a prev hash and a template
\* only after the channel object exists; a client with custom work gets no job.
OpenExtendedFails(d) ==
  IF last_new_prev_hash = NoTemplate THEN "LastNewPrevhashNotFound"
  ELSE IF last_future_template = NoTemplate THEN "FutureTemplateNotPresent"
  ELSE IF ~requires_custom_work[d] /\ ~LastTemplateActivates THEN "TemplateIdNotFound"
  ELSE Running

\* An extended channel, or an OpenMiningChannelError that consumed id and prefix.
OpenExtended(d) ==
  LET c == channel_id_factory[d]
      custom == OnSetNewPrevHashExtended(NoWork, last_new_prev_hash)
  IN  /\ c \in ChannelId                                    \* bound
      /\ extranonce_prefix_factory_extended' = extranonce_prefix_factory_extended + 1
      /\ channel_id_factory' = [channel_id_factory EXCEPT ![d] = c + 1]
      /\ \/ UNCHANGED <<channels, miner, vardiff>>          \* OpenMiningChannelError
         \/ /\ OpenExtendedFails(d) = Running
            /\ Insert(d, c, "extended", NextPrefixExtended,
                      IF requires_custom_work[d] THEN custom ELSE InitialWork,
                      IF requires_custom_work[d] THEN NoWork ELSE InitialMinerWork)
      /\ UNCHANGED <<connectionVars, downstream, group_channels,
                     extranonce_prefix_factory_standard, templateVars, cm_exit>>

\* next_prefix_extended refuses a too large minimum size, or is exhausted: an
\* OpenMiningChannelError either way. An error of new_for_pool that has no reply
\* ends the loop.
HandleOpenExtendedMiningChannel(d) ==
  /\ Receives(d)
  /\ \/ d \notin downstream /\ Exit("DownstreamIdNotFound")
     \/ d \in downstream /\ Reply
     \/ /\ d \in downstream
        /\ extranonce_prefix_factory_extended < MaxExtendedPrefix
        /\ \/ OpenExtended(d)
           \/ OpenExtendedFails(d) # Running /\ Exit(OpenExtendedFails(d))
           \/ Exit("ChannelNotCreated")

\* The result of the validation is persisted and answered (or, in the middle of
\* a batch, not answered); the manager stays as it was, unless the validation
\* fails in a way that the handler has no reply for.
Validate == Reply \/ Exit("ShareValidationError")

HandleSubmitSharesStandard(d, c) ==
  /\ Receives(d)
  /\ \/ d \notin downstream /\ Exit("DownstreamNotFound")
     \/ /\ d \in downstream
        /\ \/ c \notin OfKind(d, "standard") /\ Reply
           \/ c \in OfKind(d, "standard") /\ <<d, c>> \notin vardiff /\ Exit("VardiffNotFound")
           \/ c \in OfKind(d, "standard") /\ <<d, c>> \in vardiff /\ Validate

\* The extensions of the client are looked up first, with an `expect`.
HandleSubmitSharesExtended(d, c) ==
  /\ Receives(d)
  /\ \/ d \notin downstream /\ Exit("Panic")
     \/ /\ d \in downstream
        /\ \/ c \notin OfKind(d, "extended") /\ Reply
           \/ c \in OfKind(d, "extended") /\ <<d, c>> \notin vardiff /\ Exit("VardiffNotFound")
           \/ c \in OfKind(d, "extended") /\ <<d, c>> \in vardiff /\ Validate

\* A refused update still sends SetTarget, with the target in force. Left out: an error of
\* the library other than the two refusals, which ends the handler with that error.
HandleUpdateChannel(d, c) ==
  /\ Receives(d)
  /\ \/ d \notin downstream /\ Exit("DownstreamNotFound")
     \/ d \in downstream /\ c \notin OpenChannels(d) /\ Reply
     \/ /\ d \in downstream /\ c \in OpenChannels(d)
        /\ \E target \in Target :
             /\ channels' = [channels EXCEPT ![d][c] = WithTarget(@, target)]
             /\ miner' = [miner EXCEPT ![d][c] = WithTarget(@, target)]
        /\ UNCHANGED <<connectionVars, downstream, channel_id_factory, vardiff,
                       group_channels, factoryVars, templateVars, cm_exit>>

\* The payout script is checked before the downstream is looked up.
HandleSetCustomMiningJob(d, c) ==
  /\ Receives(d)
  /\ \/ Reply                                    \* pool-payout-script-missing
     \/ d \notin downstream /\ Exit("DownstreamNotFound")
     \/ d \in downstream /\ c \notin OfKind(d, "extended") /\ Reply
     \/ /\ d \in downstream /\ c \in OfKind(d, "extended")
        /\ \/ Exit("CustomJobRejected")
           \/ /\ channels' = [channels EXCEPT ![d][c] = WithWork(@, OnSetCustomMiningJob(@.work))]
              /\ miner' = [miner EXCEPT ![d][c] = WithWork(@, OnSetCustomMiningJob(@.work))]
              /\ UNCHANGED <<connectionVars, downstream, channel_id_factory, vardiff,
                             group_channels, factoryVars, templateVars, cm_exit>>

-----------------------------------------------------------------------------
(* The manager's loop: the vardiff timer. *)

RunVardiffSilently ==                                                   \* mutant
  /\ cm_exit = Running
  /\ \E retarget \in [vardiff -> Target] :
       channels' = [d \in Downstream |-> [c \in ChannelId |->
         IF <<d, c>> \in vardiff THEN WithTarget(channels[d][c], retarget[<<d, c>>])
                                 ELSE channels[d][c]]]
  /\ UNCHANGED <<connectionVars, downstream, channel_id_factory, vardiff, miner,
                 group_channels, factoryVars, templateVars, cm_exit>>

\* Every controller may retarget its channel; only then is SetTarget sent.
RunVardiff ==
  /\ cm_exit = Running
  /\ \E retarget \in [vardiff -> Target] :
       LET Retargeted(d, c) == <<d, c>> \in vardiff /\ d \in downstream /\ c \in OpenChannels(d)
       IN  /\ channels' = [d \in Downstream |-> [c \in ChannelId |->
                IF Retargeted(d, c) THEN WithTarget(channels[d][c], retarget[<<d, c>>])
                                    ELSE channels[d][c]]]
           /\ miner' = [d \in Downstream |-> [c \in ChannelId |->
                IF Retargeted(d, c) /\ retarget[<<d, c>>] # channels[d][c].target
                  THEN WithTarget(miner[d][c], retarget[<<d, c>>])
                  ELSE miner[d][c]]]
  /\ UNCHANGED <<connectionVars, downstream, channel_id_factory, vardiff,
                 group_channels, factoryVars, templateVars, cm_exit>>

-----------------------------------------------------------------------------
(* The manager's loop: templates. *)

\* The standard channels of a group follow the template only if the group does.
InGroup(d, c) == channels[d][c].kind = "standard" /\ group_channels[d] # NoGroup

FollowsUngrouped(d, c, future) ==                                       \* mutant
  c \in OpenChannels(d) /\ ~InGroup(d, c) /\ TakesTemplate(channels[d][c].work, future)

FollowsTemplate(d, c, future) ==
  /\ c \in OpenChannels(d)
  /\ InGroup(d, c) => TakesTemplate(group_channels[d].work, future)
  /\ TakesTemplate(channels[d][c].work, future)

\* The job goes to the group channel once, and else to each channel that took it.
MinerGetsJob(d, c, future) ==
  /\ c \in OpenChannels(d)
  /\ IF InGroup(d, c) THEN TakesTemplate(group_channels[d].work, future)
                      ELSE TakesTemplate(channels[d][c].work, future)

HandleNewTemplate(future) ==
  LET t == next_template
  IN  /\ cm_exit = Running
      /\ t \in Template                                     \* bound
      /\ pending_prev_hash = NoTemplate
      /\ future \/ last_new_prev_hash # NoTemplate
      /\ next_template' = t + 1
      /\ built_on' = [built_on EXCEPT ![t] = IF future THEN t ELSE last_new_prev_hash]
      /\ pending_prev_hash' = IF future THEN t ELSE NoTemplate
      /\ last_future_template' = IF future THEN t ELSE last_future_template
      /\ group_channels' = [d \in Downstream |->
           IF d \in downstream /\ group_channels[d] # NoGroup
                /\ TakesTemplate(group_channels[d].work, future)
             THEN WithWork(group_channels[d], OnNewTemplate(group_channels[d].work, t, future))
             ELSE group_channels[d]]
      /\ channels' = [d \in Downstream |-> [c \in ChannelId |->
           IF d \in downstream /\ FollowsTemplate(d, c, future)
             THEN WithWork(channels[d][c], OnNewTemplate(channels[d][c].work, t, future))
             ELSE channels[d][c]]]
      /\ miner' = [d \in Downstream |-> [c \in ChannelId |->
           IF d \in downstream /\ MinerGetsJob(d, c, future)
             THEN WithWork(miner[d][c], OnNewTemplate(miner[d][c].work, t, future))
             ELSE miner[d][c]]]
      /\ UNCHANGED <<connectionVars, downstream, channel_id_factory, vardiff,
                     factoryVars, last_new_prev_hash, cm_exit>>

\* Channels after a SetNewPrevHash; one whose activation fails is skipped.
ActivatedGroup(d, t) ==
  IF CanActivate(group_channels[d].work, t)
    THEN OnSetNewPrevHash(t) ELSE group_channels[d].work

ActivatesUngrouped(d, c, t) ==                                          \* mutant
  \/ c \in OfKind(d, "standard") /\ ~InGroup(d, c) /\ CanActivate(channels[d][c].work, t)
  \/ c \in OfKind(d, "extended") /\ CanActivateExtended(channels[d][c].work, t)

Activates(d, c, t) ==
  \/ c \in OfKind(d, "standard") /\ CanActivate(channels[d][c].work, t)
  \/ c \in OfKind(d, "extended") /\ CanActivateExtended(channels[d][c].work, t)

ActivatedWork(d, c, t) ==
  IF channels[d][c].kind = "extended"
    THEN OnSetNewPrevHashExtended(channels[d][c].work, t)
    ELSE OnSetNewPrevHash(t)

\* SetNewPrevHash goes to the group for its standard channels, to no channel
\* of a client with custom work, and to every other activated channel.
MinerActivatedByGroup(d, c, t) ==                                       \* mutant
  LET w == miner[d][c].work
  IN  IF group_channels[d] # NoGroup
        THEN MinerSetNewPrevHash(w, ActivatedGroup(d, t).active, t)
        ELSE w

MinerActivated(d, c, t) ==
  LET w == miner[d][c].work
  IN  IF InGroup(d, c)
        THEN MinerSetNewPrevHash(w, ActivatedGroup(d, t).active, t)
      ELSE IF channels[d][c].kind = "extended" /\ requires_custom_work[d] THEN w
      ELSE IF Activates(d, c, t) THEN MinerSetNewPrevHash(w, ActivatedWork(d, c, t).active, t)
      ELSE w

\* `expect("active job must exist")`, for a group channel and for each channel
\* that a SetNewPrevHash message is about.
NoActiveJob(d, t) ==
  \/ group_channels[d] # NoGroup /\ ActivatedGroup(d, t).active = NoJob
  \/ \E c \in OpenChannels(d) :
       /\ Activates(d, c, t) /\ ActivatedWork(d, c, t).active = NoJob
       /\ channels[d][c].kind = "extended" => ~requires_custom_work[d]
       /\ ~InGroup(d, c)

HandleSetNewPrevHash ==
  LET t == pending_prev_hash
  IN  /\ cm_exit = Running
      /\ t # NoTemplate
      /\ \/ (\E d \in downstream : NoActiveJob(d, t)) /\ Exit("Panic")
         \/ /\ \A d \in downstream : ~NoActiveJob(d, t)
            /\ last_new_prev_hash' = t
            /\ pending_prev_hash' = NoTemplate
            /\ group_channels' = [d \in Downstream |->
                 IF d \in downstream /\ group_channels[d] # NoGroup
                   THEN WithWork(group_channels[d], ActivatedGroup(d, t))
                   ELSE group_channels[d]]
            /\ channels' = [d \in Downstream |-> [c \in ChannelId |->
                 IF d \in downstream /\ Activates(d, c, t)
                   THEN WithWork(channels[d][c], ActivatedWork(d, c, t))
                   ELSE channels[d][c]]]
            /\ miner' = [d \in Downstream |-> [c \in ChannelId |->
                 IF d \in downstream /\ c \in OpenChannels(d)
                   THEN WithWork(miner[d][c], MinerActivated(d, c, t))
                   ELSE miner[d][c]]]
            /\ UNCHANGED <<connectionVars, downstream, channel_id_factory, vardiff,
                           factoryVars, last_future_template, next_template, built_on,
                           cm_exit>>

-----------------------------------------------------------------------------
MiningMessage(d) ==
  \/ HandleOpenStandardMiningChannel(d)
  \/ HandleOpenExtendedMiningChannel(d)
  \/ \E c \in ChannelId :
       \/ HandleCloseChannel(d, c)
       \/ HandleSubmitSharesStandard(d, c)
       \/ HandleSubmitSharesExtended(d, c)
       \/ HandleUpdateChannel(d, c)
       \/ HandleSetCustomMiningJob(d, c)

Next ==
  \/ \E d \in Downstream :
       \/ AcceptDownstream(d)
       \/ HandleSetupConnection(d)
       \/ RemoveDownstream(d)
       \/ MiningMessage(d)
  \/ RunVardiff
  \/ \E future \in BOOLEAN : HandleNewTemplate(future)
  \/ HandleSetNewPrevHash
  \/ ShutdownAll

Spec == Init /\ [][Next]_vars

-----------------------------------------------------------------------------
(* Properties. *)

\* The type invariant: every variable keeps the shape the code's types give it.
TypeOK ==
  /\ phase \in [Downstream -> {"absent", "accepted", "setup", "failed"}]
  /\ requires_standard_jobs \in [Downstream -> BOOLEAN]
  /\ requires_custom_work \in [Downstream -> BOOLEAN]
  /\ downstream \subseteq Downstream
  /\ channel_id_factory \in [Downstream -> 1..(MaxChannelId + 1)]
  /\ group_channels \in [Downstream -> Group]
  /\ channels \in [Downstream -> [ChannelId -> Channel]]
  /\ miner \in [Downstream -> [ChannelId -> View]]
  /\ extranonce_prefix_factory_standard \in 0..MaxStandardPrefix
  /\ extranonce_prefix_factory_extended \in 0..MaxExtendedPrefix
  /\ vardiff \subseteq Downstream \X ChannelId
  /\ last_future_template \in Template \cup {NoTemplate}
  /\ last_new_prev_hash \in Template \cup {NoTemplate}
  /\ next_template \in 1..(MaxTemplate + 1)
  /\ pending_prev_hash \in Template \cup {NoTemplate}
  /\ built_on \in [Template -> Template \cup {NoTemplate}]
  /\ cm_exit \in ExitReason \cup {Running}

\* The vardiff map has an entry for exactly the channels that are open on a
\* connection the manager still knows: the lookups of the share handlers
\* (VardiffNotFound) always succeed and no entry outlives its channel, however
\* opens, closes and removals interleave.
VardiffMatchesChannels ==
  cm_exit = Running =>
    vardiff = {key \in Downstream \X ChannelId :
                 key[1] \in downstream /\ key[2] \in OpenChannels(key[1])}

\* Every group, standard and extended channel of a connected client stands on
\* the tip of the last SetNewPrevHash, although handle_set_new_prev_hash only
\* logs and skips a channel whose activation fails.
TipAgreement ==
  cm_exit = Running =>
    \A d \in downstream :
      /\ group_channels[d] # NoGroup => group_channels[d].work.tip = last_new_prev_hash
      /\ \A c \in OpenChannels(d) : channels[d][c].work.tip = last_new_prev_hash

\* No channel ever validates shares for a template of another tip than its own:
\* the active job, unless it is a custom one, extends the channel's tip.
WorkIsOnTip ==
  cm_exit = Running =>
    \A d \in downstream : \A c \in OpenChannels(d) :
      LET w == channels[d][c].work
      IN  w.active \in Template => built_on[w.active] = w.tip

\* A peer that handles every message sent to it mines the job, on the tip and
\* with the target, that the pool validates its shares against: for standard
\* channels with and without a group and for extended channels of clients that
\* do not choose their own work. Targets agree for all channels.
MinerAgreement ==
  cm_exit = Running =>
    \A d \in downstream : \A c \in OpenChannels(d) :
      /\ miner[d][c].target = channels[d][c].target
      /\ channels[d][c].kind = "standard" \/ ~requires_custom_work[d]
           => miner[d][c].work = channels[d][c].work

\* Two prefixes cover a common extranonce.
Overlap(p, q) ==
  p.range_1 = q.range_1 /\ (p.range_2 = q.range_2 \/ p.range_2 = 0 \/ q.range_2 = 0)

\* Two open channels never search the same extranonce space: standard channels
\* differ in range_2, and a range_1 given to an extended channel is given to
\* nobody else, though two factories with one static prefix hand them out.
SearchSpacesDisjoint ==
  \A d1, d2 \in Downstream : \A c1 \in OpenChannels(d1), c2 \in OpenChannels(d2) :
    Overlap(channels[d1][c1].prefix, channels[d2][c2].prefix) => d1 = d2 /\ c1 = c2

\* The manager's loop only ends for the causes its error paths are meant for:
\* an unknown downstream only after one was removed, a missing template or prev
\* hash only before the first SetNewPrevHash, a failed activation only between a
\* future template and its SetNewPrevHash, and never for a missing vardiff entry.
ExitsAreExplained ==
  /\ cm_exit # "VardiffNotFound"
  /\ cm_exit \in {"DownstreamNotFound", "DownstreamIdNotFound", "Panic"} =>
       \E d \in Downstream : phase[d] = "setup" /\ d \notin downstream
  /\ cm_exit \in {"FutureTemplateNotPresent", "LastNewPrevhashNotFound"} =>
       last_new_prev_hash = NoTemplate
  /\ cm_exit = "TemplateIdNotFound" => pending_prev_hash # NoTemplate
  /\ cm_exit = "ExtranonceExhausted" =>
       extranonce_prefix_factory_standard = MaxStandardPrefix

-----------------------------------------------------------------------------
(* What comments of the repository say and the code does not do. *)

\* `expect("negotiated_extensions must be present")`: the lookup of a client's
\* extensions never fails.
NeverPanics == cm_exit # "Panic"

=============================================================================
