----------------------- MODULE PoolChannelManagerProofs -----------------------
(***************************************************************************)
(* Machine-checked proofs, for every number of connections, channels,      *)
(* templates and prefixes, of what module PoolChannelManager states.       *)
(***************************************************************************)
EXTENDS PoolChannelManager, TLAPS

-----------------------------------------------------------------------------
(* The work of a channel under the channels_sv2 operations. *)

\* A channel without a job or a tip is well typed.
LEMMA NoWorkType == NoWork \in Work
  BY DEF NoWork, Work, NoJob, NoTemplate

\* on_new_template returns well-typed work and keeps the tip.
LEMMA OnNewTemplateWork ==
  ASSUME NEW w \in Work, NEW t \in Template, NEW future \in BOOLEAN
  PROVE  /\ OnNewTemplate(w, t, future) \in Work
         /\ OnNewTemplate(w, t, future).tip = w.tip
         /\ future => /\ OnNewTemplate(w, t, future).future = w.future \cup {t}
                      /\ OnNewTemplate(w, t, future).active = w.active
         /\ ~future => /\ OnNewTemplate(w, t, future).future = w.future
                       /\ OnNewTemplate(w, t, future).active = t
  BY DEF OnNewTemplate, Work

\* on_set_new_prev_hash of a standard or group channel is well typed.
LEMMA OnSetNewPrevHashWork ==
  ASSUME NEW t \in Template
  PROVE  OnSetNewPrevHash(t) \in Work
  BY DEF OnSetNewPrevHash, Work

\* The same of an extended channel, whatever work it had.
LEMMA OnSetNewPrevHashExtendedWork ==
  ASSUME NEW w \in Work, NEW t \in Template
  PROVE  /\ OnSetNewPrevHashExtended(w, t) \in Work
         /\ OnSetNewPrevHashExtended(w, t).future = {}
         /\ OnSetNewPrevHashExtended(w, t).tip = t
         /\ OnSetNewPrevHashExtended(w, t).active \in {t, w.active}
         /\ w.future # {} => OnSetNewPrevHashExtended(w, t) = OnSetNewPrevHash(t)
         /\ w.future = {} => OnSetNewPrevHashExtended(w, t).active = w.active
  BY OnSetNewPrevHashWork DEF OnSetNewPrevHashExtended, OnSetNewPrevHash, Work

\* A SetNewPrevHash keeps the peer's view well typed.
LEMMA MinerSetNewPrevHashWork ==
  ASSUME NEW w \in Work, NEW job, NEW t \in Template
  PROVE  /\ MinerSetNewPrevHash(w, job, t) \in Work
         /\ t \in w.future => MinerSetNewPrevHash(w, t, t) = OnSetNewPrevHash(t)
  BY DEF MinerSetNewPrevHash, OnSetNewPrevHash, Work

\* A custom job replaces the active job and nothing else.
LEMMA OnSetCustomMiningJobWork ==
  ASSUME NEW w \in Work
  PROVE  /\ OnSetCustomMiningJob(w) \in Work
         /\ OnSetCustomMiningJob(w).active = CustomJob
         /\ OnSetCustomMiningJob(w).tip = w.tip
         /\ OnSetCustomMiningJob(w).future = w.future
  BY DEF OnSetCustomMiningJob, Work

\* The fields of a channel, one by one.
LEMMA ChannelFields ==
  ASSUME NEW ch \in Channel
  PROVE  /\ ch.kind \in {"none", "standard", "extended"}
         /\ ch.prefix \in Prefix
         /\ ch.work \in Work
         /\ ch.target \in Target
  BY DEF Channel

\* Giving a channel new work changes its work only.
LEMMA ChannelWithWork ==
  ASSUME NEW ch \in Channel, NEW w \in Work
  PROVE  /\ WithWork(ch, w) \in Channel
         /\ WithWork(ch, w).kind = ch.kind
         /\ WithWork(ch, w).prefix = ch.prefix
         /\ WithWork(ch, w).work = w
         /\ WithWork(ch, w).target = ch.target
  BY DEF WithWork, Channel

\* Retargeting a channel changes its target only.
LEMMA ChannelWithTarget ==
  ASSUME NEW ch \in Channel, NEW target \in Target
  PROVE  /\ WithTarget(ch, target) \in Channel
         /\ WithTarget(ch, target).kind = ch.kind
         /\ WithTarget(ch, target).prefix = ch.prefix
         /\ WithTarget(ch, target).work = ch.work
         /\ WithTarget(ch, target).target = target
  BY DEF WithTarget, Channel

\* The fields of a peer's view of a channel.
LEMMA ViewFields ==
  ASSUME NEW view \in View
  PROVE  view.work \in Work /\ view.target \in Target
  BY DEF View

\* A job message changes the work of a view only.
LEMMA ViewWithWork ==
  ASSUME NEW view \in View, NEW w \in Work
  PROVE  /\ WithWork(view, w) \in View
         /\ WithWork(view, w).work = w
         /\ WithWork(view, w).target = view.target
  BY DEF WithWork, View

\* SetTarget changes the target of a view only.
LEMMA ViewWithTarget ==
  ASSUME NEW view \in View, NEW target \in Target
  PROVE  /\ WithTarget(view, target) \in View
         /\ WithTarget(view, target).work = view.work
         /\ WithTarget(view, target).target = target
  BY DEF WithTarget, View

\* The work of a group channel is well typed.
LEMMA GroupWork ==
  ASSUME NEW group \in Group
  PROVE  group.work \in Work
  BY DEF Group

\* Giving a group channel new work keeps its id.
LEMMA GroupWithWork ==
  ASSUME NEW group \in Group, NEW w \in Work
  PROVE  /\ WithWork(group, w) \in Group
         /\ WithWork(group, w).id = group.id
         /\ WithWork(group, w).work = w
  BY DEF WithWork, Group

\* The values of closed channels and absent groups are well typed.
LEMMA ClosedType ==
  /\ AnyTarget \in Target
  /\ NoPrefix \in Prefix
  /\ Closed \in Channel
  /\ AllClosed \in [ChannelId -> Channel]
  /\ NoView \in View
  /\ NoViews \in [ChannelId -> View]
  /\ NoGroup \in Group
  /\ Closed.kind = "none"
  /\ \A c \in ChannelId : AllClosed[c].kind = "none"
  <1>1. AnyTarget \in Target
    BY TargetAssumption DEF AnyTarget
  <1>2. NoPrefix \in Prefix
    BY BoundsAssumption DEF NoPrefix, Prefix
  <1>3. Closed \in Channel /\ NoView \in View /\ NoGroup \in Group /\ Closed.kind = "none"
    BY <1>1, <1>2, NoWorkType DEF Closed, Channel, NoView, View, NoGroup, Group, NoChannel
  <1> QED BY <1>1, <1>2, <1>3 DEF AllClosed, NoViews

-----------------------------------------------------------------------------
(* Type correctness. *)

\* The initial state is well typed.
LEMMA InitType == Init => TypeOK
  <1> SUFFICES ASSUME Init PROVE TypeOK
    OBVIOUS
  <1> QED BY ClosedType, BoundsAssumption
          DEF Init, TypeOK, Template, NoTemplate, ExitReason, Running

\* What a new channel and its peer start from is well typed, once there is a prev hash.
LEMMA InitialWorkType ==
  ASSUME TypeOK, last_new_prev_hash # NoTemplate, last_future_template # NoTemplate
  PROVE  /\ InitialWork \in Work
         /\ InitialMinerWork \in Work
         /\ OnSetNewPrevHashExtended(NoWork, last_new_prev_hash) \in Work
         /\ LastTemplateActivates <=> last_future_template = last_new_prev_hash
  <1>1. last_new_prev_hash \in Template /\ last_future_template \in Template
    BY DEF TypeOK
  <1>2. OnNewTemplate(NoWork, last_future_template, TRUE) \in Work
    BY <1>1, NoWorkType, OnNewTemplateWork
  <1>3. OnNewTemplate(NoWork, last_future_template, TRUE).future = {last_future_template}
    BY DEF OnNewTemplate, NoWork
  <1> QED BY <1>1, <1>2, <1>3, NoWorkType, OnSetNewPrevHashWork,
             OnSetNewPrevHashExtendedWork, MinerSetNewPrevHashWork
          DEF InitialWork, InitialMinerWork, LastTemplateActivates, CanActivate

\* A prefix handed out below the limit of its factory is well typed.
LEMMA PrefixType ==
  ASSUME TypeOK
  PROVE  /\ extranonce_prefix_factory_standard < MaxStandardPrefix
              => NextPrefixStandard \in Prefix
         /\ extranonce_prefix_factory_extended < MaxExtendedPrefix
              => NextPrefixExtended \in Prefix
  BY BoundsAssumption DEF TypeOK, NextPrefixStandard, NextPrefixExtended, Prefix

\* Inserting a channel keeps the channel maps well typed.
LEMMA InsertType ==
  ASSUME TypeOK, NEW d \in Downstream, NEW c \in ChannelId,
         NEW kind \in {"standard", "extended"}, NEW prefix \in Prefix,
         NEW work \in Work, NEW minerWork \in Work,
         Insert(d, c, kind, prefix, work, minerWork)
  PROVE  /\ channels' \in [Downstream -> [ChannelId -> Channel]]
         /\ miner' \in [Downstream -> [ChannelId -> View]]
         /\ vardiff' \subseteq Downstream \X ChannelId
  BY DEF Insert, TypeOK, Channel, View

\* Ending the loop keeps the types.
LEMMA ExitType ==
  ASSUME TypeOK, NEW reason \in ExitReason, Exit(reason)
  PROVE  TypeOK'
  BY DEF Exit, TypeOK, connectionVars, channelVars, factoryVars, templateVars

\* A mere answer keeps the types.
LEMMA ReplyType ==
  ASSUME TypeOK, UNCHANGED vars
  PROVE  TypeOK'
  BY DEF TypeOK, vars, connectionVars, channelVars, factoryVars, templateVars

\* handle_open_standard_mining_channel keeps the types.
LEMMA OpenStandardType ==
  ASSUME TypeOK, NEW d \in Downstream, HandleOpenStandardMiningChannel(d)
  PROVE  TypeOK'
  <1>1. CASE OpenStandardFails(d) # Running /\ Exit(OpenStandardFails(d))
    <2>1. OpenStandardFails(d) \in ExitReason
      BY <1>1 DEF OpenStandardFails, ExitReason
    <2> QED BY <1>1, <2>1, ExitType
  <1>2. CASE Reply
    BY <1>2, ReplyType DEF Reply
  <1>3. CASE OpenStandardFails(d) = Running /\ ~requires_custom_work[d] /\ OpenStandard(d)
    <2>1. /\ last_future_template # NoTemplate
          /\ last_new_prev_hash # NoTemplate
          /\ extranonce_prefix_factory_standard # MaxStandardPrefix
      BY <1>3 DEF OpenStandardFails, Running
    <2>2. extranonce_prefix_factory_standard < MaxStandardPrefix
      BY <2>1, BoundsAssumption DEF TypeOK
    <2>3. StandardId(d) \in ChannelId /\ channel_id_factory[d] \in ChannelId
      BY <1>3, BoundsAssumption DEF OpenStandard, StandardId, TypeOK, ChannelId
    <2>4. group_channels' \in [Downstream -> Group]
      BY <1>3, <2>1, <2>3, InitialWorkType DEF OpenStandard, TypeOK, Group
    <2>5. /\ channel_id_factory' \in [Downstream -> 1..(MaxChannelId + 1)]
          /\ extranonce_prefix_factory_standard' \in 0..MaxStandardPrefix
      BY <1>3, <2>2, <2>3, BoundsAssumption DEF OpenStandard, TypeOK, ChannelId
    <2>6. /\ channels' \in [Downstream -> [ChannelId -> Channel]]
          /\ miner' \in [Downstream -> [ChannelId -> View]]
          /\ vardiff' \subseteq Downstream \X ChannelId
      <3>1. CASE UNCHANGED <<channels, miner, vardiff>>
        BY <3>1 DEF TypeOK
      <3>2. CASE Insert(d, StandardId(d), "standard", NextPrefixStandard,
                        InitialWork, InitialMinerWork)
        BY <3>2, <2>1, <2>2, <2>3, InitialWorkType, PrefixType, InsertType
      <3> QED BY <1>3, <3>1, <3>2 DEF OpenStandard
    <2> QED BY <1>3, <2>4, <2>5, <2>6
            DEF OpenStandard, TypeOK, connectionVars, templateVars
  <1>4. CASE Exit("TemplateIdNotFound") \/ Exit("ChannelNotCreated")
    BY <1>4, ExitType DEF ExitReason
  <1> QED BY <1>1, <1>2, <1>3, <1>4 DEF HandleOpenStandardMiningChannel

\* handle_open_extended_mining_channel keeps the types.
LEMMA OpenExtendedType ==
  ASSUME TypeOK, NEW d \in Downstream, HandleOpenExtendedMiningChannel(d)
  PROVE  TypeOK'
  <1>1. CASE Exit("DownstreamIdNotFound")
    BY <1>1, ExitType DEF ExitReason
  <1>2. CASE Reply
    BY <1>2, ReplyType DEF Reply
  <1>3. CASE /\ extranonce_prefix_factory_extended < MaxExtendedPrefix
             /\ OpenExtended(d)
    <2>1. channel_id_factory[d] \in ChannelId
      BY <1>3 DEF OpenExtended
    <2>2. /\ channel_id_factory' \in [Downstream -> 1..(MaxChannelId + 1)]
          /\ extranonce_prefix_factory_extended' \in 0..MaxExtendedPrefix
      BY <1>3, <2>1, BoundsAssumption DEF OpenExtended, TypeOK, ChannelId
    <2>3. /\ channels' \in [Downstream -> [ChannelId -> Channel]]
          /\ miner' \in [Downstream -> [ChannelId -> View]]
          /\ vardiff' \subseteq Downstream \X ChannelId
      <3>1. CASE UNCHANGED <<channels, miner, vardiff>>
        BY <3>1 DEF TypeOK
      <3>2. CASE OpenExtendedFails(d) = Running /\ ~UNCHANGED <<channels, miner, vardiff>>
        <4>1. last_future_template # NoTemplate /\ last_new_prev_hash # NoTemplate
          BY <3>2 DEF OpenExtendedFails, Running
        <4> DEFINE work == IF requires_custom_work[d]
                             THEN OnSetNewPrevHashExtended(NoWork, last_new_prev_hash)
                             ELSE InitialWork
                   minerWork == IF requires_custom_work[d] THEN NoWork ELSE InitialMinerWork
        <4>2. work \in Work /\ minerWork \in Work
          BY <4>1, InitialWorkType, NoWorkType
        <4>3. Insert(d, channel_id_factory[d], "extended", NextPrefixExtended, work, minerWork)
          BY <1>3, <3>2 DEF OpenExtended
        <4>4. NextPrefixExtended \in Prefix
          BY <1>3, PrefixType
        <4> HIDE DEF work, minerWork
        <4> QED BY <2>1, <4>2, <4>3, <4>4, InsertType
      <3> QED BY <1>3, <3>1, <3>2 DEF OpenExtended
    <2> QED BY <1>3, <2>2, <2>3
            DEF OpenExtended, TypeOK, connectionVars, templateVars
  <1>4. CASE OpenExtendedFails(d) # Running /\ Exit(OpenExtendedFails(d))
    <2>1. OpenExtendedFails(d) \in ExitReason
      BY <1>4 DEF OpenExtendedFails, ExitReason
    <2> QED BY <1>4, <2>1, ExitType
  <1>5. CASE Exit("ChannelNotCreated")
    BY <1>5, ExitType DEF ExitReason
  <1> QED BY <1>1, <1>2, <1>3, <1>4, <1>5 DEF HandleOpenExtendedMiningChannel

\* The vardiff timer changes targets only, and those of pool and peer together.
LEMMA RunVardiffChanges ==
  ASSUME TypeOK, RunVardiff, NEW d \in Downstream, NEW c \in ChannelId
  PROVE  \/ channels'[d][c] = channels[d][c] /\ miner'[d][c] = miner[d][c]
         \/ \E target \in Target :
              /\ channels'[d][c] = WithTarget(channels[d][c], target)
              /\ \/ miner'[d][c] = WithTarget(miner[d][c], target)
                 \/ miner'[d][c] = miner[d][c] /\ channels[d][c].target = target
  <1>1. PICK retarget \in [vardiff -> Target] :
          /\ channels' = [e \in Downstream |-> [b \in ChannelId |->
               IF <<e, b>> \in vardiff /\ e \in downstream /\ b \in OpenChannels(e)
                 THEN WithTarget(channels[e][b], retarget[<<e, b>>])
                 ELSE channels[e][b]]]
          /\ miner' = [e \in Downstream |-> [b \in ChannelId |->
               IF /\ <<e, b>> \in vardiff /\ e \in downstream /\ b \in OpenChannels(e)
                  /\ retarget[<<e, b>>] # channels[e][b].target
                 THEN WithTarget(miner[e][b], retarget[<<e, b>>])
                 ELSE miner[e][b]]]
    BY DEF RunVardiff
  <1>2. CASE <<d, c>> \in vardiff /\ d \in downstream /\ c \in OpenChannels(d)
    <2>1. retarget[<<d, c>>] \in Target
      BY <1>2
    <2>2. channels'[d][c] = WithTarget(channels[d][c], retarget[<<d, c>>])
      BY <1>1, <1>2
    <2>3. \/ miner'[d][c] = WithTarget(miner[d][c], retarget[<<d, c>>])
          \/ miner'[d][c] = miner[d][c] /\ channels[d][c].target = retarget[<<d, c>>]
      BY <1>1, <1>2
    <2> QED BY <2>1, <2>2, <2>3
  <1>3. CASE ~(<<d, c>> \in vardiff /\ d \in downstream /\ c \in OpenChannels(d))
    BY <1>1, <1>3
  <1> QED BY <1>2, <1>3

\* The vardiff timer keeps the types.
LEMMA RunVardiffType ==
  ASSUME TypeOK, RunVardiff
  PROVE  TypeOK'
  <1>1. ASSUME NEW d \in Downstream, NEW c \in ChannelId
        PROVE  channels'[d][c] \in Channel /\ miner'[d][c] \in View
    <2>1. channels[d][c] \in Channel /\ miner[d][c] \in View
      BY DEF TypeOK
    <2> QED BY <2>1, RunVardiffChanges, ChannelWithTarget, ViewWithTarget
  <1>2. /\ channels' = [d \in Downstream |-> [c \in ChannelId |-> channels'[d][c]]]
        /\ miner' = [d \in Downstream |-> [c \in ChannelId |-> miner'[d][c]]]
    BY DEF RunVardiff
  <1>3. channels' \in [Downstream -> [ChannelId -> Channel]]
    BY <1>1, <1>2
  <1>4. miner' \in [Downstream -> [ChannelId -> View]]
    BY <1>1, <1>2
  <1> QED BY <1>3, <1>4 DEF RunVardiff, TypeOK, connectionVars, factoryVars, templateVars

\* What handle_new_template assigns to one group, channel and view.
LEMMA NewTemplateChanges ==
  ASSUME TypeOK, NEW future \in BOOLEAN, HandleNewTemplate(future), NEW d \in Downstream
  PROVE  /\ group_channels'[d] =
              IF d \in downstream /\ group_channels[d] # NoGroup
                   /\ TakesTemplate(group_channels[d].work, future)
                THEN WithWork(group_channels[d],
                       OnNewTemplate(group_channels[d].work, next_template, future))
                ELSE group_channels[d]
         /\ \A c \in ChannelId : channels'[d][c] =
              IF d \in downstream /\ FollowsTemplate(d, c, future)
                THEN WithWork(channels[d][c],
                       OnNewTemplate(channels[d][c].work, next_template, future))
                ELSE channels[d][c]
         /\ \A c \in ChannelId : miner'[d][c] =
              IF d \in downstream /\ MinerGetsJob(d, c, future)
                THEN WithWork(miner[d][c],
                       OnNewTemplate(miner[d][c].work, next_template, future))
                ELSE miner[d][c]
  BY DEF HandleNewTemplate

\* handle_new_template keeps the types.
LEMMA NewTemplateType ==
  ASSUME TypeOK, NEW future \in BOOLEAN, HandleNewTemplate(future)
  PROVE  TypeOK'
  <1>1. next_template \in Template
    BY DEF HandleNewTemplate
  <1>2. group_channels' \in [Downstream -> Group]
    <2>1. ASSUME NEW d \in Downstream PROVE group_channels'[d] \in Group
      <3>1. group_channels[d] \in Group
        BY DEF TypeOK
      <3> QED BY <1>1, <3>1, NewTemplateChanges, OnNewTemplateWork, GroupWork,
                 GroupWithWork
    <2> QED BY <2>1 DEF HandleNewTemplate
  <1>3. ASSUME NEW d \in Downstream, NEW c \in ChannelId
        PROVE  channels'[d][c] \in Channel /\ miner'[d][c] \in View
    <2>1. channels[d][c] \in Channel /\ miner[d][c] \in View
      BY DEF TypeOK
    <2>2. channels'[d][c] \in Channel
      BY <1>1, <2>1, NewTemplateChanges, OnNewTemplateWork, ChannelFields, ChannelWithWork
    <2>3. miner'[d][c] \in View
      BY <1>1, <2>1, NewTemplateChanges, OnNewTemplateWork, ViewFields, ViewWithWork
    <2> QED BY <2>2, <2>3
  <1>4. /\ channels' \in [Downstream -> [ChannelId -> Channel]]
        /\ miner' \in [Downstream -> [ChannelId -> View]]
    BY <1>3 DEF HandleNewTemplate
  <1>5. /\ next_template' \in 1..(MaxTemplate + 1)
        /\ built_on' \in [Template -> Template \cup {NoTemplate}]
        /\ pending_prev_hash' \in Template \cup {NoTemplate}
        /\ last_future_template' \in Template \cup {NoTemplate}
    BY <1>1, BoundsAssumption DEF HandleNewTemplate, TypeOK, Template
  <1> QED BY <1>2, <1>4, <1>5 DEF HandleNewTemplate, TypeOK, connectionVars, factoryVars

\* The work after a SetNewPrevHash is well typed, activated or not.
LEMMA ActivatedType ==
  ASSUME TypeOK, NEW t \in Template, NEW d \in Downstream
  PROVE  /\ ActivatedGroup(d, t) \in Work
         /\ \A c \in ChannelId : ActivatedWork(d, c, t) \in Work
         /\ \A c \in ChannelId : MinerActivated(d, c, t) \in Work
  <1>1. group_channels[d].work \in Work
    BY DEF TypeOK, Group
  <1>2. \A c \in ChannelId : channels[d][c].work \in Work /\ miner[d][c].work \in Work
    BY DEF TypeOK, Channel, View
  <1>3. ActivatedGroup(d, t) \in Work
    BY <1>1, OnSetNewPrevHashWork DEF ActivatedGroup
  <1>4. \A c \in ChannelId : ActivatedWork(d, c, t) \in Work
    BY <1>2, OnSetNewPrevHashWork, OnSetNewPrevHashExtendedWork DEF ActivatedWork
  <1>5. \A c \in ChannelId : MinerActivated(d, c, t) \in Work
    BY <1>2, <1>3, <1>4, MinerSetNewPrevHashWork DEF MinerActivated
  <1> QED BY <1>3, <1>4, <1>5

\* The step in which HandleSetNewPrevHash does not panic.
SetNewPrevHashDone == HandleSetNewPrevHash /\ cm_exit' = cm_exit

\* What handle_set_new_prev_hash assigns to one group, channel and view.
LEMMA SetNewPrevHashChanges ==
  ASSUME TypeOK, SetNewPrevHashDone, NEW d \in Downstream
  PROVE  /\ group_channels'[d] =
              IF d \in downstream /\ group_channels[d] # NoGroup
                THEN WithWork(group_channels[d], ActivatedGroup(d, pending_prev_hash))
                ELSE group_channels[d]
         /\ \A c \in ChannelId : channels'[d][c] =
              IF d \in downstream /\ Activates(d, c, pending_prev_hash)
                THEN WithWork(channels[d][c], ActivatedWork(d, c, pending_prev_hash))
                ELSE channels[d][c]
         /\ \A c \in ChannelId : miner'[d][c] =
              IF d \in downstream /\ c \in OpenChannels(d)
                THEN WithWork(miner[d][c], MinerActivated(d, c, pending_prev_hash))
                ELSE miner[d][c]
  BY DEF SetNewPrevHashDone, HandleSetNewPrevHash, Exit, Running

\* handle_set_new_prev_hash keeps the types.
LEMMA SetNewPrevHashType ==
  ASSUME TypeOK, HandleSetNewPrevHash
  PROVE  TypeOK'
  <1>1. pending_prev_hash \in Template
    BY DEF HandleSetNewPrevHash, TypeOK
  <1>2. CASE Exit("Panic")
    BY <1>2, ExitType DEF ExitReason
  <1>3. CASE SetNewPrevHashDone
    <2>1. group_channels' \in [Downstream -> Group]
      <3>1. ASSUME NEW d \in Downstream PROVE group_channels'[d] \in Group
        <4>1. group_channels[d] \in Group
          BY DEF TypeOK
        <4> QED BY <1>1, <1>3, <4>1, SetNewPrevHashChanges, ActivatedType, GroupWithWork
      <3> QED BY <1>3, <3>1 DEF SetNewPrevHashDone, HandleSetNewPrevHash, Exit, Running
    <2>2. ASSUME NEW d \in Downstream, NEW c \in ChannelId
          PROVE  channels'[d][c] \in Channel /\ miner'[d][c] \in View
      <3>1. channels[d][c] \in Channel /\ miner[d][c] \in View
        BY DEF TypeOK
      <3>2. channels'[d][c] \in Channel
        BY <1>1, <1>3, <3>1, SetNewPrevHashChanges, ActivatedType, ChannelWithWork
      <3>3. miner'[d][c] \in View
        BY <1>1, <1>3, <3>1, SetNewPrevHashChanges, ActivatedType, ViewFields, ViewWithWork
      <3> QED BY <3>2, <3>3
    <2>3. /\ channels' \in [Downstream -> [ChannelId -> Channel]]
          /\ miner' \in [Downstream -> [ChannelId -> View]]
      BY <1>3, <2>2 DEF SetNewPrevHashDone, HandleSetNewPrevHash, Exit, Running
    <2> QED BY <1>1, <1>3, <2>1, <2>3
            DEF SetNewPrevHashDone, HandleSetNewPrevHash, TypeOK, connectionVars,
                factoryVars, Exit, Running
  <1> QED BY <1>2, <1>3 DEF SetNewPrevHashDone, HandleSetNewPrevHash

\* Every step keeps the types.
LEMMA NextType ==
  ASSUME TypeOK, [Next]_vars
  PROVE  TypeOK'
  <1>1. ASSUME NEW d \in Downstream, AcceptDownstream(d)
        PROVE  TypeOK'
    BY <1>1 DEF AcceptDownstream, TypeOK, channelVars, factoryVars, templateVars
  <1>2. ASSUME NEW d \in Downstream, HandleSetupConnection(d)
        PROVE  TypeOK'
    BY <1>2 DEF HandleSetupConnection, TypeOK, channelVars, factoryVars, templateVars
  <1>3. ASSUME NEW d \in Downstream, RemoveDownstream(d)
        PROVE  TypeOK'
    BY <1>3, ClosedType
       DEF RemoveDownstream, Disconnected, TypeOK, factoryVars, templateVars
  <1>4. ASSUME NEW d \in Downstream, MiningMessage(d)
        PROVE  TypeOK'
    <2>1. ASSUME NEW c \in ChannelId, HandleCloseChannel(d, c)
          PROVE  TypeOK'
      <3>1. CASE Exit("DownstreamNotFound")
        BY <3>1, ExitType DEF ExitReason
      <3>2. CASE ~Exit("DownstreamNotFound")
        <4>1. /\ channels' = [channels EXCEPT ![d][c] = Closed]
              /\ miner' = [miner EXCEPT ![d][c] = NoView]
              /\ vardiff' = vardiff \ {<<d, c>>}
          BY <2>1, <3>2 DEF HandleCloseChannel
        <4>2. /\ channels' \in [Downstream -> [ChannelId -> Channel]]
              /\ miner' \in [Downstream -> [ChannelId -> View]]
              /\ vardiff' \subseteq Downstream \X ChannelId
          BY <4>1, ClosedType DEF TypeOK
        <4> QED BY <2>1, <3>2, <4>2
            DEF HandleCloseChannel, TypeOK, connectionVars, factoryVars, templateVars
      <3> QED BY <3>1, <3>2
    <2>2. ASSUME NEW c \in ChannelId, HandleSubmitSharesStandard(d, c)
          PROVE  TypeOK'
      BY <2>2, ExitType, ReplyType DEF HandleSubmitSharesStandard, Validate, Reply, ExitReason
    <2>3. ASSUME NEW c \in ChannelId, HandleSubmitSharesExtended(d, c)
          PROVE  TypeOK'
      BY <2>3, ExitType, ReplyType DEF HandleSubmitSharesExtended, Validate, Reply, ExitReason
    <2>4. ASSUME NEW c \in ChannelId, HandleUpdateChannel(d, c)
          PROVE  TypeOK'
      <3>1. CASE Exit("DownstreamNotFound") \/ Reply
        BY <3>1, ExitType, ReplyType DEF ExitReason, Reply
      <3>2. CASE ~Exit("DownstreamNotFound") /\ ~Reply
        <4>1. PICK target \in Target :
                /\ channels' = [channels EXCEPT ![d][c] = WithTarget(channels[d][c], target)]
                /\ miner' = [miner EXCEPT ![d][c] = WithTarget(miner[d][c], target)]
          BY <2>4, <3>2 DEF HandleUpdateChannel
        <4>2. channels[d][c] \in Channel /\ miner[d][c] \in View
          BY DEF TypeOK
        <4>3. WithTarget(channels[d][c], target) \in Channel
          BY <4>2, ChannelWithTarget
        <4>4. WithTarget(miner[d][c], target) \in View
          BY <4>2, ViewWithTarget
        <4>5. /\ channels' \in [Downstream -> [ChannelId -> Channel]]
              /\ miner' \in [Downstream -> [ChannelId -> View]]
          BY <4>1, <4>3, <4>4 DEF TypeOK
        <4> QED BY <2>4, <3>2, <4>5
            DEF HandleUpdateChannel, TypeOK, connectionVars, factoryVars, templateVars
      <3> QED BY <3>1, <3>2
    <2>5. ASSUME NEW c \in ChannelId, HandleSetCustomMiningJob(d, c)
          PROVE  TypeOK'
      <3>1. CASE Exit("DownstreamNotFound") \/ Exit("CustomJobRejected") \/ Reply
        BY <3>1, ExitType, ReplyType DEF ExitReason, Reply
      <3>2. CASE ~Exit("DownstreamNotFound") /\ ~Exit("CustomJobRejected") /\ ~Reply
        <4>1. /\ channels' = [channels EXCEPT ![d][c] =
                   WithWork(channels[d][c], OnSetCustomMiningJob(channels[d][c].work))]
              /\ miner' = [miner EXCEPT ![d][c] =
                   WithWork(miner[d][c], OnSetCustomMiningJob(miner[d][c].work))]
          BY <2>5, <3>2 DEF HandleSetCustomMiningJob
        <4>2. channels[d][c] \in Channel /\ miner[d][c] \in View
          BY DEF TypeOK
        <4>3. WithWork(channels[d][c], OnSetCustomMiningJob(channels[d][c].work)) \in Channel
          BY <4>2, OnSetCustomMiningJobWork, ChannelFields, ChannelWithWork
        <4>4. WithWork(miner[d][c], OnSetCustomMiningJob(miner[d][c].work)) \in View
          BY <4>2, OnSetCustomMiningJobWork, ViewFields, ViewWithWork
        <4>5. /\ channels' \in [Downstream -> [ChannelId -> Channel]]
              /\ miner' \in [Downstream -> [ChannelId -> View]]
          BY <4>1, <4>3, <4>4 DEF TypeOK
        <4> QED BY <2>5, <3>2, <4>5
            DEF HandleSetCustomMiningJob, TypeOK, connectionVars, factoryVars, templateVars
      <3> QED BY <3>1, <3>2
    <2> QED BY <1>4, <2>1, <2>2, <2>3, <2>4, <2>5, OpenStandardType, OpenExtendedType
            DEF MiningMessage
  <1>5. CASE ShutdownAll
    BY <1>5, ExitType DEF ShutdownAll, ExitReason
  <1>6. CASE UNCHANGED vars
    BY <1>6, ReplyType
  <1> QED BY <1>1, <1>2, <1>3, <1>4, <1>5, <1>6, RunVardiffType, NewTemplateType,
             SetNewPrevHashType DEF Next

\* TypeOK is an invariant of the channel manager whatever the number of
\* connections and however long the pool runs: no handler stores a value of
\* another shape, and both extranonce counters stop at their last value.
THEOREM TypeCorrect == Spec => []TypeOK
  <1>1. Init => TypeOK
    BY InitType
  <1>2. TypeOK /\ [Next]_vars => TypeOK'
    BY NextType
  <1> QED BY <1>1, <1>2, PTL DEF Spec

-----------------------------------------------------------------------------
(* The inductive invariant. TipAgreement and WorkIsOnTip are not inductive by *)
(* themselves: that a SetNewPrevHash activates every channel rests on what    *)
(* each channel's future jobs are while one is due, and that rests on opens   *)
(* being impossible in that window.                                           *)

\* The future job every channel holds: that of the template whose prev hash is due.
Pending == IF pending_prev_hash = NoTemplate THEN {} ELSE {pending_prev_hash}

\* The template stream: the last future template is the last one activated,
\* unless its prev hash is due; future templates extend the tip they announce.
StreamInv ==
  /\ last_new_prev_hash < next_template
  /\ last_new_prev_hash # NoTemplate => built_on[last_new_prev_hash] = last_new_prev_hash
  /\ pending_prev_hash = NoTemplate => last_future_template = last_new_prev_hash
  /\ pending_prev_hash # NoTemplate =>
       /\ last_future_template = pending_prev_hash
       /\ last_new_prev_hash < pending_prev_hash
       /\ pending_prev_hash < next_template
       /\ built_on[pending_prev_hash] = pending_prev_hash

\* Only a connection that is in the map and past SetupConnection has channels.
ObjectsInv ==
  \A d \in Downstream :
    /\ phase[d] = "absent" => d \notin downstream
    /\ d \notin downstream \/ phase[d] # "setup" =>
         group_channels[d] = NoGroup /\ \A c \in ChannelId : channels[d][c].kind = "none"

GroupInv ==
  cm_exit = Running =>
    \A d \in downstream : group_channels[d] # NoGroup =>
      /\ last_new_prev_hash # NoTemplate
      /\ group_channels[d].work.tip = last_new_prev_hash
      /\ group_channels[d].work.future = Pending

ChannelWork(d, c) ==
  LET w == channels[d][c].work
  IN  /\ last_new_prev_hash # NoTemplate
      /\ w.tip = last_new_prev_hash
      /\ w.active \in Template =>
           w.active < next_template /\ built_on[w.active] = last_new_prev_hash
      /\ w.future \subseteq Pending
      /\ w.future # Pending => w.active \notin Template
      /\ channels[d][c].kind = "standard" \/ ~requires_custom_work[d] => w.future = Pending

ChannelInv ==
  cm_exit = Running => \A d \in downstream : \A c \in OpenChannels(d) : ChannelWork(d, c)

\* Prefixes come from below the two counters.
PrefixInv ==
  \A d \in Downstream, c \in ChannelId :
    /\ channels[d][c].kind = "standard" =>
         /\ channels[d][c].prefix.range_1 = 0
         /\ channels[d][c].prefix.range_2 \in 1..extranonce_prefix_factory_standard
    /\ channels[d][c].kind = "extended" =>
         /\ channels[d][c].prefix.range_2 = 0
         /\ channels[d][c].prefix.range_1 \in 1..extranonce_prefix_factory_extended

IInv ==
  /\ TypeOK
  /\ StreamInv
  /\ ObjectsInv
  /\ VardiffMatchesChannels
  /\ GroupInv
  /\ ChannelInv
  /\ MinerAgreement
  /\ PrefixInv
  /\ SearchSpacesDisjoint
  /\ ExitsAreExplained

\* The inductive invariant holds initially.
LEMMA InitInv == Init => IInv
  <1> SUFFICES ASSUME Init PROVE IInv
    OBVIOUS
  <1>1. TypeOK
    BY InitType
  <1>2. \A d \in Downstream : \A c \in ChannelId : channels[d][c].kind = "none"
    BY ClosedType DEF Init
  <1>3. \A d \in Downstream : OpenChannels(d) = {}
    BY <1>2 DEF OpenChannels, OfKind
  <1>4. StreamInv /\ ObjectsInv
    BY <1>2 DEF Init, StreamInv, ObjectsInv, NoTemplate
  <1>5. VardiffMatchesChannels /\ GroupInv /\ ChannelInv /\ MinerAgreement
    BY <1>3 DEF Init, VardiffMatchesChannels, GroupInv, ChannelInv, MinerAgreement
  <1>6. PrefixInv /\ SearchSpacesDisjoint
    BY <1>2, <1>3 DEF PrefixInv, SearchSpacesDisjoint
  <1>7. ExitsAreExplained
    BY DEF Init, ExitsAreExplained, Running
  <1> QED BY <1>1, <1>4, <1>5, <1>6, <1>7 DEF IInv

\* A step that ends the loop keeps every part but the account of why it ended.
LEMMA ExitInv ==
  ASSUME IInv, NEW reason \in ExitReason, Exit(reason), ExitsAreExplained'
  PROVE  IInv'
  <1>1. cm_exit' # Running
    BY DEF Exit, ExitReason, Running
  <1>2. TypeOK'
    BY ExitType DEF IInv
  <1>3. UNCHANGED <<connectionVars, downstream, channelVars, factoryVars, templateVars>>
    BY DEF Exit
  <1>4. StreamInv' /\ ObjectsInv' /\ PrefixInv' /\ SearchSpacesDisjoint'
    BY <1>3 DEF IInv, StreamInv, ObjectsInv, PrefixInv, SearchSpacesDisjoint, Overlap,
       OpenChannels, OfKind, connectionVars, channelVars, factoryVars, templateVars
  <1>5. VardiffMatchesChannels' /\ GroupInv' /\ ChannelInv' /\ MinerAgreement'
    BY <1>1 DEF VardiffMatchesChannels, GroupInv, ChannelInv, MinerAgreement
  <1> QED BY <1>2, <1>4, <1>5 DEF IInv

\* What a channel's work is measured by is left alone by most handlers.
LEMMA ChannelWorkKept ==
  ASSUME NEW d, NEW c, ChannelWork(d, c),
         channels'[d][c].work = channels[d][c].work,
         channels'[d][c].kind = channels[d][c].kind,
         requires_custom_work'[d] = requires_custom_work[d],
         UNCHANGED <<last_new_prev_hash, next_template, built_on, pending_prev_hash>>
  PROVE  ChannelWork(d, c)'
  BY DEF ChannelWork, Pending

\* It survives a stuttering step, which a mere answer is too.
LEMMA UnchangedInv ==
  ASSUME IInv, UNCHANGED vars
  PROVE  IInv'
  <1> USE DEF IInv, vars, connectionVars, channelVars, factoryVars, templateVars
  <1>1. TypeOK' /\ StreamInv' /\ ObjectsInv' /\ PrefixInv' /\ ExitsAreExplained'
    BY ReplyType DEF StreamInv, ObjectsInv, PrefixInv, ExitsAreExplained
  <1>2. \A d \in Downstream : OpenChannels(d)' = OpenChannels(d)
    BY DEF OpenChannels, OfKind
  <1>3. VardiffMatchesChannels' /\ MinerAgreement' /\ SearchSpacesDisjoint'
    BY <1>2 DEF VardiffMatchesChannels, MinerAgreement, SearchSpacesDisjoint, TypeOK
  <1>4. GroupInv'
    BY DEF GroupInv, Pending
  <1>5. ChannelInv'
    BY <1>2, ChannelWorkKept DEF ChannelInv, TypeOK
  <1> QED BY <1>1, <1>3, <1>4, <1>5

\* Accepting a connection preserves it: the new entry has no channels yet.
LEMMA AcceptInv ==
  ASSUME IInv, NEW d \in Downstream, AcceptDownstream(d), TypeOK'
  PROVE  IInv'
  <1> USE DEF IInv, AcceptDownstream, channelVars, factoryVars, templateVars
  <1>1. group_channels[d] = NoGroup /\ \A c \in ChannelId : channels[d][c].kind = "none"
    BY DEF ObjectsInv
  <1>2. OpenChannels(d) = {}
    BY <1>1 DEF OpenChannels, OfKind
  <1>3. \A e \in Downstream : OpenChannels(e)' = OpenChannels(e)
    BY DEF OpenChannels, OfKind
  <1>4. StreamInv'
    BY DEF StreamInv
  <1>5. ObjectsInv'
    BY <1>1 DEF ObjectsInv, TypeOK
  <1>6. VardiffMatchesChannels'
    BY <1>2, <1>3 DEF VardiffMatchesChannels
  <1>7. GroupInv' /\ ChannelInv' /\ MinerAgreement'
    <2>1. GroupInv'
      BY <1>1 DEF GroupInv, Pending, TypeOK
    <2>2. ChannelInv'
      BY <1>2, <1>3, ChannelWorkKept DEF ChannelInv, TypeOK
    <2>3. MinerAgreement'
      BY <1>2, <1>3 DEF MinerAgreement, TypeOK
    <2> QED BY <2>1, <2>2, <2>3
  <1>8. PrefixInv' /\ SearchSpacesDisjoint'
    BY <1>3 DEF PrefixInv, SearchSpacesDisjoint
  <1>9. ExitsAreExplained'
    BY DEF ExitsAreExplained, TypeOK
  <1> QED BY <1>4, <1>5, <1>6, <1>7, <1>8, <1>9

\* SetupConnection preserves it: the flags are set before any channel is open.
LEMMA SetupInv ==
  ASSUME IInv, NEW d \in Downstream, HandleSetupConnection(d), TypeOK'
  PROVE  IInv'
  <1> USE DEF IInv, HandleSetupConnection, channelVars, factoryVars, templateVars
  <1>1. group_channels[d] = NoGroup /\ \A c \in ChannelId : channels[d][c].kind = "none"
    BY DEF ObjectsInv
  <1>2. OpenChannels(d) = {}
    BY <1>1 DEF OpenChannels, OfKind
  <1>3. \A e \in Downstream : OpenChannels(e)' = OpenChannels(e)
    BY DEF OpenChannels, OfKind
  <1>4. \A e \in Downstream : e # d =>
          /\ requires_custom_work'[e] = requires_custom_work[e]
          /\ phase'[e] = phase[e]
    BY DEF TypeOK
  <1>5. StreamInv'
    BY DEF StreamInv
  <1>6. ObjectsInv'
    BY <1>1, <1>4 DEF ObjectsInv, TypeOK
  <1>7. VardiffMatchesChannels'
    BY <1>2, <1>3 DEF VardiffMatchesChannels
  <1>8. GroupInv' /\ ChannelInv' /\ MinerAgreement'
    <2>1. GroupInv'
      BY DEF GroupInv, Pending
    <2>2. ChannelInv'
      <3> SUFFICES ASSUME cm_exit' = Running, NEW e \in downstream',
                          NEW c \in OpenChannels(e)'
                   PROVE  ChannelWork(e, c)'
        BY DEF ChannelInv
      <3>1. e \in Downstream /\ e # d /\ c \in OpenChannels(e)
        BY <1>2, <1>3 DEF TypeOK
      <3>2. ChannelWork(e, c)
        BY <3>1 DEF ChannelInv
      <3> QED BY <3>1, <3>2, <1>4, ChannelWorkKept
    <2>3. MinerAgreement'
      BY <1>2, <1>3, <1>4 DEF MinerAgreement, TypeOK
    <2> QED BY <2>1, <2>2, <2>3
  <1>9. PrefixInv' /\ SearchSpacesDisjoint'
    BY <1>3 DEF PrefixInv, SearchSpacesDisjoint
  <1>10. ExitsAreExplained'
    BY <1>4 DEF ExitsAreExplained, TypeOK
  <1> QED BY <1>5, <1>6, <1>7, <1>8, <1>9, <1>10

\* Removing a connection preserves it: channels and vardiff entries go together.
LEMMA RemoveInv ==
  ASSUME IInv, NEW d \in Downstream, RemoveDownstream(d), TypeOK'
  PROVE  IInv'
  <1> USE DEF IInv, RemoveDownstream, connectionVars, factoryVars, templateVars
  <1>1. /\ group_channels'[d] = NoGroup
        /\ \A c \in ChannelId : channels'[d][c].kind = "none"
    BY ClosedType DEF TypeOK
  <1>2. OpenChannels(d)' = {}
    BY <1>1 DEF OpenChannels, OfKind
  <1>3. \A e \in Downstream : e # d =>
          /\ channels'[e] = channels[e] /\ miner'[e] = miner[e]
          /\ group_channels'[e] = group_channels[e]
          /\ phase'[e] = phase[e]
          /\ e \in downstream' <=> e \in downstream
    BY DEF Disconnected, TypeOK
  <1>4. \A e \in Downstream : e # d => OpenChannels(e)' = OpenChannels(e)
    BY <1>3 DEF OpenChannels, OfKind
  <1>5. d \notin downstream'
    OBVIOUS
  <1>6. StreamInv'
    BY DEF StreamInv
  <1>7. ObjectsInv'
    BY <1>1, <1>3, <1>5 DEF ObjectsInv, Disconnected, TypeOK
  <1>8. VardiffMatchesChannels'
    <2>1. ASSUME NEW e \in Downstream, NEW c \in ChannelId
          PROVE  <<e, c>> \in vardiff' <=> e \in downstream' /\ c \in OpenChannels(e)'
      <3>1. CASE e = d
        BY <3>1, <1>5
      <3>2. CASE e # d
        BY <3>2, <1>3, <1>4 DEF VardiffMatchesChannels
      <3> QED BY <3>1, <3>2
    <2>2. vardiff' \subseteq Downstream \X ChannelId
      BY DEF TypeOK
    <2> QED BY <2>1, <2>2 DEF VardiffMatchesChannels
  <1>9. GroupInv' /\ ChannelInv' /\ MinerAgreement'
    <2>1. GroupInv'
      BY <1>3, <1>5 DEF GroupInv, Pending, TypeOK
    <2>2. ChannelInv'
      <3> SUFFICES ASSUME cm_exit' = Running, NEW e \in downstream',
                          NEW c \in OpenChannels(e)'
                   PROVE  ChannelWork(e, c)'
        BY DEF ChannelInv
      <3>1. e \in Downstream /\ e \in downstream /\ e # d /\ c \in OpenChannels(e)
        BY <1>4, <1>5 DEF TypeOK
      <3>2. ChannelWork(e, c)
        BY <3>1 DEF ChannelInv
      <3> QED BY <3>1, <3>2, <1>3, ChannelWorkKept
    <2>3. MinerAgreement'
      BY <1>3, <1>4, <1>5 DEF MinerAgreement, TypeOK
    <2> QED BY <2>1, <2>2, <2>3
  <1>10. PrefixInv'
    BY <1>1, <1>3 DEF PrefixInv, TypeOK
  <1>11. SearchSpacesDisjoint'
    BY <1>2, <1>3, <1>4 DEF SearchSpacesDisjoint, TypeOK
  <1>12. ExitsAreExplained'
    BY DEF ExitsAreExplained, Running
  <1> QED BY <1>6, <1>7, <1>8, <1>9, <1>10, <1>11, <1>12

\* CloseChannel preserves it: channel and vardiff entry go together.
LEMMA CloseInv ==
  ASSUME IInv, NEW d \in Downstream, NEW c \in ChannelId, HandleCloseChannel(d, c), TypeOK'
  PROVE  IInv'
  <1>1. CASE d \notin downstream /\ Exit("DownstreamNotFound")
    <2>1. ExitsAreExplained'
      BY <1>1 DEF HandleCloseChannel, Receives, Exit, ExitsAreExplained, connectionVars
    <2> QED BY <1>1, <2>1, ExitInv DEF ExitReason
  <1>2. CASE /\ d \in downstream
             /\ channels' = [channels EXCEPT ![d][c] = Closed]
             /\ miner' = [miner EXCEPT ![d][c] = NoView]
             /\ vardiff' = vardiff \ {<<d, c>>}
             /\ UNCHANGED <<connectionVars, downstream, channel_id_factory,
                            group_channels, factoryVars, templateVars, cm_exit>>
    <2> USE DEF IInv, connectionVars, factoryVars, templateVars
    <2>1. channels'[d][c].kind = "none"
      BY <1>2, ClosedType DEF TypeOK
    <2>2. \A e \in Downstream : \A b \in ChannelId : e # d \/ b # c =>
            channels'[e][b] = channels[e][b] /\ miner'[e][b] = miner[e][b]
      BY <1>2 DEF TypeOK
    <2>3. \A e \in Downstream : \A b \in ChannelId :
            b \in OpenChannels(e)' <=> b \in OpenChannels(e) /\ ~(e = d /\ b = c)
      BY <2>1, <2>2 DEF OpenChannels, OfKind
    <2>4. StreamInv' /\ GroupInv'
      BY <1>2 DEF StreamInv, GroupInv, Pending
    <2>5. ObjectsInv'
      BY <1>2, <2>1, <2>2 DEF ObjectsInv
    <2>6. VardiffMatchesChannels'
      <3>1. ASSUME cm_exit = Running, NEW e \in Downstream, NEW b \in ChannelId
            PROVE  <<e, b>> \in vardiff' <=> e \in downstream /\ b \in OpenChannels(e)'
        BY <1>2, <2>3, <3>1 DEF VardiffMatchesChannels
      <3>2. vardiff' \subseteq Downstream \X ChannelId
        BY DEF TypeOK
      <3> QED BY <1>2, <3>1, <3>2 DEF VardiffMatchesChannels
    <2>7. ChannelInv'
      <3> SUFFICES ASSUME cm_exit' = Running, NEW e \in downstream',
                          NEW b \in OpenChannels(e)'
                   PROVE  ChannelWork(e, b)'
        BY DEF ChannelInv
      <3>1. e \in Downstream /\ e \in downstream /\ b \in ChannelId
        BY <1>2 DEF TypeOK, OpenChannels, OfKind
      <3>2. b \in OpenChannels(e) /\ channels'[e][b] = channels[e][b]
        BY <3>1, <2>2, <2>3
      <3>3. ChannelWork(e, b)
        BY <1>2, <3>1, <3>2 DEF ChannelInv
      <3> QED BY <1>2, <3>2, <3>3, ChannelWorkKept
    <2>8. MinerAgreement'
      BY <1>2, <2>2, <2>3 DEF MinerAgreement, TypeOK, OpenChannels, OfKind
    <2>9. PrefixInv'
      BY <1>2, <2>1, <2>2 DEF PrefixInv
    <2>10. SearchSpacesDisjoint'
      <3> SUFFICES ASSUME NEW d1 \in Downstream, NEW d2 \in Downstream,
                          NEW c1 \in OpenChannels(d1)', NEW c2 \in OpenChannels(d2)',
                          Overlap(channels'[d1][c1].prefix, channels'[d2][c2].prefix)
                   PROVE  d1 = d2 /\ c1 = c2
        BY DEF SearchSpacesDisjoint, Overlap
      <3>1. c1 \in ChannelId /\ c2 \in ChannelId
        BY DEF OpenChannels, OfKind
      <3> QED BY <3>1, <2>2, <2>3 DEF SearchSpacesDisjoint
    <2>11. ExitsAreExplained'
      BY <1>2 DEF ExitsAreExplained, HandleCloseChannel, Receives, Running
    <2> QED BY <2>4, <2>5, <2>6, <2>7, <2>8, <2>9, <2>10, <2>11
  <1> QED BY <1>1, <1>2 DEF HandleCloseChannel

\* A new channel, of either kind, with the work its downstream is to have.
LEMMA InsertInv ==
  ASSUME IInv, TypeOK', cm_exit = Running, NEW d \in downstream, NEW c \in ChannelId,
         NEW kind \in {"standard", "extended"}, NEW prefix, NEW work, NEW minerWork,
         Insert(d, c, kind, prefix, work, minerWork),
         UNCHANGED <<connectionVars, downstream, templateVars, cm_exit>>,
         pending_prev_hash = NoTemplate \/ (kind = "extended" /\ requires_custom_work[d]),
         last_new_prev_hash # NoTemplate,
         work.future = {}, work.tip = last_new_prev_hash,
         work.active \in Template => work.active = last_new_prev_hash,
         pending_prev_hash = NoTemplate \/ work.active \notin Template,
         kind = "standard" \/ ~requires_custom_work[d] => minerWork = work,
         kind = "standard" =>
           /\ prefix.range_1 = 0
           /\ prefix.range_2 = extranonce_prefix_factory_standard + 1
           /\ extranonce_prefix_factory_standard' = extranonce_prefix_factory_standard + 1
           /\ extranonce_prefix_factory_extended' = extranonce_prefix_factory_extended,
         kind = "extended" =>
           /\ prefix.range_1 = extranonce_prefix_factory_extended + 1
           /\ prefix.range_2 = 0
           /\ extranonce_prefix_factory_standard' = extranonce_prefix_factory_standard
           /\ extranonce_prefix_factory_extended' = extranonce_prefix_factory_extended + 1
  PROVE  /\ VardiffMatchesChannels'
         /\ ChannelInv'
         /\ MinerAgreement'
         /\ PrefixInv'
         /\ SearchSpacesDisjoint'
  <1> USE DEF IInv, connectionVars, templateVars
  <1>1. d \in Downstream
    BY DEF TypeOK
  <1>2. PICK target \in Target :
          /\ channels' = [channels EXCEPT ![d][c] =
               [kind |-> kind, prefix |-> prefix, work |-> work, target |-> target]]
          /\ miner' = [miner EXCEPT ![d][c] = [work |-> minerWork, target |-> target]]
    BY DEF Insert
  <1>3. /\ channels'[d][c] =
             [kind |-> kind, prefix |-> prefix, work |-> work, target |-> target]
        /\ miner'[d][c] = [work |-> minerWork, target |-> target]
    BY <1>1, <1>2 DEF TypeOK
  <1>4. /\ channels'[d][c].kind = kind /\ channels'[d][c].prefix = prefix
        /\ channels'[d][c].work = work /\ channels'[d][c].target = target
        /\ miner'[d][c].work = minerWork /\ miner'[d][c].target = target
    BY <1>3
  <1>5. \A e \in Downstream : \A b \in ChannelId : e # d \/ b # c =>
          channels'[e][b] = channels[e][b] /\ miner'[e][b] = miner[e][b]
    BY <1>1, <1>2 DEF TypeOK
  <1>6. \A e \in Downstream : \A b \in ChannelId :
          b \in OpenChannels(e)' <=> b \in OpenChannels(e) \/ (e = d /\ b = c)
    BY <1>4, <1>5 DEF OpenChannels, OfKind
  <1>7. VardiffMatchesChannels'
    <2>1. ASSUME NEW e \in Downstream, NEW b \in ChannelId
          PROVE  <<e, b>> \in vardiff' <=> e \in downstream' /\ b \in OpenChannels(e)'
      BY <1>6 DEF VardiffMatchesChannels, Insert
    <2>2. vardiff' \subseteq Downstream \X ChannelId
      BY DEF TypeOK
    <2> QED BY <2>1, <2>2 DEF VardiffMatchesChannels
  <1>8. ChannelInv'
    <2> SUFFICES ASSUME NEW e \in downstream', NEW b \in OpenChannels(e)'
                 PROVE  ChannelWork(e, b)'
      BY DEF ChannelInv
    <2>1. e \in Downstream /\ e \in downstream /\ b \in ChannelId
      BY DEF TypeOK, OpenChannels, OfKind
    <2>2. CASE e = d /\ b = c
      <3>1. /\ channels'[e][b].work = work
            /\ channels'[e][b].kind = kind
        BY <1>4, <2>2
      <3>2. built_on[last_new_prev_hash] = last_new_prev_hash
            /\ last_new_prev_hash < next_template
        BY DEF StreamInv
      <3> QED BY <2>2, <3>1, <3>2 DEF ChannelWork, Pending
    <2>3. CASE ~(e = d /\ b = c)
      <3>1. b \in OpenChannels(e) /\ channels'[e][b] = channels[e][b]
        BY <1>5, <1>6, <2>1, <2>3
      <3>2. ChannelWork(e, b)
        BY <2>1, <3>1 DEF ChannelInv
      <3> QED BY <3>1, <3>2, ChannelWorkKept
    <2> QED BY <2>2, <2>3
  <1>9. MinerAgreement'
    <2> SUFFICES ASSUME NEW e \in downstream', NEW b \in OpenChannels(e)'
                 PROVE  /\ miner'[e][b].target = channels'[e][b].target
                        /\ channels'[e][b].kind = "standard" \/ ~requires_custom_work'[e]
                             => miner'[e][b].work = channels'[e][b].work
      BY DEF MinerAgreement
    <2>1. e \in Downstream /\ e \in downstream /\ b \in ChannelId
      BY DEF TypeOK, OpenChannels, OfKind
    <2>2. CASE e = d /\ b = c
      BY <1>4, <2>2
    <2>3. CASE ~(e = d /\ b = c)
      BY <1>5, <1>6, <2>1, <2>3 DEF MinerAgreement
    <2> QED BY <2>2, <2>3
  <1>10. /\ extranonce_prefix_factory_standard \in Nat
         /\ extranonce_prefix_factory_extended \in Nat
    BY BoundsAssumption DEF TypeOK
  <1>11. PrefixInv'
    <2> SUFFICES ASSUME NEW e \in Downstream, NEW b \in ChannelId
                 PROVE  /\ channels'[e][b].kind = "standard" =>
                             /\ channels'[e][b].prefix.range_1 = 0
                             /\ channels'[e][b].prefix.range_2 \in
                                  1..extranonce_prefix_factory_standard'
                        /\ channels'[e][b].kind = "extended" =>
                             /\ channels'[e][b].prefix.range_2 = 0
                             /\ channels'[e][b].prefix.range_1 \in
                                  1..extranonce_prefix_factory_extended'
      BY DEF PrefixInv
    <2>1. CASE e = d /\ b = c
      BY <1>4, <1>10, <2>1
    <2>2. CASE ~(e = d /\ b = c)
      <3>1. channels'[e][b] = channels[e][b]
        BY <1>5, <2>2
      <3> QED BY <3>1, <1>10 DEF PrefixInv
    <2> QED BY <2>1, <2>2
  <1>12. SearchSpacesDisjoint'
    \* The new prefix overlaps no other: it lies above its counter.
    <2>1. ASSUME NEW e \in Downstream, NEW b \in OpenChannels(e)', ~(e = d /\ b = c)
          PROVE  /\ ~Overlap(prefix, channels'[e][b].prefix)
                 /\ ~Overlap(channels'[e][b].prefix, prefix)
      <3>1. b \in ChannelId
        BY DEF OpenChannels, OfKind
      <3>2. channels'[e][b] = channels[e][b] /\ b \in OpenChannels(e)
        BY <1>5, <1>6, <2>1, <3>1
      <3>3. CASE channels[e][b].kind = "standard"
        BY <1>1, <1>10, <3>1, <3>2, <3>3 DEF PrefixInv, Overlap
      <3>4. CASE channels[e][b].kind = "extended"
        BY <1>1, <1>10, <3>1, <3>2, <3>4 DEF PrefixInv, Overlap
      <3> QED BY <3>2, <3>3, <3>4 DEF OpenChannels, OfKind
    <2> SUFFICES ASSUME NEW d1 \in Downstream, NEW d2 \in Downstream,
                        NEW c1 \in OpenChannels(d1)', NEW c2 \in OpenChannels(d2)',
                        Overlap(channels'[d1][c1].prefix, channels'[d2][c2].prefix)
                 PROVE  d1 = d2 /\ c1 = c2
      BY DEF SearchSpacesDisjoint, Overlap
    <2>2. c1 \in ChannelId /\ c2 \in ChannelId
      BY DEF OpenChannels, OfKind
    <2>3. CASE d1 = d /\ c1 = c
      BY <1>4, <2>1, <2>3
    <2>4. CASE d2 = d /\ c2 = c
      BY <1>4, <2>1, <2>4
    <2>5. CASE ~(d1 = d /\ c1 = c) /\ ~(d2 = d /\ c2 = c)
      BY <1>5, <1>6, <2>2, <2>5 DEF SearchSpacesDisjoint
    <2> QED BY <2>3, <2>4, <2>5
  <1> QED BY <1>7, <1>8, <1>9, <1>11, <1>12

\* Opening a standard channel preserves it: the prefix is fresh and the work is on the last tip.
LEMMA OpenStandardInv ==
  ASSUME IInv, NEW d \in Downstream, HandleOpenStandardMiningChannel(d), TypeOK'
  PROVE  IInv'
  <1> USE DEF IInv
  <1>1. cm_exit = Running /\ phase[d] = "setup"
    BY DEF HandleOpenStandardMiningChannel, Receives
  <1>2. last_future_template # NoTemplate /\ last_new_prev_hash # NoTemplate =>
          (LastTemplateActivates <=> pending_prev_hash = NoTemplate)
    BY InitialWorkType DEF StreamInv, TypeOK, Template, NoTemplate
  <1>3. CASE OpenStandardFails(d) # Running /\ Exit(OpenStandardFails(d))
    <2>1. OpenStandardFails(d) \in ExitReason
      BY <1>3 DEF OpenStandardFails, ExitReason
    <2>2. /\ cm_exit' = OpenStandardFails(d)
          /\ UNCHANGED <<connectionVars, downstream, factoryVars, templateVars>>
      BY <1>3 DEF Exit
    <2>3. ExitsAreExplained'
      BY <1>1, <1>2, <1>3, <2>2
         DEF OpenStandardFails, ExitsAreExplained, StreamInv, connectionVars, factoryVars,
             templateVars
    <2> QED BY <1>3, <2>1, <2>3, ExitInv
  <1>4. CASE Reply
    BY <1>4, UnchangedInv DEF Reply
  <1>5. CASE OpenStandardFails(d) = Running /\ ~requires_custom_work[d] /\ OpenStandard(d)
    <2> USE DEF connectionVars, templateVars, factoryVars
    <2>1. /\ d \in downstream
          /\ last_future_template # NoTemplate
          /\ last_new_prev_hash # NoTemplate
          /\ NeedsGroup(d) => LastTemplateActivates
      BY <1>5 DEF OpenStandardFails, Running
    <2>2. UNCHANGED <<connectionVars, downstream, extranonce_prefix_factory_extended,
                      templateVars, cm_exit>>
      BY <1>5 DEF OpenStandard
    <2>3. InitialWork = [future |-> {}, active |-> last_new_prev_hash,
                         tip |-> last_new_prev_hash]
      BY DEF InitialWork, OnSetNewPrevHash
    <2>4. StreamInv'
      BY <2>2 DEF StreamInv
    <2>5. \A e \in Downstream :
            \/ group_channels'[e] = group_channels[e]
            \/ /\ e = d /\ NeedsGroup(d)
               /\ group_channels'[e] = [id |-> channel_id_factory[d], work |-> InitialWork]
      BY <1>5 DEF OpenStandard, TypeOK
    <2>6. GroupInv'
      <3> SUFFICES ASSUME NEW e \in downstream', group_channels'[e] # NoGroup
                   PROVE  /\ last_new_prev_hash # NoTemplate
                          /\ group_channels'[e].work.tip = last_new_prev_hash
                          /\ group_channels'[e].work.future = Pending
        BY <2>2 DEF GroupInv, Pending
      <3>1. e \in downstream /\ e \in Downstream
        BY <2>2 DEF TypeOK
      <3>2. CASE group_channels'[e] = group_channels[e]
        BY <1>1, <3>1, <3>2 DEF GroupInv
      <3>3. CASE /\ NeedsGroup(d)
                 /\ group_channels'[e] = [id |-> channel_id_factory[d], work |-> InitialWork]
        BY <1>2, <2>1, <2>3, <3>3 DEF Pending
      <3> QED BY <2>5, <3>1, <3>2, <3>3
    <2>7. ExitsAreExplained'
      BY <1>1, <2>2 DEF ExitsAreExplained, Running
    <2>8. CASE UNCHANGED <<channels, miner, vardiff>>
      <3>1. \A e \in Downstream : OpenChannels(e)' = OpenChannels(e)
        BY <2>8 DEF OpenChannels, OfKind
      <3>2. ObjectsInv'
        BY <1>1, <2>1, <2>2, <2>5, <2>8 DEF ObjectsInv
      <3>3. VardiffMatchesChannels' /\ MinerAgreement' /\ SearchSpacesDisjoint'
        BY <2>2, <2>8, <3>1
           DEF VardiffMatchesChannels, MinerAgreement, SearchSpacesDisjoint, TypeOK
      <3>4. ChannelInv'
        BY <2>2, <2>8, <3>1, ChannelWorkKept DEF ChannelInv, TypeOK
      <3>5. PrefixInv'
        <4>1. extranonce_prefix_factory_standard \in Nat
              /\ extranonce_prefix_factory_standard' = extranonce_prefix_factory_standard + 1
          BY <1>5, BoundsAssumption DEF OpenStandard, TypeOK
        <4> QED BY <2>2, <2>8, <4>1 DEF PrefixInv
      <3> QED BY <2>4, <2>6, <2>7, <3>2, <3>3, <3>4, <3>5
    <2>9. CASE /\ LastTemplateActivates
               /\ Insert(d, StandardId(d), "standard", NextPrefixStandard,
                         InitialWork, InitialMinerWork)
      <3>1. pending_prev_hash = NoTemplate /\ last_future_template = last_new_prev_hash
        BY <1>2, <2>1, <2>9 DEF StreamInv
      <3>2. InitialMinerWork = InitialWork
        <4>1. last_new_prev_hash \in Template
          BY <2>1 DEF TypeOK
        <4>2. /\ OnNewTemplate(NoWork, last_new_prev_hash, TRUE) \in Work
              /\ last_new_prev_hash \in OnNewTemplate(NoWork, last_new_prev_hash, TRUE).future
          BY <4>1, NoWorkType, OnNewTemplateWork
        <4> QED BY <3>1, <4>1, <4>2, MinerSetNewPrevHashWork DEF InitialMinerWork, InitialWork
      <3>3. StandardId(d) \in ChannelId
        BY <1>5 DEF OpenStandard
      <3>4. /\ NextPrefixStandard.range_1 = 0
            /\ NextPrefixStandard.range_2 = extranonce_prefix_factory_standard + 1
            /\ extranonce_prefix_factory_standard' = extranonce_prefix_factory_standard + 1
        BY <1>5 DEF NextPrefixStandard, OpenStandard
      <3>5. /\ VardiffMatchesChannels' /\ ChannelInv' /\ MinerAgreement'
            /\ PrefixInv' /\ SearchSpacesDisjoint'
        BY <1>1, <2>1, <2>2, <2>3, <2>9, <3>1, <3>2, <3>3, <3>4, InsertInv
      <3>6. ObjectsInv'
        BY <1>1, <2>1, <2>2, <2>5, <2>9 DEF ObjectsInv, Insert, TypeOK
      <3> QED BY <2>4, <2>6, <2>7, <3>5, <3>6
    <2> QED BY <1>5, <2>8, <2>9 DEF OpenStandard
  <1>6. CASE /\ OpenStandardFails(d) = Running /\ ~requires_custom_work[d]
             /\ ~LastTemplateActivates /\ Exit("TemplateIdNotFound")
    <2>1. last_future_template # NoTemplate /\ last_new_prev_hash # NoTemplate
      BY <1>6 DEF OpenStandardFails, Running
    <2>2. ExitsAreExplained'
      BY <1>2, <1>6, <2>1 DEF Exit, ExitsAreExplained, templateVars
    <2> QED BY <1>6, <2>2, ExitInv DEF ExitReason
  <1>7. CASE Exit("ChannelNotCreated")
    <2>1. ExitsAreExplained'
      BY <1>7 DEF Exit, ExitsAreExplained
    <2> QED BY <1>7, <2>1, ExitInv DEF ExitReason
  <1> QED BY <1>3, <1>4, <1>5, <1>6, <1>7 DEF HandleOpenStandardMiningChannel

\* Opening an extended channel preserves it, with and without custom work.
LEMMA OpenExtendedInv ==
  ASSUME IInv, NEW d \in Downstream, HandleOpenExtendedMiningChannel(d), TypeOK'
  PROVE  IInv'
  <1> USE DEF IInv
  <1>1. cm_exit = Running /\ phase[d] = "setup"
    BY DEF HandleOpenExtendedMiningChannel, Receives
  <1>2. last_future_template # NoTemplate /\ last_new_prev_hash # NoTemplate =>
          (LastTemplateActivates <=> pending_prev_hash = NoTemplate)
    BY InitialWorkType DEF StreamInv, TypeOK, Template, NoTemplate
  <1>3. CASE d \notin downstream /\ Exit("DownstreamIdNotFound")
    <2>1. ExitsAreExplained'
      BY <1>1, <1>3 DEF Exit, ExitsAreExplained, connectionVars
    <2> QED BY <1>3, <2>1, ExitInv DEF ExitReason
  <1>4. CASE Reply
    BY <1>4, UnchangedInv DEF Reply
  <1>5. CASE OpenExtendedFails(d) # Running /\ Exit(OpenExtendedFails(d))
    <2>1. OpenExtendedFails(d) \in ExitReason
      BY <1>5 DEF OpenExtendedFails, ExitReason
    <2>2. cm_exit' = OpenExtendedFails(d) /\ UNCHANGED templateVars
      BY <1>5 DEF Exit
    <2>3. ExitsAreExplained'
      BY <1>2, <1>5, <2>2 DEF OpenExtendedFails, ExitsAreExplained, StreamInv, templateVars
    <2> QED BY <1>5, <2>1, <2>3, ExitInv
  <1>6. CASE d \in downstream /\ OpenExtended(d)
    <2> USE DEF connectionVars, templateVars, factoryVars
    <2>1. UNCHANGED <<connectionVars, downstream, group_channels,
                      extranonce_prefix_factory_standard, templateVars, cm_exit>>
      BY <1>6 DEF OpenExtended
    <2>2. channel_id_factory[d] \in ChannelId
          /\ extranonce_prefix_factory_extended' = extranonce_prefix_factory_extended + 1
      BY <1>6 DEF OpenExtended
    <2>3. StreamInv' /\ GroupInv' /\ ExitsAreExplained'
      BY <1>1, <2>1 DEF StreamInv, GroupInv, Pending, ExitsAreExplained, Running
    <2>4. CASE UNCHANGED <<channels, miner, vardiff>>
      <3>1. \A e \in Downstream : OpenChannels(e)' = OpenChannels(e)
        BY <2>4 DEF OpenChannels, OfKind
      <3>2. ObjectsInv'
        BY <2>1, <2>4 DEF ObjectsInv
      <3>3. VardiffMatchesChannels' /\ MinerAgreement' /\ SearchSpacesDisjoint'
        BY <2>1, <2>4, <3>1
           DEF VardiffMatchesChannels, MinerAgreement, SearchSpacesDisjoint, TypeOK
      <3>4. ChannelInv'
        BY <2>1, <2>4, <3>1, ChannelWorkKept DEF ChannelInv, TypeOK
      <3>5. PrefixInv'
        <4>1. extranonce_prefix_factory_extended \in Nat
          BY BoundsAssumption DEF TypeOK
        <4> QED BY <2>1, <2>2, <2>4, <4>1 DEF PrefixInv
      <3> QED BY <2>3, <3>2, <3>3, <3>4, <3>5
    <2>5. CASE OpenExtendedFails(d) = Running /\ ~UNCHANGED <<channels, miner, vardiff>>
      <3> DEFINE work == IF requires_custom_work[d]
                           THEN OnSetNewPrevHashExtended(NoWork, last_new_prev_hash)
                           ELSE InitialWork
                 minerWork == IF requires_custom_work[d] THEN NoWork ELSE InitialMinerWork
      <3>1. /\ last_new_prev_hash # NoTemplate /\ last_future_template # NoTemplate
            /\ ~requires_custom_work[d] => LastTemplateActivates
        BY <2>5 DEF OpenExtendedFails, Running
      <3>2. last_new_prev_hash \in Template
        BY <3>1 DEF TypeOK
      <3>3. ~requires_custom_work[d] => /\ pending_prev_hash = NoTemplate
                                        /\ last_future_template = last_new_prev_hash
        BY <1>2, <3>1 DEF StreamInv
      <3>4. ~requires_custom_work[d] => InitialMinerWork = InitialWork
        <4>1. /\ OnNewTemplate(NoWork, last_new_prev_hash, TRUE) \in Work
              /\ last_new_prev_hash \in OnNewTemplate(NoWork, last_new_prev_hash, TRUE).future
          BY <3>2, NoWorkType, OnNewTemplateWork
        <4> QED BY <3>2, <3>3, <4>1, MinerSetNewPrevHashWork DEF InitialMinerWork, InitialWork
      <3>5. /\ work.future = {} /\ work.tip = last_new_prev_hash
            /\ work.active \in Template => work.active = last_new_prev_hash
            /\ requires_custom_work[d] => work.active \notin Template
        <4>1. CASE requires_custom_work[d]
          <5>1. NoWork.active = NoJob /\ NoWork.future = {}
            BY DEF NoWork
          <5> QED BY <3>2, <4>1, <5>1, NoWorkType, OnSetNewPrevHashExtendedWork
                  DEF NoJob, Template
        <4>2. CASE ~requires_custom_work[d]
          BY <4>2 DEF InitialWork, OnSetNewPrevHash
        <4> QED BY <4>1, <4>2
      <3>6. Insert(d, channel_id_factory[d], "extended", NextPrefixExtended, work, minerWork)
        BY <1>6, <2>5 DEF OpenExtended
      <3>7. /\ NextPrefixExtended.range_1 = extranonce_prefix_factory_extended + 1
            /\ NextPrefixExtended.range_2 = 0
        BY DEF NextPrefixExtended
      <3>8. ~requires_custom_work[d] => minerWork = work
        BY <3>4
      <3>9. ObjectsInv'
        BY <1>1, <1>6, <2>1, <3>6 DEF ObjectsInv, Insert, TypeOK
      <3> HIDE DEF work, minerWork
      <3>10. /\ VardiffMatchesChannels' /\ ChannelInv' /\ MinerAgreement'
             /\ PrefixInv' /\ SearchSpacesDisjoint'
        BY <1>1, <1>6, <2>1, <2>2, <3>1, <3>3, <3>5, <3>6, <3>7, <3>8, InsertInv
      <3> QED BY <2>3, <3>9, <3>10
    <2> QED BY <1>6, <2>4, <2>5 DEF OpenExtended
  <1>7. CASE Exit("ChannelNotCreated")
    <2>1. ExitsAreExplained'
      BY <1>7 DEF Exit, ExitsAreExplained
    <2> QED BY <1>7, <2>1, ExitInv DEF ExitReason
  <1> QED BY <1>3, <1>4, <1>5, <1>6, <1>7 DEF HandleOpenExtendedMiningChannel

\* A step that only retargets channels, and tells their peers.
LEMMA RetargetInv ==
  ASSUME IInv, TypeOK', cm_exit = Running,
         UNCHANGED <<connectionVars, downstream, vardiff, group_channels, factoryVars,
                     templateVars, cm_exit>>,
         \A d \in Downstream : \A c \in ChannelId :
           /\ channels'[d][c].kind = channels[d][c].kind
           /\ channels'[d][c].prefix = channels[d][c].prefix
           /\ channels'[d][c].work = channels[d][c].work
           /\ miner'[d][c].work = miner[d][c].work
           /\ miner[d][c].target = channels[d][c].target =>
                miner'[d][c].target = channels'[d][c].target
  PROVE  IInv'
  <1> USE DEF IInv, connectionVars, factoryVars, templateVars
  <1>1. \A d \in Downstream : OpenChannels(d)' = OpenChannels(d)
    BY DEF OpenChannels, OfKind
  <1>2. \A d \in Downstream : \A c \in OpenChannels(d) : c \in ChannelId
    BY DEF OpenChannels, OfKind
  <1>3. StreamInv' /\ GroupInv' /\ ObjectsInv' /\ PrefixInv' /\ ExitsAreExplained'
    <2>1. StreamInv'
      BY DEF StreamInv
    <2>2. GroupInv'
      BY DEF GroupInv, Pending
    <2>3. ObjectsInv'
      BY DEF ObjectsInv
    <2>4. PrefixInv'
      BY DEF PrefixInv
    <2>5. ExitsAreExplained'
      BY DEF ExitsAreExplained
    <2> QED BY <2>1, <2>2, <2>3, <2>4, <2>5
  <1>4. VardiffMatchesChannels'
    BY <1>1 DEF VardiffMatchesChannels
  <1>5. SearchSpacesDisjoint'
    BY <1>1, <1>2 DEF SearchSpacesDisjoint
  <1>6. MinerAgreement'
    <2> SUFFICES ASSUME NEW d \in downstream', NEW c \in OpenChannels(d)'
                 PROVE  /\ miner'[d][c].target = channels'[d][c].target
                        /\ channels'[d][c].kind = "standard" \/ ~requires_custom_work'[d]
                             => miner'[d][c].work = channels'[d][c].work
      BY DEF MinerAgreement
    <2>1. d \in downstream /\ d \in Downstream
      BY DEF TypeOK
    <2>2. c \in OpenChannels(d) /\ c \in ChannelId
      BY <1>1, <1>2, <2>1
    <2>3. /\ miner[d][c].target = channels[d][c].target
          /\ channels[d][c].kind = "standard" \/ ~requires_custom_work[d]
               => miner[d][c].work = channels[d][c].work
      BY <2>1, <2>2 DEF MinerAgreement
    <2> QED BY <2>1, <2>2, <2>3
  <1>7. ChannelInv'
    BY <1>1, <1>2, ChannelWorkKept DEF ChannelInv, TypeOK
  <1> QED BY <1>3, <1>4, <1>5, <1>6, <1>7

\* The vardiff timer preserves it.
LEMMA RunVardiffInv ==
  ASSUME IInv, RunVardiff, TypeOK'
  PROVE  IInv'
  <1>1. ASSUME NEW d \in Downstream, NEW c \in ChannelId
        PROVE  /\ channels'[d][c].kind = channels[d][c].kind
               /\ channels'[d][c].prefix = channels[d][c].prefix
               /\ channels'[d][c].work = channels[d][c].work
               /\ miner'[d][c].work = miner[d][c].work
               /\ miner[d][c].target = channels[d][c].target =>
                    miner'[d][c].target = channels'[d][c].target
    <2>1. channels[d][c] \in Channel /\ miner[d][c] \in View
      BY DEF IInv, TypeOK
    <2>2. CASE channels'[d][c] = channels[d][c] /\ miner'[d][c] = miner[d][c]
      BY <2>2
    <2>3. ASSUME NEW target \in Target,
                 channels'[d][c] = WithTarget(channels[d][c], target),
                 \/ miner'[d][c] = WithTarget(miner[d][c], target)
                 \/ miner'[d][c] = miner[d][c] /\ channels[d][c].target = target
          PROVE  /\ channels'[d][c].kind = channels[d][c].kind
                 /\ channels'[d][c].prefix = channels[d][c].prefix
                 /\ channels'[d][c].work = channels[d][c].work
                 /\ miner'[d][c].work = miner[d][c].work
                 /\ miner[d][c].target = channels[d][c].target =>
                      miner'[d][c].target = channels'[d][c].target
      BY <2>1, <2>3, ChannelWithTarget, ViewWithTarget
    <2> QED BY <2>2, <2>3, RunVardiffChanges DEF IInv
  <1>2. /\ cm_exit = Running
        /\ UNCHANGED <<connectionVars, downstream, vardiff, group_channels, factoryVars,
                       templateVars, cm_exit>>
    BY DEF RunVardiff
  <1> QED BY <1>1, <1>2, RetargetInv

\* UpdateChannel preserves it.
LEMMA UpdateInv ==
  ASSUME IInv, NEW d \in Downstream, NEW c \in ChannelId, HandleUpdateChannel(d, c), TypeOK'
  PROVE  IInv'
  <1>1. cm_exit = Running /\ phase[d] = "setup"
    BY DEF HandleUpdateChannel, Receives
  <1>2. CASE d \notin downstream /\ Exit("DownstreamNotFound")
    <2>1. ExitsAreExplained'
      BY <1>1, <1>2 DEF Exit, ExitsAreExplained, connectionVars
    <2> QED BY <1>2, <2>1, ExitInv DEF ExitReason
  <1>3. CASE Reply
    BY <1>3, UnchangedInv DEF Reply
  <1>4. CASE /\ \E target \in Target :
                  /\ channels' = [channels EXCEPT ![d][c] = WithTarget(@, target)]
                  /\ miner' = [miner EXCEPT ![d][c] = WithTarget(@, target)]
             /\ UNCHANGED <<connectionVars, downstream, channel_id_factory, vardiff,
                            group_channels, factoryVars, templateVars, cm_exit>>
    <2>1. PICK target \in Target :
            /\ channels' = [channels EXCEPT ![d][c] = WithTarget(channels[d][c], target)]
            /\ miner' = [miner EXCEPT ![d][c] = WithTarget(miner[d][c], target)]
      BY <1>4
    <2>2. ASSUME NEW e \in Downstream, NEW b \in ChannelId
          PROVE  /\ channels'[e][b].kind = channels[e][b].kind
                 /\ channels'[e][b].prefix = channels[e][b].prefix
                 /\ channels'[e][b].work = channels[e][b].work
                 /\ miner'[e][b].work = miner[e][b].work
                 /\ miner[e][b].target = channels[e][b].target =>
                      miner'[e][b].target = channels'[e][b].target
      <3>1. channels[e][b] \in Channel /\ miner[e][b] \in View
        BY DEF IInv, TypeOK
      <3>2. CASE e = d /\ b = c
        <4>1. /\ channels'[e][b] = WithTarget(channels[e][b], target)
              /\ miner'[e][b] = WithTarget(miner[e][b], target)
          BY <2>1, <3>2 DEF IInv, TypeOK
        <4> QED BY <3>1, <4>1, ChannelWithTarget, ViewWithTarget
      <3>3. CASE ~(e = d /\ b = c)
        <4>1. channels'[e][b] = channels[e][b] /\ miner'[e][b] = miner[e][b]
          BY <2>1, <3>3 DEF IInv, TypeOK
        <4> QED BY <4>1
      <3> QED BY <3>2, <3>3
    <2> QED BY <1>1, <1>4, <2>2, RetargetInv
  <1> QED BY <1>2, <1>3, <1>4 DEF HandleUpdateChannel

\* SetCustomMiningJob preserves it: the tip stays.
LEMMA CustomJobInv ==
  ASSUME IInv, NEW d \in Downstream, NEW c \in ChannelId, HandleSetCustomMiningJob(d, c),
         TypeOK'
  PROVE  IInv'
  <1>1. cm_exit = Running /\ phase[d] = "setup"
    BY DEF HandleSetCustomMiningJob, Receives
  <1>2. CASE d \notin downstream /\ Exit("DownstreamNotFound")
    <2>1. ExitsAreExplained'
      BY <1>1, <1>2 DEF Exit, ExitsAreExplained, connectionVars
    <2> QED BY <1>2, <2>1, ExitInv DEF ExitReason
  <1>3. CASE Reply
    BY <1>3, UnchangedInv DEF Reply
  <1>4. CASE Exit("CustomJobRejected")
    <2>1. ExitsAreExplained'
      BY <1>4 DEF Exit, ExitsAreExplained
    <2> QED BY <1>4, <2>1, ExitInv DEF ExitReason
  <1>5. CASE /\ channels' = [channels EXCEPT ![d][c] = WithWork(@, OnSetCustomMiningJob(@.work))]
             /\ miner' = [miner EXCEPT ![d][c] = WithWork(@, OnSetCustomMiningJob(@.work))]
             /\ UNCHANGED <<connectionVars, downstream, channel_id_factory, vardiff,
                            group_channels, factoryVars, templateVars, cm_exit>>
    <2> USE DEF IInv, connectionVars, factoryVars, templateVars
    <2>1. /\ channels'[d][c] = WithWork(channels[d][c], OnSetCustomMiningJob(channels[d][c].work))
          /\ miner'[d][c] = WithWork(miner[d][c], OnSetCustomMiningJob(miner[d][c].work))
          /\ \A e \in Downstream : \A b \in ChannelId : e # d \/ b # c =>
               channels'[e][b] = channels[e][b] /\ miner'[e][b] = miner[e][b]
      BY <1>5 DEF TypeOK
    <2>2. channels[d][c] \in Channel /\ miner[d][c] \in View
      BY DEF TypeOK
    <2>3. /\ channels'[d][c].kind = channels[d][c].kind
          /\ channels'[d][c].prefix = channels[d][c].prefix
          /\ channels'[d][c].target = channels[d][c].target
          /\ miner'[d][c].target = miner[d][c].target
          /\ channels'[d][c].work = OnSetCustomMiningJob(channels[d][c].work)
          /\ miner'[d][c].work = OnSetCustomMiningJob(miner[d][c].work)
      <3>1. /\ OnSetCustomMiningJob(channels[d][c].work) \in Work
            /\ OnSetCustomMiningJob(miner[d][c].work) \in Work
        BY <2>2, ChannelFields, ViewFields, OnSetCustomMiningJobWork
      <3>2. /\ channels'[d][c].kind = channels[d][c].kind
            /\ channels'[d][c].prefix = channels[d][c].prefix
            /\ channels'[d][c].target = channels[d][c].target
            /\ channels'[d][c].work = OnSetCustomMiningJob(channels[d][c].work)
        BY <2>1, <2>2, <3>1, ChannelWithWork
      <3>3. /\ miner'[d][c].target = miner[d][c].target
            /\ miner'[d][c].work = OnSetCustomMiningJob(miner[d][c].work)
        BY <2>1, <2>2, <3>1, ViewWithWork
      <3> QED BY <3>2, <3>3
    <2>4. /\ channels'[d][c].work.active = CustomJob
          /\ channels'[d][c].work.tip = channels[d][c].work.tip
          /\ channels'[d][c].work.future = channels[d][c].work.future
      BY <2>2, <2>3, ChannelFields, OnSetCustomMiningJobWork
    <2>5. \A e \in Downstream : \A b \in ChannelId :
            channels'[e][b].kind = channels[e][b].kind
            /\ channels'[e][b].prefix = channels[e][b].prefix
      BY <2>1, <2>3
    <2>6. \A e \in Downstream : OpenChannels(e)' = OpenChannels(e)
      BY <2>5 DEF OpenChannels, OfKind
    <2>7. \A e \in Downstream : \A b \in OpenChannels(e) : b \in ChannelId
      BY DEF OpenChannels, OfKind
    <2>8. StreamInv' /\ GroupInv' /\ ObjectsInv' /\ PrefixInv' /\ ExitsAreExplained'
      <3>1. StreamInv'
        BY <1>5 DEF StreamInv
      <3>2. GroupInv'
        BY <1>5 DEF GroupInv, Pending
      <3>3. ObjectsInv'
        BY <1>5, <2>5 DEF ObjectsInv
      <3>4. PrefixInv'
        BY <1>5, <2>5 DEF PrefixInv
      <3>5. ExitsAreExplained'
        BY <1>5 DEF ExitsAreExplained
      <3> QED BY <3>1, <3>2, <3>3, <3>4, <3>5
    <2>9. VardiffMatchesChannels'
      BY <1>5, <2>6 DEF VardiffMatchesChannels
    <2>10. SearchSpacesDisjoint'
      BY <2>5, <2>6, <2>7 DEF SearchSpacesDisjoint
    <2>11. MinerAgreement'
      BY <1>5, <2>1, <2>3, <2>6, <2>7 DEF MinerAgreement, TypeOK
    <2>12. ChannelInv'
      <3> SUFFICES ASSUME NEW e \in downstream', NEW b \in OpenChannels(e)'
                   PROVE  ChannelWork(e, b)'
        BY DEF ChannelInv
      <3>1. e \in Downstream /\ e \in downstream /\ b \in ChannelId
        BY <1>5, <2>6, <2>7 DEF TypeOK
      <3>2. ChannelWork(e, b)
        BY <1>1, <2>6, <3>1 DEF ChannelInv
      <3>3. CASE e = d /\ b = c
        <4>1. CustomJob \notin Template
          BY DEF CustomJob, Template
        <4> QED BY <1>5, <2>3, <2>4, <3>2, <3>3, <4>1 DEF ChannelWork, Pending
      <3>4. CASE ~(e = d /\ b = c)
        BY <1>5, <2>1, <3>1, <3>2, <3>4, ChannelWorkKept
      <3> QED BY <3>3, <3>4
    <2> QED BY <2>8, <2>9, <2>10, <2>11, <2>12
  <1> QED BY <1>2, <1>3, <1>4, <1>5 DEF HandleSetCustomMiningJob

\* Share handlers preserve it.
LEMMA SubmitInv ==
  ASSUME IInv, NEW d \in Downstream, NEW c \in ChannelId,
         HandleSubmitSharesStandard(d, c) \/ HandleSubmitSharesExtended(d, c)
  PROVE  IInv'
  <1>1. cm_exit = Running /\ phase[d] = "setup"
    BY DEF HandleSubmitSharesStandard, HandleSubmitSharesExtended, Receives
  <1>2. CASE d \notin downstream /\ (Exit("DownstreamNotFound") \/ Exit("Panic"))
    <2>1. ExitsAreExplained'
      BY <1>1, <1>2 DEF Exit, ExitsAreExplained, connectionVars
    <2> QED BY <1>2, <2>1, ExitInv DEF ExitReason
  <1>3. CASE Reply
    BY <1>3, UnchangedInv DEF Reply
  <1>4. CASE Exit("ShareValidationError")
    <2>1. ExitsAreExplained'
      BY <1>4 DEF Exit, ExitsAreExplained
    <2> QED BY <1>4, <2>1, ExitInv DEF ExitReason
  \* The vardiff entry of an open channel is always there.
  <1>5. ~(d \in downstream /\ c \in OpenChannels(d) /\ <<d, c>> \notin vardiff)
    BY <1>1 DEF IInv, VardiffMatchesChannels
  <1> QED BY <1>2, <1>3, <1>4, <1>5
          DEF HandleSubmitSharesStandard, HandleSubmitSharesExtended, Validate, OpenChannels

\* A template only adds work to open channels: their identity stays.
LEMMA NewTemplateFields ==
  ASSUME TypeOK, NEW future \in BOOLEAN, HandleNewTemplate(future),
         NEW d \in Downstream, NEW c \in ChannelId
  PROVE  /\ channels'[d][c].kind = channels[d][c].kind
         /\ channels'[d][c].prefix = channels[d][c].prefix
         /\ channels'[d][c].target = channels[d][c].target
         /\ miner'[d][c].target = miner[d][c].target
         /\ d \in downstream /\ FollowsTemplate(d, c, future) =>
              channels'[d][c].work = OnNewTemplate(channels[d][c].work, next_template, future)
         /\ ~(d \in downstream /\ FollowsTemplate(d, c, future)) =>
              channels'[d][c].work = channels[d][c].work
         /\ d \in downstream /\ MinerGetsJob(d, c, future) =>
              miner'[d][c].work = OnNewTemplate(miner[d][c].work, next_template, future)
         /\ ~(d \in downstream /\ MinerGetsJob(d, c, future)) =>
              miner'[d][c].work = miner[d][c].work
  <1>1. next_template \in Template
    BY DEF HandleNewTemplate
  <1>2. channels[d][c] \in Channel /\ miner[d][c] \in View
    BY DEF TypeOK
  <1>3. /\ OnNewTemplate(channels[d][c].work, next_template, future) \in Work
        /\ OnNewTemplate(miner[d][c].work, next_template, future) \in Work
    BY <1>1, <1>2, ChannelFields, ViewFields, OnNewTemplateWork
  <1>4. CASE d \in downstream /\ FollowsTemplate(d, c, future)
    <2>1. channels'[d][c] = WithWork(channels[d][c],
            OnNewTemplate(channels[d][c].work, next_template, future))
      BY <1>4, NewTemplateChanges
    <2>2. /\ channels'[d][c].kind = channels[d][c].kind
          /\ channels'[d][c].prefix = channels[d][c].prefix
          /\ channels'[d][c].target = channels[d][c].target
          /\ channels'[d][c].work = OnNewTemplate(channels[d][c].work, next_template, future)
      BY <1>2, <1>3, <2>1, ChannelWithWork
    <2>3. CASE d \in downstream /\ MinerGetsJob(d, c, future)
      <3>1. miner'[d][c] = WithWork(miner[d][c],
              OnNewTemplate(miner[d][c].work, next_template, future))
        BY <2>3, NewTemplateChanges
      <3> QED BY <1>2, <1>3, <1>4, <2>2, <2>3, <3>1, ViewWithWork
    <2>4. CASE ~(d \in downstream /\ MinerGetsJob(d, c, future))
      <3>1. miner'[d][c] = miner[d][c]
        BY <2>4, NewTemplateChanges
      <3> QED BY <1>4, <2>2, <2>4, <3>1
    <2> QED BY <2>3, <2>4
  <1>5. CASE ~(d \in downstream /\ FollowsTemplate(d, c, future))
    <2>1. channels'[d][c] = channels[d][c]
      BY <1>5, NewTemplateChanges
    <2>2. CASE d \in downstream /\ MinerGetsJob(d, c, future)
      <3>1. miner'[d][c] = WithWork(miner[d][c],
              OnNewTemplate(miner[d][c].work, next_template, future))
        BY <2>2, NewTemplateChanges
      <3> QED BY <1>2, <1>3, <1>5, <2>1, <2>2, <3>1, ViewWithWork
    <2>3. CASE ~(d \in downstream /\ MinerGetsJob(d, c, future))
      <3>1. miner'[d][c] = miner[d][c]
        BY <2>3, NewTemplateChanges
      <3> QED BY <1>5, <2>1, <2>3, <3>1
    <2> QED BY <2>2, <2>3
  <1> QED BY <1>4, <1>5

\* Every group channel and every open channel takes every template, because all
\* of them have a tip: none is skipped.
LEMMA NewTemplateTaken ==
  ASSUME IInv, cm_exit = Running, NEW future \in BOOLEAN, NEW d \in downstream
  PROVE  /\ group_channels[d] # NoGroup => TakesTemplate(group_channels[d].work, future)
         /\ \A c \in OpenChannels(d) :
              /\ TakesTemplate(channels[d][c].work, future)
              /\ FollowsTemplate(d, c, future)
              /\ MinerGetsJob(d, c, future)
  <1>1. group_channels[d] # NoGroup => TakesTemplate(group_channels[d].work, future)
    BY DEF IInv, GroupInv, TakesTemplate
  <1>2. \A c \in OpenChannels(d) : TakesTemplate(channels[d][c].work, future)
    BY DEF IInv, ChannelInv, ChannelWork, TakesTemplate
  <1> QED BY <1>1, <1>2 DEF FollowsTemplate, MinerGetsJob, InGroup

\* handle_new_template preserves it: no channel is skipped.
LEMMA NewTemplateInv ==
  ASSUME IInv, NEW future \in BOOLEAN, HandleNewTemplate(future), TypeOK'
  PROVE  IInv'
  <1> USE DEF IInv
  <1> DEFINE t == next_template
  <1>1. /\ cm_exit = Running /\ t \in Template /\ pending_prev_hash = NoTemplate
        /\ future \/ last_new_prev_hash # NoTemplate
        /\ next_template' = t + 1
        /\ built_on' = [built_on EXCEPT ![t] = IF future THEN t ELSE last_new_prev_hash]
        /\ pending_prev_hash' = IF future THEN t ELSE NoTemplate
        /\ last_future_template' = IF future THEN t ELSE last_future_template
        /\ UNCHANGED <<phase, requires_standard_jobs, requires_custom_work, downstream,
                       vardiff, extranonce_prefix_factory_standard,
                       extranonce_prefix_factory_extended, last_new_prev_hash, cm_exit>>
    BY DEF HandleNewTemplate, connectionVars, factoryVars
  <1>2. t \in Nat /\ t > 0 /\ t # NoTemplate /\ last_new_prev_hash \in Nat
        /\ last_new_prev_hash < t
    BY <1>1, BoundsAssumption DEF Template, NoTemplate, StreamInv, TypeOK
  <1>3. /\ built_on'[t] = IF future THEN t ELSE last_new_prev_hash
        /\ \A u \in Template : u # t => built_on'[u] = built_on[u]
    BY <1>1 DEF TypeOK
  <1>4. StreamInv'
    <2>1. last_new_prev_hash # NoTemplate => last_new_prev_hash \in Template
      BY DEF TypeOK
    <2>2. last_new_prev_hash' < next_template'
      BY <1>1, <1>2
    <2>3. last_new_prev_hash' # NoTemplate => built_on'[last_new_prev_hash'] = last_new_prev_hash'
      BY <1>1, <1>2, <1>3, <2>1 DEF StreamInv
    <2>4. pending_prev_hash' = NoTemplate => last_future_template' = last_new_prev_hash'
      BY <1>1, <1>2 DEF StreamInv
    <2>5. pending_prev_hash' # NoTemplate =>
            /\ last_future_template' = pending_prev_hash'
            /\ last_new_prev_hash' < pending_prev_hash'
            /\ pending_prev_hash' < next_template'
            /\ built_on'[pending_prev_hash'] = pending_prev_hash'
      <3>1. CASE future
        <4>1. pending_prev_hash' = t /\ last_future_template' = t /\ built_on'[t] = t
          BY <1>1, <1>3, <3>1
        <4>2. last_new_prev_hash' < t /\ t < next_template'
          BY <1>1, <1>2
        <4> QED BY <4>1, <4>2
      <3>2. CASE ~future
        BY <1>1, <3>2
      <3> QED BY <3>1, <3>2
    <2> QED BY <2>2, <2>3, <2>4, <2>5 DEF StreamInv
  <1>5. Pending = {} /\ Pending' = IF future THEN {t} ELSE {}
    BY <1>1, <1>2 DEF Pending
  <1>6. \A d \in Downstream : \A c \in ChannelId :
          /\ channels'[d][c].kind = channels[d][c].kind
          /\ channels'[d][c].prefix = channels[d][c].prefix
    BY NewTemplateFields
  <1>7. \A d \in Downstream : OpenChannels(d)' = OpenChannels(d)
    BY <1>6 DEF OpenChannels, OfKind
  <1>8. \A d \in Downstream : \A c \in OpenChannels(d) : c \in ChannelId
    BY DEF OpenChannels, OfKind
  <1>9. VardiffMatchesChannels'
    BY <1>1, <1>7 DEF VardiffMatchesChannels
  <1>10. SearchSpacesDisjoint'
    BY <1>6, <1>7, <1>8 DEF SearchSpacesDisjoint
  <1>11. PrefixInv'
    BY <1>1, <1>6 DEF PrefixInv
  <1>12. ExitsAreExplained'
    BY <1>1 DEF ExitsAreExplained, Running
  <1>13. \A d \in Downstream : d \notin downstream => group_channels'[d] = group_channels[d]
    BY NewTemplateChanges
  <1>14. ASSUME NEW d \in Downstream, group_channels[d] = NoGroup
         PROVE  group_channels'[d] = NoGroup
    BY <1>14, NewTemplateChanges
  <1>15. ObjectsInv'
    BY <1>1, <1>6, <1>14 DEF ObjectsInv
  <1>16. GroupInv'
    <2> SUFFICES ASSUME NEW d \in downstream', group_channels'[d] # NoGroup
                 PROVE  /\ last_new_prev_hash' # NoTemplate
                        /\ group_channels'[d].work.tip = last_new_prev_hash'
                        /\ group_channels'[d].work.future = Pending'
      BY DEF GroupInv
    <2>1. d \in downstream /\ d \in Downstream
      BY <1>1 DEF TypeOK
    <2>2. group_channels[d] # NoGroup
      BY <2>1, <1>14
    <2>3. /\ last_new_prev_hash # NoTemplate
          /\ group_channels[d].work.tip = last_new_prev_hash
          /\ group_channels[d].work.future = {}
      BY <1>1, <1>5, <2>1, <2>2 DEF GroupInv
    <2>4. group_channels[d] \in Group /\ group_channels[d].work \in Work
      BY <2>1, GroupWork DEF TypeOK
    <2>5. TakesTemplate(group_channels[d].work, future)
      BY <1>1, <2>1, <2>2, NewTemplateTaken
    <2>6. group_channels'[d] =
            WithWork(group_channels[d], OnNewTemplate(group_channels[d].work, t, future))
      BY <2>1, <2>2, <2>5, NewTemplateChanges
    <2>7. group_channels'[d].work = OnNewTemplate(group_channels[d].work, t, future)
      BY <1>1, <2>4, <2>6, OnNewTemplateWork, GroupWithWork
    <2>8. /\ group_channels'[d].work.tip = last_new_prev_hash
          /\ group_channels'[d].work.future = IF future THEN {t} ELSE {}
      <3> DEFINE w == group_channels[d].work
      <3>1. /\ OnNewTemplate(w, t, future).tip = w.tip
            /\ future => OnNewTemplate(w, t, future).future = w.future \cup {t}
            /\ ~future => OnNewTemplate(w, t, future).future = w.future
        BY <1>1, <2>4, OnNewTemplateWork
      <3> QED BY <2>3, <2>7, <3>1
    <2> QED BY <1>1, <1>5, <2>3, <2>8
  <1>17. ChannelInv'
    <2> SUFFICES ASSUME NEW d \in downstream', NEW c \in OpenChannels(d)'
                 PROVE  ChannelWork(d, c)'
      BY DEF ChannelInv
    <2>1. d \in downstream /\ d \in Downstream /\ c \in OpenChannels(d) /\ c \in ChannelId
      BY <1>1, <1>7, <1>8 DEF TypeOK
    <2>2. ChannelWork(d, c)
      BY <1>1, <2>1 DEF ChannelInv
    <2>3. channels'[d][c].work = OnNewTemplate(channels[d][c].work, t, future)
      BY <1>1, <2>1, NewTemplateTaken, NewTemplateFields
    <2>4. channels[d][c].work \in Work
      BY <2>1, ChannelFields DEF TypeOK
    <2> DEFINE w == channels[d][c].work
               v == channels'[d][c].work
    <2>5. /\ v.tip = w.tip
          /\ future => v.future = w.future \cup {t} /\ v.active = w.active
          /\ ~future => v.future = w.future /\ v.active = t
      BY <1>1, <2>3, <2>4, OnNewTemplateWork
    <2>6. /\ last_new_prev_hash # NoTemplate /\ w.tip = last_new_prev_hash /\ w.future = {}
          /\ w.active \in Template =>
               w.active < t /\ built_on[w.active] = last_new_prev_hash
      BY <1>5, <2>2 DEF ChannelWork
    <2>7. v.tip = last_new_prev_hash /\ v.future = Pending'
      BY <1>5, <2>5, <2>6
    <2>8. v.active \in Template =>
            v.active < t + 1 /\ built_on'[v.active] = last_new_prev_hash
      <3>1. CASE future
        <4>1. v.active = w.active
          BY <3>1, <2>5
        <4>2. ASSUME v.active \in Template
              PROVE  v.active < t /\ v.active # t /\ v.active \in Nat
          BY <4>1, <4>2, <2>6, <1>2, BoundsAssumption DEF Template
        <4> QED BY <4>1, <4>2, <2>6, <1>2, <1>3
      <3>2. CASE ~future
        BY <3>2, <2>5, <1>2, <1>3
      <3> QED BY <3>1, <3>2
    <2> QED BY <1>1, <2>6, <2>7, <2>8 DEF ChannelWork
  <1>18. MinerAgreement'
    <2> SUFFICES ASSUME NEW d \in downstream', NEW c \in OpenChannels(d)'
                 PROVE  /\ miner'[d][c].target = channels'[d][c].target
                        /\ channels'[d][c].kind = "standard" \/ ~requires_custom_work'[d]
                             => miner'[d][c].work = channels'[d][c].work
      BY DEF MinerAgreement
    <2>1. d \in downstream /\ d \in Downstream /\ c \in OpenChannels(d) /\ c \in ChannelId
      BY <1>1, <1>7, <1>8 DEF TypeOK
    <2>2. /\ miner[d][c].target = channels[d][c].target
          /\ channels[d][c].kind = "standard" \/ ~requires_custom_work[d]
               => miner[d][c].work = channels[d][c].work
      BY <1>1, <2>1 DEF MinerAgreement
    <2>3. /\ channels'[d][c].work = OnNewTemplate(channels[d][c].work, t, future)
          /\ miner'[d][c].work = OnNewTemplate(miner[d][c].work, t, future)
          /\ channels'[d][c].kind = channels[d][c].kind
          /\ channels'[d][c].target = channels[d][c].target
          /\ miner'[d][c].target = miner[d][c].target
      BY <1>1, <2>1, NewTemplateTaken, NewTemplateFields
    <2> QED BY <1>1, <2>2, <2>3
  <1> QED BY <1>4, <1>9, <1>10, <1>11, <1>12, <1>15, <1>16, <1>17, <1>18

\* When its prev hash is due, every group channel and every channel that is not
\* left to custom work holds the future job of that template and no other.
LEMMA ActivatedWorks ==
  ASSUME IInv, cm_exit = Running, pending_prev_hash # NoTemplate, NEW d \in downstream
  PROVE  /\ group_channels[d] # NoGroup =>
              ActivatedGroup(d, pending_prev_hash) = OnSetNewPrevHash(pending_prev_hash)
         /\ \A c \in OpenChannels(d) :
              /\ Activates(d, c, pending_prev_hash)
              /\ ActivatedWork(d, c, pending_prev_hash) \in Work
              /\ ActivatedWork(d, c, pending_prev_hash).future = {}
              /\ ActivatedWork(d, c, pending_prev_hash).tip = pending_prev_hash
              /\ ActivatedWork(d, c, pending_prev_hash).active
                   \in {pending_prev_hash, channels[d][c].work.active}
              /\ channels[d][c].work.future # {} \/ channels[d][c].kind = "standard" =>
                   ActivatedWork(d, c, pending_prev_hash) = OnSetNewPrevHash(pending_prev_hash)
  <1> DEFINE t == pending_prev_hash
  <1>1. t \in Template /\ d \in Downstream /\ Pending = {t}
    BY DEF IInv, TypeOK, Pending
  <1>2. group_channels[d] # NoGroup => ActivatedGroup(d, t) = OnSetNewPrevHash(t)
    BY <1>1 DEF IInv, GroupInv, ActivatedGroup, CanActivate
  <1>3. ASSUME NEW c \in OpenChannels(d)
        PROVE  /\ Activates(d, c, t)
               /\ ActivatedWork(d, c, t) \in Work
               /\ ActivatedWork(d, c, t).future = {}
               /\ ActivatedWork(d, c, t).tip = t
               /\ ActivatedWork(d, c, t).active \in {t, channels[d][c].work.active}
               /\ channels[d][c].work.future # {} \/ channels[d][c].kind = "standard" =>
                    ActivatedWork(d, c, t) = OnSetNewPrevHash(t)
    <2>1. c \in ChannelId
      BY DEF OpenChannels, OfKind
    <2>2. channels[d][c].work \in Work
      BY <1>1, <2>1, ChannelFields DEF IInv, TypeOK
    <2>3. /\ channels[d][c].work.future \subseteq {t}
          /\ channels[d][c].kind = "standard" => channels[d][c].work.future = {t}
      BY <1>1 DEF IInv, ChannelInv, ChannelWork
    <2>4. Activates(d, c, t)
      BY <2>1, <2>3 DEF Activates, OpenChannels, OfKind, CanActivate, CanActivateExtended
    <2>5. CASE channels[d][c].kind = "extended"
      <3>1. ActivatedWork(d, c, t) = OnSetNewPrevHashExtended(channels[d][c].work, t)
        BY <2>5 DEF ActivatedWork
      <3> QED BY <1>1, <2>2, <2>4, <2>5, <3>1, OnSetNewPrevHashExtendedWork
    <2>6. CASE channels[d][c].kind = "standard"
      <3>1. ActivatedWork(d, c, t) = OnSetNewPrevHash(t)
        BY <2>6 DEF ActivatedWork
      <3>2. OnSetNewPrevHash(t).future = {} /\ OnSetNewPrevHash(t).tip = t
            /\ OnSetNewPrevHash(t).active = t
        BY DEF OnSetNewPrevHash
      <3> QED BY <1>1, <2>4, <3>1, <3>2, OnSetNewPrevHashWork
    <2> QED BY <2>5, <2>6 DEF OpenChannels, OfKind
  <1> QED BY <1>2, <1>3

\* `expect("active job must exist")` never fails.
LEMMA NoPanicOnPrevHash ==
  ASSUME IInv, cm_exit = Running, pending_prev_hash # NoTemplate, NEW d \in downstream
  PROVE  ~NoActiveJob(d, pending_prev_hash)
  <1> DEFINE t == pending_prev_hash
  <1>1. t \in Template /\ d \in Downstream /\ t # NoJob /\ Pending = {t}
    BY DEF IInv, TypeOK, Pending, Template, NoJob
  <1>2. OnSetNewPrevHash(t).active = t
    BY DEF OnSetNewPrevHash
  <1>3. ~(group_channels[d] # NoGroup /\ ActivatedGroup(d, t).active = NoJob)
    BY <1>1, <1>2, ActivatedWorks
  <1>4. ASSUME NEW c \in OpenChannels(d),
               channels[d][c].kind = "extended" => ~requires_custom_work[d]
        PROVE  ActivatedWork(d, c, t).active # NoJob
    <2>1. channels[d][c].kind \in {"standard", "extended"}
      BY DEF OpenChannels, OfKind
    <2>2. channels[d][c].work.future = {t}
      BY <1>1, <1>4, <2>1 DEF IInv, ChannelInv, ChannelWork
    <2>3. channels[d][c].work.future # {}
      BY <2>2
    <2>4. ActivatedWork(d, c, t) = OnSetNewPrevHash(t)
      BY <2>3, ActivatedWorks
    <2> QED BY <1>1, <1>2, <2>4
  <1> QED BY <1>3, <1>4 DEF NoActiveJob

\* After a SetNewPrevHash every open channel has been activated by it.
LEMMA SetNewPrevHashFields ==
  ASSUME IInv, SetNewPrevHashDone, NEW d \in Downstream, NEW c \in ChannelId
  PROVE  /\ channels'[d][c].kind = channels[d][c].kind
         /\ channels'[d][c].prefix = channels[d][c].prefix
         /\ channels'[d][c].target = channels[d][c].target
         /\ miner'[d][c].target = miner[d][c].target
         /\ d \in downstream /\ c \in OpenChannels(d) =>
              /\ channels'[d][c].work = ActivatedWork(d, c, pending_prev_hash)
              /\ miner'[d][c].work = MinerActivated(d, c, pending_prev_hash)
  <1> DEFINE t == pending_prev_hash
  <1>1. t \in Template /\ t # NoTemplate /\ cm_exit = Running
    BY DEF IInv, TypeOK, SetNewPrevHashDone, HandleSetNewPrevHash
  <1>2. channels[d][c] \in Channel /\ miner[d][c] \in View
    BY DEF IInv, TypeOK
  <1>3. ActivatedWork(d, c, t) \in Work /\ MinerActivated(d, c, t) \in Work
    BY <1>1, ActivatedType DEF IInv
  <1>4. /\ channels'[d][c].kind = channels[d][c].kind
        /\ channels'[d][c].prefix = channels[d][c].prefix
        /\ channels'[d][c].target = channels[d][c].target
        /\ d \in downstream /\ Activates(d, c, t) => channels'[d][c].work = ActivatedWork(d, c, t)
    <2>1. CASE d \in downstream /\ Activates(d, c, t)
      <3>1. channels'[d][c] = WithWork(channels[d][c], ActivatedWork(d, c, t))
        BY <2>1, SetNewPrevHashChanges DEF IInv
      <3> QED BY <1>2, <1>3, <3>1, ChannelWithWork
    <2>2. CASE ~(d \in downstream /\ Activates(d, c, t))
      <3>1. channels'[d][c] = channels[d][c]
        BY <2>2, SetNewPrevHashChanges DEF IInv
      <3> QED BY <2>2, <3>1
    <2> QED BY <2>1, <2>2
  <1>5. /\ miner'[d][c].target = miner[d][c].target
        /\ d \in downstream /\ c \in OpenChannels(d) =>
             miner'[d][c].work = MinerActivated(d, c, t)
    <2>1. CASE d \in downstream /\ c \in OpenChannels(d)
      <3>1. miner'[d][c] = WithWork(miner[d][c], MinerActivated(d, c, t))
        BY <2>1, SetNewPrevHashChanges DEF IInv
      <3> QED BY <1>2, <1>3, <3>1, ViewWithWork
    <2>2. CASE ~(d \in downstream /\ c \in OpenChannels(d))
      <3>1. miner'[d][c] = miner[d][c]
        BY <2>2, SetNewPrevHashChanges DEF IInv
      <3> QED BY <2>2, <3>1
    <2> QED BY <2>1, <2>2
  <1>6. d \in downstream /\ c \in OpenChannels(d) => Activates(d, c, t)
    BY <1>1, ActivatedWorks
  <1> QED BY <1>4, <1>5, <1>6

\* The peer of a channel that follows the pool's templates activates the job
\* its channel activates, whether it is told through the group or by itself.
LEMMA MinerActivates ==
  ASSUME IInv, cm_exit = Running, pending_prev_hash # NoTemplate,
         NEW d \in downstream, NEW c \in OpenChannels(d),
         channels[d][c].kind = "standard" \/ ~requires_custom_work[d]
  PROVE  MinerActivated(d, c, pending_prev_hash) = ActivatedWork(d, c, pending_prev_hash)
  <1> DEFINE t == pending_prev_hash
             w == miner[d][c].work
  <1>1. t \in Template /\ d \in Downstream /\ c \in ChannelId /\ Pending = {t}
    BY DEF IInv, TypeOK, Pending, OpenChannels, OfKind
  <1>2. w = channels[d][c].work
    BY DEF IInv, MinerAgreement
  <1>3. channels[d][c].work.future = {t}
    BY <1>1 DEF IInv, ChannelInv, ChannelWork
  <1>4. w \in Work /\ t \in w.future
    BY <1>1, <1>2, <1>3, ChannelFields DEF IInv, TypeOK
  <1>5. MinerSetNewPrevHash(w, t, t) = OnSetNewPrevHash(t)
    BY <1>1, <1>4, MinerSetNewPrevHashWork
  <1>6. channels[d][c].work.future # {}
    BY <1>3
  <1>7. ActivatedWork(d, c, t) = OnSetNewPrevHash(t) /\ Activates(d, c, t)
    BY <1>6, ActivatedWorks
  <1>8. OnSetNewPrevHash(t).active = t
    BY DEF OnSetNewPrevHash
  <1>9. CASE InGroup(d, c)
    <2>1. ActivatedGroup(d, t) = OnSetNewPrevHash(t)
      BY <1>9, ActivatedWorks DEF InGroup
    <2> QED BY <1>5, <1>7, <1>8, <1>9, <2>1 DEF MinerActivated
  <1>10. CASE ~InGroup(d, c)
    <2>1. ~(channels[d][c].kind = "extended" /\ requires_custom_work[d])
      OBVIOUS
    <2> QED BY <1>5, <1>7, <1>8, <1>10, <2>1 DEF MinerActivated
  <1> QED BY <1>9, <1>10

\* handle_set_new_prev_hash preserves it.
LEMMA SetNewPrevHashInv ==
  ASSUME IInv, HandleSetNewPrevHash, TypeOK'
  PROVE  IInv'
  <1> USE DEF IInv
  <1> DEFINE t == pending_prev_hash
  <1>1. t \in Template /\ t # NoTemplate /\ cm_exit = Running
    BY DEF TypeOK, HandleSetNewPrevHash
  <1>2. \A d \in downstream : ~NoActiveJob(d, t)
    BY <1>1, NoPanicOnPrevHash
  <1>3. /\ last_new_prev_hash' = t /\ pending_prev_hash' = NoTemplate
        /\ UNCHANGED <<phase, requires_standard_jobs, requires_custom_work, downstream,
                       vardiff, extranonce_prefix_factory_standard,
                       extranonce_prefix_factory_extended, last_future_template,
                       next_template, built_on, cm_exit>>
    BY <1>2 DEF HandleSetNewPrevHash, connectionVars, factoryVars
  <1>4. SetNewPrevHashDone
    BY <1>3 DEF SetNewPrevHashDone
  <1>5. StreamInv'
    BY <1>1, <1>3 DEF StreamInv
  <1>6. Pending' = {}
    BY <1>3 DEF Pending
  <1>7. \A d \in Downstream : \A c \in ChannelId :
          /\ channels'[d][c].kind = channels[d][c].kind
          /\ channels'[d][c].prefix = channels[d][c].prefix
    BY <1>4, SetNewPrevHashFields
  <1>8. \A d \in Downstream : OpenChannels(d)' = OpenChannels(d)
    BY <1>7 DEF OpenChannels, OfKind
  <1>9. \A d \in Downstream : \A c \in OpenChannels(d) : c \in ChannelId
    BY DEF OpenChannels, OfKind
  <1>10. VardiffMatchesChannels'
    BY <1>3, <1>8 DEF VardiffMatchesChannels
  <1>11. SearchSpacesDisjoint'
    BY <1>7, <1>8, <1>9 DEF SearchSpacesDisjoint
  <1>12. PrefixInv'
    BY <1>3, <1>7 DEF PrefixInv
  <1>13. ExitsAreExplained'
    BY <1>1, <1>3 DEF ExitsAreExplained, Running
  <1>14. ASSUME NEW d \in Downstream, group_channels[d] = NoGroup
         PROVE  group_channels'[d] = NoGroup
    BY <1>4, <1>14, SetNewPrevHashChanges
  <1>15. ObjectsInv'
    BY <1>3, <1>7, <1>14 DEF ObjectsInv
  <1>16. GroupInv'
    <2> SUFFICES ASSUME NEW d \in downstream', group_channels'[d] # NoGroup
                 PROVE  /\ last_new_prev_hash' # NoTemplate
                        /\ group_channels'[d].work.tip = last_new_prev_hash'
                        /\ group_channels'[d].work.future = Pending'
      BY DEF GroupInv
    <2>1. d \in downstream /\ d \in Downstream
      BY <1>3 DEF TypeOK
    <2>2. group_channels[d] # NoGroup /\ group_channels[d] \in Group
      BY <2>1, <1>14 DEF TypeOK
    <2>3. group_channels'[d] = WithWork(group_channels[d], OnSetNewPrevHash(t))
      BY <1>1, <1>4, <2>1, <2>2, SetNewPrevHashChanges, ActivatedWorks
    <2>4. group_channels'[d].work = OnSetNewPrevHash(t)
      BY <1>1, <2>2, <2>3, OnSetNewPrevHashWork, GroupWithWork
    <2> QED BY <1>1, <1>3, <1>6, <2>4 DEF OnSetNewPrevHash
  <1>17. ASSUME NEW d \in downstream', NEW c \in OpenChannels(d)'
         PROVE  d \in downstream /\ d \in Downstream /\ c \in OpenChannels(d) /\ c \in ChannelId
    BY <1>3, <1>8, <1>9 DEF TypeOK
  <1>18. ChannelInv'
    <2> SUFFICES ASSUME NEW d \in downstream', NEW c \in OpenChannels(d)'
                 PROVE  ChannelWork(d, c)'
      BY DEF ChannelInv
    <2>1. d \in downstream /\ d \in Downstream /\ c \in OpenChannels(d) /\ c \in ChannelId
      BY <1>17
    <2> DEFINE w == channels[d][c].work
               v == channels'[d][c].work
    <2>2. v = ActivatedWork(d, c, t)
      BY <1>4, <2>1, SetNewPrevHashFields
    <2>3. v.future = {} /\ v.tip = t
      BY <1>1, <2>1, <2>2, ActivatedWorks
    <2>4. t < next_template /\ built_on[t] = t
      BY <1>1 DEF StreamInv
    <2>5. v.active \in Template => v.active = t
      <3>1. CASE w.future = {}
        <4>1. w.active \notin Template
          BY <1>1, <2>1, <3>1 DEF ChannelInv, ChannelWork, Pending
        <4>2. v.active \in {t, w.active}
          BY <1>1, <2>1, <2>2, ActivatedWorks
        <4> QED BY <4>1, <4>2
      <3>2. CASE w.future # {}
        <4>1. v = OnSetNewPrevHash(t)
          BY <1>1, <2>1, <2>2, <3>2, ActivatedWorks
        <4> QED BY <4>1 DEF OnSetNewPrevHash
      <3> QED BY <3>1, <3>2
    <2> QED BY <1>1, <1>3, <1>6, <2>3, <2>4, <2>5 DEF ChannelWork
  <1>19. MinerAgreement'
    <2> SUFFICES ASSUME NEW d \in downstream', NEW c \in OpenChannels(d)'
                 PROVE  /\ miner'[d][c].target = channels'[d][c].target
                        /\ channels'[d][c].kind = "standard" \/ ~requires_custom_work'[d]
                             => miner'[d][c].work = channels'[d][c].work
      BY DEF MinerAgreement
    <2>1. d \in downstream /\ d \in Downstream /\ c \in OpenChannels(d) /\ c \in ChannelId
      BY <1>17
    <2>2. miner[d][c].target = channels[d][c].target
      BY <1>1, <2>1 DEF MinerAgreement
    <2>3. /\ channels'[d][c].work = ActivatedWork(d, c, t)
          /\ miner'[d][c].work = MinerActivated(d, c, t)
          /\ channels'[d][c].kind = channels[d][c].kind
          /\ channels'[d][c].target = channels[d][c].target
          /\ miner'[d][c].target = miner[d][c].target
      BY <1>4, <2>1, SetNewPrevHashFields
    <2>4. channels[d][c].kind = "standard" \/ ~requires_custom_work[d] =>
            MinerActivated(d, c, t) = ActivatedWork(d, c, t)
      BY <1>1, <2>1, MinerActivates
    <2> QED BY <1>3, <2>2, <2>3, <2>4
  <1> QED BY <1>5, <1>10, <1>11, <1>12, <1>13, <1>15, <1>16, <1>18, <1>19

\* The invariant is inductive.
LEMMA NextInv ==
  ASSUME IInv, [Next]_vars
  PROVE  IInv'
  <1>1. TypeOK'
    BY NextType DEF IInv
  <1>2. ASSUME NEW d \in Downstream, MiningMessage(d)
        PROVE  IInv'
    BY <1>1, <1>2, OpenStandardInv, OpenExtendedInv, CloseInv, SubmitInv, UpdateInv,
       CustomJobInv DEF MiningMessage
  <1>3. CASE ShutdownAll
    <2>1. Exit("ShutdownAll") /\ "ShutdownAll" \in ExitReason
      BY <1>3 DEF ShutdownAll, ExitReason
    <2>2. ExitsAreExplained'
      BY <2>1 DEF Exit, ExitsAreExplained
    <2> QED BY <2>1, <2>2, ExitInv
  <1>4. CASE UNCHANGED vars
    BY <1>4, UnchangedInv
  <1> QED BY <1>1, <1>2, <1>3, <1>4, AcceptInv, SetupInv, RemoveInv, RunVardiffInv,
             NewTemplateInv, SetNewPrevHashInv DEF Next

\* The invariant holds in every reachable state.
LEMMA Invariance == Spec => []IInv
  <1>1. IInv /\ [Next]_vars => IInv'
    BY NextInv
  <1> QED BY <1>1, InitInv, PTL DEF Spec

-----------------------------------------------------------------------------
(* What follows from the invariant. *)

\* However opens, closes, removals and shutdown notices interleave, the vardiff
\* map has an entry for exactly the open channels of the known connections.
THEOREM VardiffExact == Spec => []VardiffMatchesChannels
  <1>1. IInv => VardiffMatchesChannels
    BY DEF IInv
  <1> QED BY <1>1, Invariance, PTL

\* handle_set_new_prev_hash never has to skip a channel: after any number of
\* templates, all group channels and all channels stand on the last tip.
THEOREM TipsAgree == Spec => []TipAgreement
  <1>1. IInv => TipAgreement
    BY DEF IInv, TipAgreement, GroupInv, ChannelInv, ChannelWork
  <1> QED BY <1>1, Invariance, PTL

\* No channel validates shares for a template of another tip than its own.
THEOREM WorkOnTip == Spec => []WorkIsOnTip
  <1>1. IInv => WorkIsOnTip
    BY DEF IInv, WorkIsOnTip, ChannelInv, ChannelWork
  <1> QED BY <1>1, Invariance, PTL

\* A peer that handles every message sent to it mines what the pool validates:
\* the messages the handlers send carry every change the handlers make.
THEOREM MinersAgree == Spec => []MinerAgreement
  <1>1. IInv => MinerAgreement
    BY DEF IInv
  <1> QED BY <1>1, Invariance, PTL

\* The two prefix factories, advanced under one lock by all connections, never
\* give two open channels the same search space.
THEOREM SpacesDisjoint == Spec => []SearchSpacesDisjoint
  <1>1. IInv => SearchSpacesDisjoint
    BY DEF IInv
  <1> QED BY <1>1, Invariance, PTL

\* The manager's loop ends for no other cause than those its error paths are
\* for: never for a missing vardiff entry, and with a panic or an unknown
\* downstream only after a connection that completed its setup was removed.
THEOREM ExitsExplained == Spec => []ExitsAreExplained
  <1>1. IInv => ExitsAreExplained
    BY DEF IInv
  <1> QED BY <1>1, Invariance, PTL

=============================================================================
