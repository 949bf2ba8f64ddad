---------------------- MODULE TranslatorChannelManager ----------------------
(***************************************************************************)
(* The translator's channel manager                                        *)
(* (miner-apps/translator/src/lib/sv2/channel_manager): it opens the        *)
(* channels the SV1 server asks for, one upstream channel per miner or, in  *)
(* aggregated mode, one for all miners, and passes jobs and shares between  *)
(* the two sides. One action is one message it handles; its data lock is    *)
(* taken many times by one handler, but only its own task takes it.         *)
(*                                                                         *)
(* The upstream is a pool: it numbers the channels of a connection from 1,  *)
(* starts each with a future job and its SetNewPrevHash, and announces a    *)
(* new tip to all of them. Its messages wait in one queue. The request id   *)
(* of an open request names its miner.                                     *)
(***************************************************************************)
EXTENDS Integers, Sequences, FiniteSets, Sv1Miners

CONSTANTS
  MaxOpened,     \* bound: channels the upstream opens
  MaxTip,        \* bound: tips the upstream announces
  MaxEvents      \* bound: jobs, targets, closed channels, refusals and fallbacks

ASSUME MinerAssumption == IsFiniteSet(Miner)
ASSUME OpenedAssumption == MaxOpened \in Nat \ {0}
ASSUME TipAssumption == MaxTip \in Nat \ {0}
ASSUME EventsAssumption == MaxEvents \in Nat

Id == 1..(MaxOpened + Cardinality(Miner))
ASSUME NoneAssumption == None \notin [base : Id, next : 1..Cardinality(Miner)]
Tip == 0..MaxTip

\* An ExtendedChannel: the upstream channel whose extranonce prefix it extends
\* and the number of its own extension (0: none); its chain tip, the tip its
\* active job is for, whether it holds a future job, how often its target was
\* set; and, for the properties, whether it missed a future job others hold.
Channel == [base : Id, ext : 0..Cardinality(Miner), tip : Tip, job : Tip,
            future : BOOLEAN, target : 0..MaxEvents, missed : BOOLEAN]

NewChannel(base, ext) ==
  [base |-> base, ext |-> ext, tip |-> 0, job |-> 0, future |-> FALSE, target |-> 0,
   missed |-> FALSE]

VARIABLES
  mode,                \* the configured ChannelMode
  cm,                  \* the task: running, ended after an error, or panicked
  pending_channels,    \* requests sent upstream
  extended_channels,   \* the channels, by id
  upstream_channel,    \* aggregated: the id and the channel shared by all, or None
  factory,             \* aggregated: [base, next] of extranonce_prefix_factory, or None
  told,                \* the channel id the SV1 server was given for a miner
  miner,               \* whether a miner has asked for a channel or is gone
  server_tip,          \* the tip of the last SetNewPrevHash the SV1 server was sent
  out,                 \* the last job or share passed on
  up,                  \* the upstream: next id, tip, open channels, requests
  stream,              \* its messages on their way to the manager
  events               \* how many of MaxEvents have happened

cmVars == <<pending_channels, extended_channels, upstream_channel, factory>>
serverVars == <<told, miner, server_tip>>
vars == <<mode, cm, cmVars, serverVars, out, up, stream, events>>

Aggregated == mode = "Aggregated"
Running == cm = "running"
NoOut == [kind |-> "nothing"]
FreshUpstream(tip) == [next |-> 1, tip |-> tip, open |-> {}, requests |-> <<>>]

Init ==
  /\ mode \in {"Aggregated", "NonAggregated"}
  /\ cm = "running"
  /\ pending_channels = {}
  /\ extended_channels = [c \in {} |-> None]
  /\ upstream_channel = None
  /\ factory = None
  /\ told = [m \in Miner |-> 0]
  /\ miner = [m \in Miner |-> "new"]
  /\ server_tip = 0
  /\ out = NoOut
  /\ up = FreshUpstream(1)
  /\ stream = <<>>
  /\ events = 0

Event == events < MaxEvents /\ events' = events + 1             \* bound

-----------------------------------------------------------------------------
(* Messages of the SV1 server. *)

Put(channels, id, channel) ==
  [c \in DOMAIN channels \cup {id} |-> IF c = id THEN channel ELSE channels[c]]

NextChannelId ==
  IF DOMAIN extended_channels = {} THEN 1
  ELSE 1 + CHOOSE c \in DOMAIN extended_channels : \A d \in DOMAIN extended_channels : d <= c

AskUpstream(m) ==
  /\ pending_channels' = pending_channels \cup {m}
  /\ up' = [up EXCEPT !.requests = Append(@, m)]
  /\ UNCHANGED <<extended_channels, upstream_channel, factory, told, out>>

ReusesPrefix(m) ==                                                     \* mutant
  LET shared == upstream_channel.channel
      joined == [shared EXCEPT !.ext = factory.next, !.tip = shared.tip, !.future = FALSE,
                               !.missed = shared.future]
      id == NextChannelId
  IN  /\ extended_channels' = Put(extended_channels, id, joined)
      /\ told' = [told EXCEPT ![m] = id]
      /\ out' = IF shared.job = 0 THEN NoOut ELSE [kind |-> "job", tip |-> shared.job]
      /\ UNCHANGED <<pending_channels, upstream_channel, factory, up>>

JoinsWithoutTip(m) ==                                                  \* mutant
  LET shared == upstream_channel.channel
      joined == [shared EXCEPT !.ext = factory.next + 1, !.tip = 0, !.future = FALSE,
                               !.missed = shared.future]
      id == NextChannelId
  IN  /\ factory' = [factory EXCEPT !.next = @ + 1]
      /\ extended_channels' = Put(extended_channels, id, joined)
      /\ told' = [told EXCEPT ![m] = id]
      /\ out' = IF shared.job = 0 THEN NoOut ELSE [kind |-> "job", tip |-> shared.job]
      /\ UNCHANGED <<pending_channels, upstream_channel, up>>

\* The shared channel is open: the miner gets a channel with its own extranonce
\* prefix at once, and the target, active job and tip of the shared one.
JoinsShared(m) ==
  LET shared == upstream_channel.channel
      joined == [shared EXCEPT !.ext = factory.next + 1, !.future = FALSE,
                               !.tip = IF shared.job = 0 THEN 0 ELSE @,
                               !.missed = shared.future]
      id == NextChannelId
  IN  /\ factory' = [factory EXCEPT !.next = @ + 1]
      /\ extended_channels' = Put(extended_channels, id, joined)
      /\ told' = [told EXCEPT ![m] = id]
      /\ out' = IF shared.job = 0 THEN NoOut ELSE [kind |-> "job", tip |-> shared.job]
      /\ UNCHANGED <<pending_channels, upstream_channel, up>>

HandleOpenExtendedMiningChannel(m) ==
  /\ Running
  /\ miner[m] = "new"
  /\ miner' = [miner EXCEPT ![m] = "asked"]
  /\ \/ Aggregated /\ upstream_channel # None /\ JoinsShared(m)
     \/ ~(Aggregated /\ upstream_channel # None) /\ AskUpstream(m)
  /\ UNCHANGED <<mode, cm, server_tip, stream, events>>

KeepsChannelId(m, c) ==                                                \* mutant
  [kind |-> "share", miner |-> m, channel |-> c, base |-> extended_channels[c].base]

\* A valid share goes out under the shared channel's id, or under its own; in
\* aggregated mode also when the shared channel has been closed.
Forwarded(m, c) ==
  [kind |-> "share", miner |-> m,
   channel |-> IF Aggregated /\ upstream_channel # None THEN upstream_channel.id ELSE c,
   base |-> extended_channels[c].base]

\* A share is validated against the channel's own tip and job, and dropped
\* without an answer if it does not validate.
HandleSubmitSharesExtended(m) ==
  /\ Running
  /\ miner[m] = "asked"
  /\ told[m] \in DOMAIN extended_channels
  /\ extended_channels[told[m]].job # 0
  /\ out' = Forwarded(m, told[m])
  /\ UNCHANGED <<mode, cm, cmVars, serverVars, up, stream, events>>

\* UpdateChannel: in aggregated mode the id of the shared channel is looked up
\* with unwrap, under the data lock.
UpdateChannel == cm' = IF Aggregated /\ upstream_channel = None THEN "panicked" ELSE cm

\* Vardiff, for the miners that have a channel.
HandleUpdateChannel ==
  /\ Running
  /\ \E m \in Miner : miner[m] = "asked" /\ told[m] # 0
  /\ UpdateChannel
  /\ UNCHANGED <<mode, cmVars, serverVars, out, up, stream, events>>

\* A miner left. Aggregated: the server reports the hashrate that remains.
\* Non-aggregated: its channel is closed upstream and stays here.
HandleMinerGone(m) ==
  /\ Running
  /\ miner[m] # "gone"
  /\ miner' = [miner EXCEPT ![m] = "gone"]
  /\ UpdateChannel
  /\ up' = IF Aggregated THEN up ELSE [up EXCEPT !.open = @ \ {told[m]}]
  /\ UNCHANGED <<mode, cmVars, told, server_tip, out, stream, events>>

-----------------------------------------------------------------------------
(* The upstream. *)

\* The order in which the upstream goes through its open channels.
OpenInOrder ==
  CHOOSE order \in [1..Cardinality(up.open) -> up.open] :
    \A c \in up.open : \E i \in DOMAIN order : order[i] = c

ToAll(message(_)) == [i \in DOMAIN OpenInOrder |-> message(OpenInOrder[i])]

Success(c, m) == [kind |-> "success", channel |-> c, miner |-> m]
Future(c) == [kind |-> "future", channel |-> c]
PrevHash(c, tip) == [kind |-> "prevhash", channel |-> c, tip |-> tip]
Job(c, tip) == [kind |-> "job", channel |-> c, tip |-> tip]
Target(c) == [kind |-> "target", channel |-> c]
Close(c) == [kind |-> "close", channel |-> c]
OpenError(m) == [kind |-> "error", miner |-> m]

UpstreamOpens ==
  /\ Running
  /\ up.requests # <<>>
  /\ up.next <= MaxOpened                                   \* bound
  /\ up' = [up EXCEPT !.requests = Tail(@), !.next = @ + 1, !.open = @ \cup {up.next}]
  /\ stream' = stream \o <<Success(up.next, Head(up.requests)), Future(up.next),
                           PrevHash(up.next, up.tip)>>
  /\ UNCHANGED <<mode, cm, cmVars, serverVars, out, events>>

UpstreamRefuses ==
  /\ Running
  /\ up.requests # <<>>
  /\ Event
  /\ up' = [up EXCEPT !.requests = Tail(@)]
  /\ stream' = Append(stream, OpenError(Head(up.requests)))
  /\ UNCHANGED <<mode, cm, cmVars, serverVars, out>>

UpstreamNewTip ==
  /\ Running
  /\ up.open # {}
  /\ up.tip < MaxTip                                        \* bound
  /\ up' = [up EXCEPT !.tip = @ + 1]
  /\ stream' = stream \o ToAll(Future) \o ToAll(LAMBDA c : PrevHash(c, up.tip + 1))
  /\ UNCHANGED <<mode, cm, cmVars, serverVars, out, events>>

UpstreamNewJob ==
  /\ Running
  /\ up.open # {}
  /\ Event
  /\ stream' = stream \o ToAll(LAMBDA c : Job(c, up.tip))
  /\ UNCHANGED <<mode, cm, cmVars, serverVars, out, up>>

UpstreamSetsTarget ==
  /\ Running
  /\ Event
  /\ \E c \in up.open : stream' = Append(stream, Target(c))
  /\ UNCHANGED <<mode, cm, cmVars, serverVars, out, up>>

UpstreamCloses ==
  /\ Running
  /\ Event
  /\ \E c \in up.open :
       /\ up' = [up EXCEPT !.open = @ \ {c}]
       /\ stream' = Append(stream, Close(c))
  /\ UNCHANGED <<mode, cm, cmVars, serverVars, out>>

-----------------------------------------------------------------------------
(* Messages of the upstream. In aggregated mode a job, a prev hash or a target *)
(* is applied to the shared channel and to all others, whichever upstream     *)
(* channel it is for.                                                          *)

Received(kind) ==
  /\ Running
  /\ stream # <<>>
  /\ Head(stream).kind = kind
  /\ stream' = Tail(stream)

\* on_new_extended_mining_job, on_set_new_prev_hash (an error without the future
\* job it names) and set_target of channels_sv2's client channel.
OnFuture(ch) == [ch EXCEPT !.future = TRUE]
OnJob(ch) == [ch EXCEPT !.job = ch.tip]
OnPrevHash(ch, tip) ==
  IF ch.future THEN [ch EXCEPT !.future = FALSE, !.tip = tip, !.job = tip] ELSE ch
OnTarget(ch) == [ch EXCEPT !.target = events]

Changed(ch) ==
  CASE Head(stream).kind = "future" -> OnFuture(ch)
    [] Head(stream).kind = "job" -> OnJob(ch)
    [] Head(stream).kind = "prevhash" -> OnPrevHash(ch, Head(stream).tip)
    [] Head(stream).kind = "target" -> OnTarget(ch)

ChannelsFollow ==
  /\ upstream_channel' =
       IF Aggregated /\ upstream_channel # None
         THEN [upstream_channel EXCEPT !.channel = Changed(@)] ELSE upstream_channel
  /\ extended_channels' =
       [c \in DOMAIN extended_channels |->
          IF Aggregated \/ c = Head(stream).channel
            THEN Changed(extended_channels[c]) ELSE extended_channels[c]]

\* Aggregated: the shared channel and the factory are replaced, and the miner
\* gets the factory's first prefix under the upstream's channel id.
OpensShared(c) ==
  /\ upstream_channel' = [id |-> c, channel |-> NewChannel(c, 0)]
  /\ factory' = [base |-> c, next |-> 1]
  /\ extended_channels' = Put(extended_channels, c, NewChannel(c, 1))

\* Non-aggregated: the prefix is extended if the upstream left more room than asked.
OpensOwn(c) ==
  /\ \E ext \in {0, 1} : extended_channels' = Put(extended_channels, c, NewChannel(c, ext))
  /\ UNCHANGED <<upstream_channel, factory>>

HandleOpenExtendedMiningChannelSuccess ==
  /\ Received("success")
  /\ LET m == Head(stream).miner
         c == Head(stream).channel
     IN  \/ /\ m \in pending_channels
            /\ pending_channels' = pending_channels \ {m}
            /\ IF Aggregated THEN OpensShared(c) ELSE OpensOwn(c)
            /\ told' = [told EXCEPT ![m] = c]
            /\ UNCHANGED cm
         \/ /\ m \notin pending_channels
            /\ cm' = "ended"
            /\ UNCHANGED <<cmVars, told>>
  /\ UNCHANGED <<mode, miner, server_tip, out, up, events>>

\* A refusal is reported as UpstreamShutdown; the request stays pending until
\* the fallback.
HandleOpenMiningChannelError ==
  /\ Received("error")
  /\ UNCHANGED <<mode, cm, cmVars, serverVars, out, up, events>>

HandleNewExtendedMiningJob ==
  /\ \/ Received("future") /\ ChannelsFollow /\ UNCHANGED out
     \/ /\ Received("job") /\ ChannelsFollow
        /\ out' = [kind |-> "job", tip |-> Head(stream).tip]
  /\ UNCHANGED <<mode, cm, pending_channels, factory, serverVars, up, events>>

\* The channel whose active job follows the prev hash to the SV1 server.
ActiveChannel ==
  IF Aggregated THEN {ch.channel : ch \in {upstream_channel'} \ {None}}
  ELSE {extended_channels'[c] : c \in {Head(stream).channel} \cap DOMAIN extended_channels}

JobBeforePrevHash ==                                                   \* mutant
  /\ Received("prevhash")
  /\ ChannelsFollow
  /\ out' = IF \E ch \in ActiveChannel : ch.job # 0
              THEN [kind |-> "job", tip |-> (CHOOSE ch \in ActiveChannel : TRUE).job] ELSE out
  /\ UNCHANGED <<mode, cm, pending_channels, factory, told, miner, server_tip, up, events>>

HandleSetNewPrevHash ==
  /\ Received("prevhash")
  /\ ChannelsFollow
  /\ server_tip' = Head(stream).tip
  /\ out' = IF \E ch \in ActiveChannel : ch.job # 0
              THEN [kind |-> "job", tip |-> (CHOOSE ch \in ActiveChannel : TRUE).job] ELSE NoOut
  /\ UNCHANGED <<mode, cm, pending_channels, factory, told, miner, up, events>>

HandleSetTarget ==
  /\ Received("target")
  /\ ChannelsFollow
  /\ UNCHANGED <<mode, cm, pending_channels, factory, serverVars, out, up, events>>

HandleCloseChannel ==
  /\ Received("close")
  /\ IF Aggregated
       THEN upstream_channel' = None /\ UNCHANGED extended_channels
       ELSE /\ extended_channels' = [c \in DOMAIN extended_channels \ {Head(stream).channel} |->
                                       extended_channels[c]]
            /\ UNCHANGED upstream_channel
  /\ UNCHANGED <<mode, cm, pending_channels, factory, serverVars, out, up, events>>

\* reset_for_upstream_reconnection; the SV1 server drops its miners, a new
\* upstream numbers its channels from 1, and queued messages stay queued.
Fallback ==
  /\ Running
  /\ Event
  /\ pending_channels' = {}
  /\ extended_channels' = [c \in {} |-> None]
  /\ upstream_channel' = None
  /\ factory' = None
  /\ miner' = [m \in Miner |-> IF miner[m] = "new" THEN "new" ELSE "gone"]
  /\ told' = [m \in Miner |-> 0]
  /\ up' = FreshUpstream(up.tip)
  /\ UNCHANGED <<mode, cm, server_tip, out, stream>>

-----------------------------------------------------------------------------
Next ==
  \/ \E m \in Miner : \/ HandleOpenExtendedMiningChannel(m)
                      \/ HandleSubmitSharesExtended(m) \/ HandleMinerGone(m)
  \/ HandleUpdateChannel
  \/ UpstreamOpens \/ UpstreamRefuses \/ UpstreamNewTip \/ UpstreamNewJob
  \/ UpstreamSetsTarget \/ UpstreamCloses
  \/ HandleOpenExtendedMiningChannelSuccess \/ HandleOpenMiningChannelError
  \/ HandleNewExtendedMiningJob \/ HandleSetNewPrevHash \/ HandleSetTarget
  \/ HandleCloseChannel
  \/ Fallback

Spec == Init /\ [][Next]_vars

-----------------------------------------------------------------------------
(* Properties. *)

\* The type invariant.
TypeOK ==
  /\ mode \in {"Aggregated", "NonAggregated"}
  /\ cm \in {"running", "ended", "panicked"}
  /\ pending_channels \subseteq Miner
  /\ DOMAIN extended_channels \subseteq Id
  /\ \A c \in DOMAIN extended_channels : extended_channels[c] \in Channel
  /\ upstream_channel # None =>
       upstream_channel.id \in 1..MaxOpened /\ upstream_channel.channel \in Channel
  /\ (Aggregated /\ upstream_channel # None) => factory # None
  /\ told \in [Miner -> Id \cup {0}]
  /\ miner \in [Miner -> {"new", "asked", "gone"}]
  /\ server_tip \in Tip
  /\ events \in 0..MaxEvents

\* Aggregated mode no longer has one upstream channel: two miners opened before
\* the first answer, or the upstream closed the shared channel.
Split ==
  /\ Aggregated
  /\ \/ up.next + Len(up.requests) > 2
     \/ upstream_channel = None /\ DOMAIN extended_channels # {}

\* "This mode uses extranonce prefix allocation to distinguish between different
\* downstream miners" (ChannelMode): no two channels search the same space.
PrefixesDistinct ==
  \A c, d \in DOMAIN extended_channels :
    c # d => \/ extended_channels[c].base # extended_channels[d].base
             \/ extended_channels[c].ext # extended_channels[d].ext

\* A share is submitted on the upstream channel whose extranonce prefix its
\* miner works under, or the upstream would hash something else.
SharesInTheirSpace ==
  (out.kind = "share" /\ miner[out.miner] = "asked" /\ ~Split) => out.base = out.channel

\* The job the SV1 server is sent builds on the prev hash it was sent last: it
\* makes a mining.notify of the two. This holds also when aggregated mode has
\* more than one upstream channel.
JobsOnTheServersTip ==
  out.kind = "job" => out.tip = server_tip

\* In aggregated mode every miner's channel follows the shared one in target,
\* tip and active job, unless it was opened after a future job and before its
\* SetNewPrevHash: that job was not copied to it.
TwinsAgree ==
  (Aggregated /\ upstream_channel # None /\ ~Split) =>
    \A c \in DOMAIN extended_channels :
      LET own == extended_channels[c]
          shared == upstream_channel.channel
      IN  \/ own.missed
          \/ own.target = shared.target /\ own.tip = shared.tip /\ own.job = shared.job

=============================================================================
