-------------------------- MODULE TranslatorProofs --------------------------
(***************************************************************************)
(* Proofs about TranslatorChannelManager, for any set of miners and any     *)
(* number of upstream channels, tips and events, and, at the end, about the *)
(* tasks of the translator, TranslatorLifecycle.                           *)
(***************************************************************************)
EXTENDS TranslatorChannelManager, TranslatorLifecycle,
        FiniteSetTheorems, WellFoundedInduction, TLAPS

\* What the upstream sends.
UpstreamId == 1..MaxOpened
Message ==
  [kind : {"success"}, channel : UpstreamId, miner : Miner]
    \cup [kind : {"future", "target", "close"}, channel : UpstreamId]
    \cup [kind : {"prevhash", "job"}, channel : UpstreamId, tip : Tip]
    \cup [kind : {"error"}, miner : Miner]

UpstreamState == [next : 1..(MaxOpened + 1), tip : 1..MaxTip, open : SUBSET UpstreamId,
                  requests : Seq(Miner)]

\* The miners that have asked for a channel, now or earlier.
Old == {m \in Miner : miner[m] # "new"}

Types ==
  /\ mode \in {"Aggregated", "NonAggregated"}
  /\ cm \in {"running", "ended", "panicked"}
  /\ pending_channels \subseteq Miner
  /\ DOMAIN extended_channels \subseteq Id
  /\ \A c \in DOMAIN extended_channels : extended_channels[c] \in Channel
  /\ told \in [Miner -> Id \cup {0}]
  /\ miner \in [Miner -> {"new", "asked", "gone"}]
  /\ server_tip \in Tip
  /\ events \in 0..MaxEvents
  /\ up \in UpstreamState
  /\ stream \in Seq(Message)
  /\ upstream_channel # None =>
       /\ upstream_channel \in [id : UpstreamId, channel : Channel]
       /\ factory \in [base : Id, next : 1..Cardinality(Miner)]

\* Ids and prefixes are counted by the miners that asked.
Counted ==
  /\ DOMAIN extended_channels \subseteq 1..(MaxOpened + Cardinality(Old))
  /\ upstream_channel # None => factory.next <= Cardinality(Old)

\* The answer to a request that is still pending.
Answers(i) == stream[i].kind = "success" /\ stream[i].miner \in pending_channels

\* A miner asks once, so an answer from before a fallback stays unexpected; one
\* that is expected names an upstream channel that is not in use.
AnswersAreFresh ==
  /\ pending_channels \subseteq Old
  /\ \A i \in DOMAIN up.requests : up.requests[i] \in Old
  /\ \A i \in DOMAIN stream : stream[i].kind = "success" => stream[i].miner \in Old
  /\ \A c \in DOMAIN extended_channels : extended_channels[c].base < up.next
  /\ \A i \in DOMAIN stream : Answers(i) =>
       /\ stream[i].channel < up.next
       /\ \A c \in DOMAIN extended_channels : extended_channels[c].base # stream[i].channel
  /\ \A i, j \in DOMAIN stream :
       i < j /\ Answers(i) /\ Answers(j) => stream[i].channel < stream[j].channel

\* Where prefixes come from: the upstream channel itself, or the factory.
PrefixSources ==
  /\ ~Aggregated =>
       /\ upstream_channel = None
       /\ \A c \in DOMAIN extended_channels : extended_channels[c].base = c
  /\ upstream_channel # None =>
       /\ upstream_channel.channel.base = factory.base /\ upstream_channel.id = factory.base
       /\ \A c \in DOMAIN extended_channels :
            extended_channels[c].base = factory.base => extended_channels[c].ext <= factory.next
       /\ \E c \in DOMAIN extended_channels : extended_channels[c].base = factory.base

\* A channel has the tip of its active job.
TipIsJobs ==
  /\ \A c \in DOMAIN extended_channels : extended_channels[c].tip = extended_channels[c].job
  /\ upstream_channel # None => upstream_channel.channel.tip = upstream_channel.channel.job

\* Two channels in the same state, prefixes apart.
Twins(own, shared) ==
  /\ own.target = shared.target /\ own.tip = shared.tip /\ own.job = shared.job
  /\ own.future = shared.future

\* Aggregated mode with one upstream channel, its request refused or not: what is
\* open has its prefix, and follows it.
OneUpstream ==
  (Aggregated /\ up.next <= 2) =>
    /\ \A c \in DOMAIN extended_channels : extended_channels[c].base = 1
    /\ upstream_channel # None =>
         /\ upstream_channel.id = 1
         /\ \A c \in DOMAIN extended_channels :
              extended_channels[c].missed
                \/ Twins(extended_channels[c], upstream_channel.channel)

\* A share of a miner that is still there went out on the upstream channel of its
\* prefix; in aggregated mode unless another one was opened or it was closed.
ShareOnItsChannel ==
  out.kind = "share" =>
    /\ out.miner \in Miner /\ miner[out.miner] # "new"
    /\ ~Aggregated => out.base = out.channel
    /\ (Aggregated /\ up.next <= 2 /\ miner[out.miner] = "asked") =>
         out.base = 1 /\ (out.channel = 1 \/ (upstream_channel = None
                                               /\ DOMAIN extended_channels # {}))

IInv ==
  /\ Types /\ Counted /\ AnswersAreFresh /\ PrefixSources /\ PrefixesDistinct /\ TipIsJobs
  /\ OneUpstream /\ ShareOnItsChannel

-----------------------------------------------------------------------------
(* Jobs and prev hashes on their way. *)

IsPrevHash(i) == stream[i].kind = "prevhash"

\* Whether message k changes the channel whose job follows a prev hash for c.
Concerns(k, c) == Aggregated \/ stream[k].channel = c

\* Message k does not replace that channel, nor moves it to another tip than tip.
LeavesOn(k, c, tip) ==
  (stream[k].kind \in {"success", "prevhash"} /\ Concerns(k, c)) =>
    IsPrevHash(k) /\ stream[k].tip = tip

\* After message j that channel holds the future job of its next tip, or is on tip.
Prepares(j, c, tip) ==
  /\ stream[j].kind \in {"future", "prevhash"} /\ Concerns(j, c)
  /\ IsPrevHash(j) => stream[j].tip = tip

View(c) ==
  IF Aggregated THEN {ch.channel : ch \in {upstream_channel} \ {None}}
  ELSE {extended_channels[d] : d \in {c} \cap DOMAIN extended_channels}

\* That channel, if any, is ready for a prev hash to tip.
Ready(c, tip) == \A ch \in View(c) : ch.future \/ ch.job = tip

\* By the time message i comes it is, whatever comes before.
ReadyAt(i, c, tip) ==
  \/ \E j \in 1..(i - 1) :
       Prepares(j, c, tip) /\ \A k \in (j + 1)..(i - 1) : LeavesOn(k, c, tip)
  \/ (\A k \in 1..(i - 1) : LeavesOn(k, c, tip)) /\ Ready(c, tip)

\* A prev hash finds the future job it names, or a channel that is already there.
IsPrevHashFor(i, c, tip) == IsPrevHash(i) /\ stream[i].channel = c /\ stream[i].tip = tip
Armed ==
  \A i \in DOMAIN stream, c \in UpstreamId, tip \in Tip :
    IsPrevHashFor(i, c, tip) => ReadyAt(i, c, tip)

\* Tips come in order, and a job is for the last one before it.
TipsInOrder ==
  /\ server_tip <= up.tip
  /\ \A i \in DOMAIN stream : stream[i].kind \in {"prevhash", "job"} =>
       server_tip <= stream[i].tip /\ stream[i].tip <= up.tip
  /\ \A i, j \in DOMAIN stream :
       (i < j /\ IsPrevHash(i) /\ stream[j].kind \in {"prevhash", "job"}) =>
         stream[i].tip <= stream[j].tip
  /\ \A i \in DOMAIN stream : stream[i].kind = "job" =>
       server_tip = stream[i].tip
         \/ \E j \in 1..(i - 1) : IsPrevHash(j) /\ stream[j].tip = stream[i].tip
  /\ up.open # {} =>
       server_tip = up.tip \/ \E j \in DOMAIN stream : IsPrevHash(j) /\ stream[j].tip = up.tip

\* The shared channel's job is on the tip the SV1 server has.
SharedOnServersTip ==
  (Aggregated /\ upstream_channel # None /\ upstream_channel.channel.job # 0) =>
    upstream_channel.channel.job = server_tip

JInv == Armed /\ TipsInOrder /\ SharedOnServersTip /\ JobsOnTheServersTip

-----------------------------------------------------------------------------
(* Numbers and sequences. *)

\* The constants as numbers.
LEMMA Constants ==
  /\ Cardinality(Miner) \in Nat /\ MaxOpened \in Nat \ {0} /\ MaxTip \in Nat \ {0}
  /\ MaxEvents \in Nat /\ UpstreamId \subseteq Id /\ Id \subseteq Nat \ {0}
  /\ Tip \subseteq Nat /\ 0 \in Tip /\ 1 \in UpstreamId
BY MinerAssumption, OpenedAssumption, TipAssumption, EventsAssumption, FS_CardinalityType
   DEF UpstreamId, Id, Tip

\* A set of numbers has a least one.
LEMMA LeastNumber ==
  ASSUME NEW T \in SUBSET Nat, T # {}
  PROVE  \E n \in T : \A k \in T : n <= k
<1> DEFINE less == {pair \in Nat \X Nat : pair[1] < pair[2]}
<1>1. IsWellFoundedOn(less, Nat)
  BY NatLessThanWellFounded, Zenon DEF OpToRel
<1>2. PICK n \in T : \A k \in T : <<k, n>> \notin less
  <2> HIDE DEF less
  <2> QED
    BY <1>1, WFMin
<1>3. \A k \in T : ~(k < n)
  BY <1>2
<1> QED
  BY <1>2, <1>3

\* A bounded set of numbers has a greatest one: its least bound.
LEMMA GreatestNumber ==
  ASSUME NEW n \in Nat, NEW T \in SUBSET (1..n), T # {}
  PROVE  \E g \in T : \A k \in T : k <= g
<1> DEFINE bounds == {b \in Nat : \A k \in T : k <= b}
<1>1. bounds \in SUBSET Nat /\ bounds # {}
  <2>1. n \in bounds
    OBVIOUS
  <2> QED
    BY <2>1
<1>2. PICK g \in bounds : \A b \in bounds : g <= b
  <2> HIDE DEF bounds
  <2> QED
    BY <1>1, LeastNumber
<1>3. g \in Nat /\ \A k \in T : k <= g /\ k \in Nat \ {0}
  BY <1>2
<1>4. g \in T
  <2> SUFFICES ASSUME g \notin T PROVE FALSE
    OBVIOUS
  <2>1. \A k \in T : k <= g - 1
    BY <1>3
  <2>3. PICK k \in T : k \in Nat \ {0} /\ k <= g
    BY <1>3
  <2>2. g - 1 \in bounds
    BY <1>3, <2>1, <2>3
  <2> QED
    BY <1>2, <1>3, <2>2
<1> QED
  BY <1>3, <1>4

\* The next channel id is one above the ids in use.
LEMMA NextId ==
  ASSUME NEW n \in Nat, DOMAIN extended_channels \subseteq 1..n
  PROVE  NextChannelId \in 1..(n + 1)
<1>1. CASE DOMAIN extended_channels = {}
  BY <1>1 DEF NextChannelId
<1>2. CASE DOMAIN extended_channels # {}
  <2> DEFINE Greatest(c) == \A d \in DOMAIN extended_channels : d <= c
  <2>1. \E c \in DOMAIN extended_channels : Greatest(c)
    BY <1>2, GreatestNumber
  <2>2. (CHOOSE c \in DOMAIN extended_channels : Greatest(c)) \in DOMAIN extended_channels
    <3> HIDE DEF Greatest
    <3> QED
      BY <2>1
  <2>3. NextChannelId = 1 + CHOOSE c \in DOMAIN extended_channels : Greatest(c)
    BY <1>2 DEF NextChannelId
  <2> QED
    BY <2>2, <2>3
<1> QED
  BY <1>1, <1>2

\* The miners that asked are finitely many, and only become more.
LEMMA OldMiners ==
  /\ IsFiniteSet(Old) /\ Cardinality(Old) \in Nat /\ Cardinality(Old) <= Cardinality(Miner)
  /\ Old # {} => Cardinality(Old) >= 1
<1>1. Old \in SUBSET Miner
  BY DEF Old
<1>2. IsFiniteSet(Old) /\ Cardinality(Old) <= Cardinality(Miner)
  BY <1>1, MinerAssumption, FS_Subset
<1> QED
  BY <1>2, FS_CardinalityType, FS_EmptySet

\* No step forgets that a miner asked.
LEMMA OldKept ==
  ASSUME \A m \in Miner : miner[m] # "new" => miner'[m] # "new"
  PROVE  /\ Old \subseteq Old'
         /\ Cardinality(Old) \in Nat /\ Cardinality(Old') \in Nat
         /\ Cardinality(Old) <= Cardinality(Old')
<1>1. Old \subseteq Old' /\ Old' \in SUBSET Miner
  BY DEF Old
<1>2. IsFiniteSet(Old')
  BY <1>1, MinerAssumption, FS_Subset
<1>3. Cardinality(Old') \in Nat
  BY <1>2, FS_CardinalityType
<1>4. Cardinality(Old) <= Cardinality(Old')
  BY <1>1, <1>2, FS_Subset
<1> QED
  BY <1>1, <1>3, <1>4, OldMiners

\* A further miner that asks counts.
LEMMA OldGrows ==
  ASSUME Types, NEW m \in Miner, miner[m] = "new", miner' = [miner EXCEPT ![m] = "asked"]
  PROVE  /\ Old' = Old \cup {m} /\ Cardinality(Old') = Cardinality(Old) + 1
         /\ Cardinality(Old) + 1 <= Cardinality(Miner)
<1>1. Old' = Old \cup {m} /\ m \notin Old
  BY DEF Old, Types
<1>2. Cardinality(Old \cup {m}) = Cardinality(Old) + 1
  BY <1>1, OldMiners, FS_AddElement
<1>3. Old \cup {m} \in SUBSET Miner
  BY DEF Old
<1>4. Cardinality(Old \cup {m}) <= Cardinality(Miner)
  BY <1>3, MinerAssumption, FS_Subset
<1> QED
  BY <1>1, <1>2, <1>4



\* The upstream goes through all its open channels.
LEMMA Order ==
  ASSUME Types
  PROVE  /\ OpenInOrder \in Seq(up.open)
         /\ \A c \in up.open : \E i \in DOMAIN OpenInOrder : OpenInOrder[i] = c
<1> DEFINE n == Cardinality(up.open)
           Covers(order) == \A c \in up.open : \E i \in DOMAIN order : order[i] = c
<1>1. IsFiniteSet(up.open)
  <2>1. IsFiniteSet(UpstreamId)
    BY Constants, FS_Interval DEF UpstreamId
  <2>2. up.open \in SUBSET UpstreamId
    BY DEF Types, UpstreamState
  <2> QED
    BY <2>1, <2>2, FS_Subset
<1>2. n \in Nat /\ ExistsBijection(1..n, up.open)
  BY <1>1, FS_CardinalityType
<1>3. \E order \in [1..n -> up.open] : Covers(order)
  BY <1>2 DEF ExistsBijection, Bijection, Surjection
<1>4. OpenInOrder = CHOOSE order \in [1..n -> up.open] : Covers(order)
  BY DEF OpenInOrder
<1>5. OpenInOrder \in [1..n -> up.open] /\ Covers(OpenInOrder)
  <2> HIDE DEF n, Covers
  <2> QED
    BY <1>3, <1>4
<1> QED
  BY <1>2, <1>5

-----------------------------------------------------------------------------
(* Messages and channels. *)

\* What a message carries.
LEMMA Fields ==
  ASSUME NEW msg \in Message
  PROVE  /\ msg.kind \in {"success", "future", "target", "close", "prevhash", "job", "error"}
         /\ msg.kind = "success" => msg.miner \in Miner
         /\ msg.kind # "error" => msg.channel \in UpstreamId
         /\ msg.kind \in {"prevhash", "job"} => msg.tip \in Tip
BY DEF Message

\* The messages the upstream makes.
LEMMA Messages ==
  /\ \A c \in UpstreamId, m \in Miner : Success(c, m) \in Message /\ OpenError(m) \in Message
  /\ \A c \in UpstreamId : Future(c) \in Message /\ Target(c) \in Message /\ Close(c) \in Message
  /\ \A c \in UpstreamId, t \in Tip : PrevHash(c, t) \in Message /\ Job(c, t) \in Message
BY DEF Success, OpenError, Future, Target, Close, PrevHash, Job, Message

\* The first message is taken.
LEMMA Takes ==
  ASSUME Types, NEW kind, Received(kind)
  PROVE  /\ Running /\ stream # <<>> /\ Head(stream) = stream[1] /\ stream[1].kind = kind
         /\ stream[1] \in Message /\ 1 \in DOMAIN stream
         /\ stream' = Tail(stream) /\ stream' \in Seq(Message)
         /\ Len(stream) \in Nat \ {0} /\ DOMAIN stream = 1..Len(stream)
         /\ DOMAIN stream' = 1..(Len(stream) - 1)
         /\ \A i \in DOMAIN stream' : i + 1 \in DOMAIN stream /\ stream'[i] = stream[i + 1]
BY DEF Received, Types

\* Messages are appended.
LEMMA Appends ==
  ASSUME Types, NEW new \in Seq(Message), stream' = stream \o new
  PROVE  /\ stream' \in Seq(Message)
         /\ Len(stream) \in Nat /\ Len(new) \in Nat
         /\ DOMAIN stream = 1..Len(stream) /\ DOMAIN new = 1..Len(new)
         /\ DOMAIN stream' = 1..(Len(stream) + Len(new))
         /\ \A i \in DOMAIN stream : i \in DOMAIN stream' /\ stream'[i] = stream[i]
         /\ \A i \in DOMAIN new :
              Len(stream) + i \in DOMAIN stream' /\ stream'[Len(stream) + i] = new[i]
         /\ \A i \in DOMAIN stream' : i \in DOMAIN stream \/ i - Len(stream) \in DOMAIN new
BY DEF Types

\* A message to a channel changes its job, tip or target, never its prefix.
LEMMA Changes ==
  ASSUME Types, NEW ch \in Channel, stream # <<>>, Head(stream) = stream[1],
         stream[1] \in Message, stream[1].kind \in {"future", "job", "prevhash", "target"}
  PROVE  /\ Changed(ch) \in Channel
         /\ Changed(ch).base = ch.base /\ Changed(ch).ext = ch.ext
         /\ Changed(ch).missed = ch.missed
         /\ Changed(ch).target = IF stream[1].kind = "target" THEN events ELSE ch.target
         /\ Changed(ch).future = IF stream[1].kind = "future" THEN TRUE
                                 ELSE IF stream[1].kind = "prevhash" THEN FALSE ELSE ch.future
         /\ Changed(ch).job = IF stream[1].kind = "job" THEN ch.tip
                              ELSE IF stream[1].kind = "prevhash" /\ ch.future
                                THEN stream[1].tip ELSE ch.job
         /\ Changed(ch).tip = IF stream[1].kind = "prevhash" /\ ch.future
                                THEN stream[1].tip ELSE ch.tip
<1>0. /\ ch.job \in Tip /\ ch.tip \in Tip /\ ch.future \in BOOLEAN
      /\ events \in 0..MaxEvents
  BY DEF Channel, Types
<1>1. CASE stream[1].kind = "future"
  BY <1>0, <1>1 DEF Changed, OnFuture, Channel
<1>2. CASE stream[1].kind = "job"
  BY <1>0, <1>2 DEF Changed, OnJob, Channel
<1>3. CASE stream[1].kind = "prevhash"
  <2>1. stream[1].tip \in Tip
    BY <1>3, Fields
  <2>2. Changed(ch) = OnPrevHash(ch, stream[1].tip)
    BY <1>3 DEF Changed
  <2>3. CASE ch.future
    BY <1>0, <1>3, <2>1, <2>2, <2>3 DEF OnPrevHash, Channel
  <2>4. CASE ~ch.future
    BY <1>0, <1>3, <2>2, <2>4 DEF OnPrevHash, Channel
  <2> QED
    BY <2>3, <2>4
<1>4. CASE stream[1].kind = "target"
  BY <1>0, <1>4 DEF Changed, OnTarget, Channel
<1> QED
  BY <1>1, <1>2, <1>3, <1>4

\* The channels after a job, prev hash or target.
LEMMA Follow ==
  ASSUME Types, NEW kind \in {"future", "job", "prevhash", "target"}, Received(kind),
         ChannelsFollow
  PROVE  /\ DOMAIN extended_channels' = DOMAIN extended_channels
         /\ \A c \in DOMAIN extended_channels :
              /\ extended_channels'[c] = IF Aggregated \/ c = stream[1].channel
                                           THEN Changed(extended_channels[c])
                                           ELSE extended_channels[c]
              /\ extended_channels'[c] \in Channel
              /\ extended_channels'[c].base = extended_channels[c].base
              /\ extended_channels'[c].ext = extended_channels[c].ext
         /\ (Aggregated /\ upstream_channel # None) =>
              /\ upstream_channel' \in [id : UpstreamId, channel : Channel]
              /\ upstream_channel'.id = upstream_channel.id
              /\ upstream_channel'.channel = Changed(upstream_channel.channel)
              /\ upstream_channel.channel \in Channel
         /\ ~(Aggregated /\ upstream_channel # None) => upstream_channel' = upstream_channel
<1>1. /\ stream # <<>> /\ Head(stream) = stream[1] /\ stream[1] \in Message
      /\ stream[1].kind \in {"future", "job", "prevhash", "target"}
  BY Takes
<1>2. \A c \in DOMAIN extended_channels :
        /\ extended_channels[c] \in Channel /\ Changed(extended_channels[c]) \in Channel
        /\ Changed(extended_channels[c]).base = extended_channels[c].base
        /\ Changed(extended_channels[c]).ext = extended_channels[c].ext
  BY <1>1, Changes DEF Types
<1>3. /\ DOMAIN extended_channels' = DOMAIN extended_channels
      /\ \A c \in DOMAIN extended_channels :
           extended_channels'[c] = IF Aggregated \/ c = stream[1].channel
                                     THEN Changed(extended_channels[c])
                                     ELSE extended_channels[c]
  BY <1>1 DEF ChannelsFollow
<1>4. ASSUME Aggregated, upstream_channel # None
      PROVE  /\ upstream_channel' \in [id : UpstreamId, channel : Channel]
             /\ upstream_channel'.id = upstream_channel.id
             /\ upstream_channel'.channel = Changed(upstream_channel.channel)
             /\ upstream_channel.channel \in Channel
  <2>1. upstream_channel \in [id : UpstreamId, channel : Channel]
    BY <1>4 DEF Types
  <2>2. upstream_channel.channel \in Channel
    BY <2>1
  <2>3. Changed(upstream_channel.channel) \in Channel
    BY <1>1, <2>2, Changes
  <2>4. upstream_channel' = [upstream_channel EXCEPT !.channel = Changed(upstream_channel.channel)]
    BY <1>4 DEF ChannelsFollow
  <2> QED
    BY <2>1, <2>2, <2>3, <2>4
<1>5. ~(Aggregated /\ upstream_channel # None) => upstream_channel' = upstream_channel
  BY DEF ChannelsFollow
<1> QED
  BY <1>2, <1>3, <1>4, <1>5

-----------------------------------------------------------------------------
(* The channels: every step keeps IInv. *)

\* Nothing is open at the start.
LEMMA InitInv ==
  ASSUME Init
  PROVE  IInv
<1>1. /\ DOMAIN extended_channels = {} /\ stream = <<>> /\ DOMAIN stream = {}
      /\ pending_channels = {} /\ upstream_channel = None /\ up = FreshUpstream(1)
      /\ DOMAIN up.requests = {} /\ up.requests = <<>> /\ up.open = {} /\ out = NoOut
      /\ up.next = 1
  BY DEF Init, FreshUpstream
<1>2. Types
  <2>1. up \in UpstreamState
    BY <1>1, Constants DEF FreshUpstream, UpstreamState
  <2> QED
    BY <1>1, <2>1, Constants DEF Types, Init
<1>3. Counted /\ AnswersAreFresh
  BY <1>1 DEF Counted, AnswersAreFresh, Answers
<1>4. PrefixSources /\ PrefixesDistinct /\ TipIsJobs /\ OneUpstream /\ ShareOnItsChannel
  BY <1>1 DEF PrefixSources, PrefixesDistinct, TipIsJobs, OneUpstream, ShareOnItsChannel, NoOut
<1> QED
  BY <1>2, <1>3, <1>4 DEF IInv

\* A request goes upstream. The miner never asked before, so no answer on its
\* way is taken for the one it waits for.
LEMMA AskInv ==
  ASSUME IInv, NEW m \in Miner, HandleOpenExtendedMiningChannel(m), AskUpstream(m)
  PROVE  IInv'
<1>1. /\ Types /\ miner[m] = "new" /\ miner' = [miner EXCEPT ![m] = "asked"]
      /\ pending_channels' = pending_channels \cup {m}
      /\ up' = [up EXCEPT !.requests = Append(@, m)]
      /\ UNCHANGED <<mode, cm, extended_channels, upstream_channel, factory, told, out,
                     server_tip, stream, events>>
  BY DEF IInv, HandleOpenExtendedMiningChannel, AskUpstream
<1>2. /\ miner \in [Miner -> {"new", "asked", "gone"}] /\ stream \in Seq(Message)
      /\ up \in UpstreamState
  BY <1>1 DEF Types
<1>3. /\ Old' = Old \cup {m} /\ m \notin Old /\ Cardinality(Old') = Cardinality(Old) + 1
      /\ Cardinality(Old) \in Nat
  BY <1>1, OldGrows, OldMiners DEF Old
<1>4. Types'
  <2>1. up.requests \in Seq(Miner)
    BY <1>2 DEF UpstreamState
  <2>2. Append(up.requests, m) \in Seq(Miner)
    BY <2>1
  <2>3. up' \in UpstreamState
    BY <1>1, <1>2, <2>2 DEF UpstreamState
  <2> QED
    BY <1>1, <1>2, <2>3 DEF Types
<1>5. Counted'
  <2>1. DOMAIN extended_channels \subseteq 1..(MaxOpened + Cardinality(Old))
    BY DEF IInv, Counted
  <2>2. upstream_channel # None => factory.next <= Cardinality(Old) /\ factory.next \in Nat
    BY <1>1 DEF IInv, Counted, Types
  <2> QED
    BY <1>1, <1>3, <2>1, <2>2, Constants DEF Counted
<1>6. AnswersAreFresh'
  <2>0. AnswersAreFresh
    BY DEF IInv
  <2>1. \A i \in DOMAIN stream : Answers(i)' <=> Answers(i)
    BY <1>1, <1>3, <2>0 DEF AnswersAreFresh, Answers
  <2>2. up'.next = up.next /\ pending_channels' \subseteq Old'
    BY <1>1, <1>2, <1>3, <2>0 DEF AnswersAreFresh, UpstreamState
  <2>3. \A i \in DOMAIN up'.requests : up'.requests[i] \in Old'
    BY <1>1, <1>2, <1>3, <2>0 DEF AnswersAreFresh, UpstreamState
  <2> QED
    BY <1>1, <1>3, <2>0, <2>1, <2>2, <2>3 DEF AnswersAreFresh
<1>7. PrefixSources' /\ PrefixesDistinct' /\ TipIsJobs'
  BY <1>1 DEF IInv, PrefixSources, PrefixesDistinct, TipIsJobs, Aggregated
<1>8. up'.next = up.next
  BY <1>1, <1>2 DEF UpstreamState
<1>9. OneUpstream'
  BY <1>1, <1>8 DEF IInv, OneUpstream, Twins, Aggregated
<1>10. ShareOnItsChannel'
  BY <1>1, <1>2, <1>8 DEF IInv, ShareOnItsChannel, Aggregated
<1> QED
  BY <1>4, <1>5, <1>6, <1>7, <1>9, <1>10 DEF IInv

\* A miner joins the shared channel, with the next prefix of the factory.
LEMMA JoinInv ==
  ASSUME IInv, NEW m \in Miner, HandleOpenExtendedMiningChannel(m), Aggregated,
         upstream_channel # None, JoinsShared(m)
  PROVE  IInv'
<1> DEFINE shared == upstream_channel.channel
           joined == [shared EXCEPT !.ext = factory.next + 1, !.future = FALSE,
                                    !.tip = IF shared.job = 0 THEN 0 ELSE @,
                                    !.missed = shared.future]
           id == NextChannelId
<1>1. /\ Types /\ miner[m] = "new" /\ miner' = [miner EXCEPT ![m] = "asked"]
      /\ factory' = [factory EXCEPT !.next = factory.next + 1]
      /\ told' = [told EXCEPT ![m] = id]
      /\ out' = IF shared.job = 0 THEN NoOut ELSE [kind |-> "job", tip |-> shared.job]
      /\ UNCHANGED <<pending_channels, upstream_channel, up, mode, cm, server_tip, stream, events>>
  BY DEF IInv, HandleOpenExtendedMiningChannel, JoinsShared
<1>2. extended_channels' = Put(extended_channels, id, joined)
  BY DEF JoinsShared
<1>3. /\ DOMAIN extended_channels' = DOMAIN extended_channels \cup {id}
      /\ extended_channels'[id] = joined
      /\ \A c \in DOMAIN extended_channels : c # id => extended_channels'[c] = extended_channels[c]
  BY <1>2 DEF Put
<1>4. /\ Old' = Old \cup {m} /\ m \notin Old /\ Cardinality(Old') = Cardinality(Old) + 1
      /\ Cardinality(Old) \in Nat /\ Cardinality(Old) + 1 <= Cardinality(Miner)
      /\ Cardinality(Miner) \in Nat
  BY <1>1, OldGrows, OldMiners, Constants DEF Old
<1>5. id \in 1..(MaxOpened + Cardinality(Old) + 1) /\ id \in Id
  BY <1>4, NextId, Constants DEF IInv, Counted, Id
<1>6. /\ factory \in [base : Id, next : 1..Cardinality(Miner)] /\ factory.next <= Cardinality(Old)
      /\ upstream_channel \in [id : UpstreamId, channel : Channel] /\ shared \in Channel
      /\ shared.base = factory.base /\ upstream_channel.id = factory.base
      /\ shared.tip = shared.job
  BY <1>1 DEF IInv, Counted, Types, PrefixSources, TipIsJobs
<1>7. /\ joined \in Channel /\ joined.base = factory.base /\ joined.ext = factory.next + 1
      /\ joined.tip = shared.tip /\ joined.job = shared.job /\ joined.future = FALSE
      /\ joined.missed = shared.future /\ joined.target = shared.target
  <2>1. factory.next + 1 \in 0..Cardinality(Miner)
    BY <1>4, <1>6
  <2>2. shared.future \in BOOLEAN
    BY <1>6 DEF Channel
  <2> QED
    BY <1>6, <2>1, <2>2, Constants DEF Channel
<1>8. factory' \in [base : Id, next : 1..Cardinality(Miner)] /\ factory'.base = factory.base
      /\ factory'.next = factory.next + 1
  BY <1>1, <1>4, <1>6
<1> HIDE DEF shared, joined, id
<1>9. Types'
  <2>1. \A c \in DOMAIN extended_channels' : extended_channels'[c] \in Channel
    BY <1>1, <1>3, <1>7 DEF Types
  <2>2. told' \in [Miner -> Id \cup {0}] /\ miner' \in [Miner -> {"new", "asked", "gone"}]
    BY <1>1, <1>5 DEF Types
  <2> QED
    BY <1>1, <1>3, <1>5, <1>6, <1>8, <2>1, <2>2 DEF Types
<1>10. Counted'
  <2>1. DOMAIN extended_channels \subseteq 1..(MaxOpened + Cardinality(Old))
    BY DEF IInv, Counted
  <2>2. DOMAIN extended_channels' \subseteq 1..(MaxOpened + Cardinality(Old'))
    BY <1>3, <1>4, <1>5, <2>1, Constants
  <2>3. factory'.next <= Cardinality(Old')
    BY <1>4, <1>6, <1>8
  <2> QED
    BY <2>2, <2>3 DEF Counted
<1>11. AnswersAreFresh'
  <2>0. AnswersAreFresh
    BY DEF IInv
  <2>1. PICK b \in DOMAIN extended_channels : extended_channels[b].base = factory.base
    BY DEF IInv, PrefixSources
  <2>2. \A i : Answers(i)' <=> Answers(i)
    BY <1>1 DEF Answers
  <2>3. \A c \in DOMAIN extended_channels' : \E d \in DOMAIN extended_channels :
           extended_channels'[c].base = extended_channels[d].base
    BY <1>3, <1>7, <2>1
  <2> QED
    BY <1>1, <1>4, <2>0, <2>2, <2>3 DEF AnswersAreFresh
<1>12. PrefixSources'
  <2>1. /\ Aggregated' /\ upstream_channel'.channel.base = factory'.base
        /\ upstream_channel'.id = factory'.base
    BY <1>1, <1>6, <1>8 DEF Aggregated, shared
  <2>2. ASSUME NEW c \in DOMAIN extended_channels', extended_channels'[c].base = factory'.base
        PROVE  extended_channels'[c].ext <= factory'.next
    <3>1. CASE c = id
      BY <1>3, <1>7, <1>8, <1>6, <3>1
    <3>2. CASE c # id
      <4>1. c \in DOMAIN extended_channels /\ extended_channels'[c] = extended_channels[c]
        BY <1>3, <3>2
      <4>2. extended_channels[c].ext <= factory.next /\ extended_channels[c].ext \in Int
        BY <1>1, <1>4, <1>8, <2>2, <4>1 DEF IInv, PrefixSources, Types, Channel
      <4> QED
        BY <1>6, <1>8, <4>1, <4>2
    <3> QED
      BY <3>1, <3>2
  <2>3. \E c \in DOMAIN extended_channels' : extended_channels'[c].base = factory'.base
    BY <1>3, <1>7, <1>8
  <2> QED
    BY <2>1, <2>2, <2>3 DEF PrefixSources
<1>13. PrefixesDistinct'
  <2>1. \A c \in DOMAIN extended_channels : extended_channels[c].base = factory.base =>
          extended_channels[c].ext # factory.next + 1
    <3>1. \A c \in DOMAIN extended_channels : extended_channels[c].ext \in Int
      BY <1>1, <1>4 DEF Types, Channel
    <3>2. \A c \in DOMAIN extended_channels : extended_channels[c].base = factory.base =>
            extended_channels[c].ext <= factory.next
      BY DEF IInv, PrefixSources
    <3> QED
      BY <1>6, <3>1, <3>2
  <2> QED
    BY <1>3, <1>7, <2>1 DEF IInv, PrefixesDistinct
<1>14. TipIsJobs'
  BY <1>1, <1>3, <1>6, <1>7 DEF IInv, TipIsJobs
<1>15. OneUpstream'
  <2> SUFFICES ASSUME up.next <= 2
               PROVE  /\ \A c \in DOMAIN extended_channels' : extended_channels'[c].base = 1
                      /\ upstream_channel'.id = 1
                      /\ \A c \in DOMAIN extended_channels' :
                            extended_channels'[c].missed
                              \/ Twins(extended_channels'[c], upstream_channel'.channel)
    BY <1>1 DEF OneUpstream, Aggregated, Twins
  <2>1. /\ \A c \in DOMAIN extended_channels : extended_channels[c].base = 1
        /\ upstream_channel.id = 1
        /\ \A c \in DOMAIN extended_channels :
             extended_channels[c].missed \/ Twins(extended_channels[c], upstream_channel.channel)
    BY DEF IInv, OneUpstream
  <2>2. shared.future \in BOOLEAN /\ shared = upstream_channel.channel
    BY <1>6 DEF Channel, shared
  <2>3. joined.missed \/ Twins(joined, upstream_channel.channel)
    BY <1>7, <2>2 DEF Twins
  <2> QED
    BY <1>1, <1>3, <1>6, <1>7, <2>1, <2>3
<1>16. ShareOnItsChannel'
  BY <1>1 DEF ShareOnItsChannel, NoOut
<1> QED
  BY <1>9, <1>10, <1>11, <1>12, <1>13, <1>14, <1>15, <1>16 DEF IInv

\* A share is passed on.
LEMMA SubmitInv ==
  ASSUME IInv, NEW m \in Miner, HandleSubmitSharesExtended(m)
  PROVE  IInv'
<1>1. /\ miner[m] = "asked" /\ told[m] \in DOMAIN extended_channels
      /\ out' = Forwarded(m, told[m])
      /\ UNCHANGED <<mode, cm, pending_channels, extended_channels, upstream_channel, factory,
                     told, miner, server_tip, up, stream, events>>
  BY DEF HandleSubmitSharesExtended, cmVars, serverVars
<1>2. Types' /\ Counted' /\ AnswersAreFresh' /\ TipIsJobs'
  BY <1>1 DEF IInv, Types, Counted, Old, AnswersAreFresh, Answers, TipIsJobs
<1>3. PrefixSources' /\ PrefixesDistinct' /\ OneUpstream'
  BY <1>1 DEF IInv, PrefixSources, PrefixesDistinct, OneUpstream, Aggregated, Twins
<1>4. ShareOnItsChannel'
  <2> DEFINE c == told[m]
  <2>1. /\ out'.kind = "share" /\ out'.miner = m /\ out'.base = extended_channels[c].base
        /\ out'.channel = IF Aggregated /\ upstream_channel # None THEN upstream_channel.id ELSE c
    BY <1>1 DEF Forwarded
  <2>2. ~Aggregated => out'.base = out'.channel
    BY <1>1, <2>1 DEF IInv, PrefixSources
  <2>3. (Aggregated /\ up.next <= 2) =>
           out'.base = 1 /\ (out'.channel = 1 \/ (upstream_channel = None
                                                   /\ DOMAIN extended_channels # {}))
    BY <1>1, <2>1 DEF IInv, OneUpstream
  <2> QED
    BY <1>1, <2>1, <2>2, <2>3 DEF ShareOnItsChannel, Aggregated
<1> QED
  BY <1>2, <1>3, <1>4 DEF IInv

\* A vardiff step changes no channel here.
LEMMA UpdateInv ==
  ASSUME IInv, HandleUpdateChannel
  PROVE  IInv'
<1>1. /\ cm' \in {"running", "ended", "panicked"}
      /\ UNCHANGED <<mode, pending_channels, extended_channels, upstream_channel, factory,
                     told, miner, server_tip, out, up, stream, events>>
  BY DEF IInv, Types, HandleUpdateChannel, UpdateChannel, cmVars, serverVars
<1>2. Types' /\ Counted' /\ AnswersAreFresh' /\ TipIsJobs'
  BY <1>1 DEF IInv, Types, Counted, Old, AnswersAreFresh, Answers, TipIsJobs
<1>3. PrefixSources' /\ PrefixesDistinct' /\ OneUpstream' /\ ShareOnItsChannel'
  BY <1>1 DEF IInv, PrefixSources, PrefixesDistinct, OneUpstream, Aggregated, Twins,
              ShareOnItsChannel
<1> QED
  BY <1>2, <1>3 DEF IInv

\* A miner that leaves keeps its channel, and never asks again.
LEMMA GoneInv ==
  ASSUME IInv, NEW m \in Miner, HandleMinerGone(m)
  PROVE  IInv'
<1>1. /\ Types /\ miner' = [miner EXCEPT ![m] = "gone"]
      /\ up' = IF Aggregated THEN up ELSE [up EXCEPT !.open = @ \ {told[m]}]
      /\ cm' \in {"running", "ended", "panicked"}
      /\ UNCHANGED <<mode, pending_channels, extended_channels, upstream_channel, factory,
                     told, server_tip, out, stream, events>>
  BY DEF IInv, Types, HandleMinerGone, UpdateChannel, cmVars
<1>2. /\ miner \in [Miner -> {"new", "asked", "gone"}] /\ up \in UpstreamState
  BY <1>1 DEF Types
<1>3. /\ miner' \in [Miner -> {"new", "asked", "gone"}]
      /\ \A x \in Miner : miner'[x] = IF x = m THEN "gone" ELSE miner[x]
  BY <1>1, <1>2
<1>4. up' \in UpstreamState /\ up'.next = up.next /\ up'.requests = up.requests
  BY <1>1, <1>2 DEF UpstreamState
<1>5. /\ Old \subseteq Old' /\ Cardinality(Old) \in Nat /\ Cardinality(Old') \in Nat
      /\ Cardinality(Old) <= Cardinality(Old')
  BY <1>3, OldKept
<1>6. Types'
  BY <1>1, <1>3, <1>4 DEF Types
<1>7. Counted'
  <2>1. DOMAIN extended_channels \subseteq 1..(MaxOpened + Cardinality(Old))
    BY DEF IInv, Counted
  <2>2. upstream_channel # None => factory.next <= Cardinality(Old) /\ factory.next \in Nat
    BY <1>1 DEF IInv, Counted, Types
  <2> QED
    BY <1>1, <1>5, <2>1, <2>2, Constants DEF Counted
<1>8. AnswersAreFresh' /\ TipIsJobs'
  BY <1>1, <1>4, <1>5 DEF IInv, AnswersAreFresh, Answers, TipIsJobs
<1>9. PrefixSources' /\ PrefixesDistinct' /\ OneUpstream'
  BY <1>1, <1>4 DEF IInv, PrefixSources, PrefixesDistinct, OneUpstream, Aggregated, Twins
<1>10. ShareOnItsChannel'
  BY <1>1, <1>3, <1>4 DEF IInv, ShareOnItsChannel, Aggregated
<1> QED
  BY <1>6, <1>7, <1>8, <1>9, <1>10 DEF IInv

\* The upstream sends messages that answer no request.
LEMMA SendsInv ==
  ASSUME IInv, NEW new \in Seq(Message), stream' = stream \o new,
         \A i \in DOMAIN new : new[i].kind # "success",
         up' \in UpstreamState, up'.next = up.next, events' \in 0..MaxEvents,
         \A i \in DOMAIN up'.requests : up'.requests[i] \in Old,
         UNCHANGED <<mode, cm, cmVars, serverVars, out>>
  PROVE  IInv'
<1>1. /\ Types
      /\ UNCHANGED <<mode, cm, pending_channels, extended_channels, upstream_channel, factory,
                     told, miner, server_tip, out>>
  BY DEF IInv, cmVars, serverVars
<1>2. stream' \in Seq(Message)
      /\ \A i \in DOMAIN stream' :
           (i \in DOMAIN stream /\ stream'[i] = stream[i]) \/ stream'[i].kind # "success"
  BY <1>1, Appends
<1>3. Types' /\ Counted'
  BY <1>1, <1>2 DEF IInv, Types, Counted, Old
<1>4. \A i \in DOMAIN stream' :
        stream'[i].kind = "success" => i \in DOMAIN stream /\ stream'[i] = stream[i]
  BY <1>2
<1>5. \A i \in DOMAIN stream' : Answers(i)' => Answers(i) /\ i \in DOMAIN stream
                                                 /\ stream'[i] = stream[i]
  BY <1>1, <1>4 DEF Answers
<1>6. AnswersAreFresh'
  <2>1. Old' = Old
    BY <1>1 DEF Old
  <2> QED
    BY <1>1, <1>4, <1>5, <2>1 DEF IInv, AnswersAreFresh
<1>7. PrefixSources' /\ PrefixesDistinct' /\ TipIsJobs'
  BY <1>1 DEF IInv, PrefixSources, PrefixesDistinct, Aggregated, TipIsJobs
<1>8. OneUpstream' /\ ShareOnItsChannel'
  BY <1>1 DEF IInv, OneUpstream, Aggregated, Twins, ShareOnItsChannel
<1> QED
  BY <1>3, <1>6, <1>7, <1>8 DEF IInv

\* The requests that remain when the first is served.
LEMMA Requests ==
  ASSUME IInv, up.requests # <<>>
  PROVE  /\ up \in UpstreamState /\ up.requests \in Seq(Miner)
         /\ Tail(up.requests) \in Seq(Miner) /\ Head(up.requests) \in Old
         /\ \A i \in DOMAIN Tail(up.requests) : Tail(up.requests)[i] \in Old
<1>1. up \in UpstreamState /\ up.requests \in Seq(Miner)
  BY DEF IInv, Types, UpstreamState
<1>2. \A i \in DOMAIN up.requests : up.requests[i] \in Old
  BY DEF IInv, AnswersAreFresh
<1> QED
  BY <1>1, <1>2

\* The upstream opens a channel with a number that is not in use.
LEMMA OpensInv ==
  ASSUME IInv, UpstreamOpens
  PROVE  IInv'
<1> DEFINE new == <<Success(up.next, Head(up.requests)), Future(up.next),
                    PrevHash(up.next, up.tip)>>
<1>1. /\ Types /\ up.requests # <<>> /\ up.next <= MaxOpened
      /\ up' = [up EXCEPT !.requests = Tail(@), !.next = @ + 1, !.open = @ \cup {up.next}]
      /\ stream' = stream \o new
      /\ UNCHANGED <<mode, cm, pending_channels, extended_channels, upstream_channel, factory,
                     told, miner, server_tip, out, events>>
  BY DEF IInv, UpstreamOpens, cmVars, serverVars
<1>2. /\ up \in UpstreamState /\ Tail(up.requests) \in Seq(Miner) /\ Head(up.requests) \in Old
      /\ \A i \in DOMAIN Tail(up.requests) : Tail(up.requests)[i] \in Old
  BY <1>1, Requests
<1>3. up.next \in UpstreamId /\ up.tip \in Tip /\ Head(up.requests) \in Miner
  BY <1>1, <1>2, Constants DEF UpstreamState, UpstreamId, Tip, Old
<1>4. new \in Seq(Message) /\ Len(new) = 3
  BY <1>3, Messages
<1>5. /\ new[1].kind = "success" /\ new[1].channel = up.next /\ new[1].miner = Head(up.requests)
      /\ new[2].kind # "success" /\ new[3].kind # "success"
  BY DEF Success, Future, PrevHash
<1> HIDE DEF new
<1>6. /\ up' \in UpstreamState /\ up'.next = up.next + 1 /\ up.next \in Nat
      /\ up'.requests = Tail(up.requests)
  <2>1. up.next \in Nat /\ up.next + 1 \in 1..(MaxOpened + 1)
    BY <1>1, <1>3, Constants DEF UpstreamId
  <2>2. up.open \cup {up.next} \in SUBSET UpstreamId
    BY <1>2, <1>3 DEF UpstreamState
  <2> QED
    BY <1>1, <1>2, <2>1, <2>2 DEF UpstreamState
<1>7. /\ stream' \in Seq(Message) /\ DOMAIN stream' = 1..(Len(stream) + 3)
      /\ DOMAIN stream = 1..Len(stream) /\ Len(stream) \in Nat
      /\ \A i \in DOMAIN stream : stream'[i] = stream[i]
      /\ stream'[Len(stream) + 1] = new[1] /\ stream'[Len(stream) + 2] = new[2]
      /\ stream'[Len(stream) + 3] = new[3]
  <2>1. 1 \in DOMAIN new /\ 2 \in DOMAIN new /\ 3 \in DOMAIN new
    BY <1>4
  <2>2. /\ stream' \in Seq(Message) /\ DOMAIN stream' = 1..(Len(stream) + 3)
        /\ DOMAIN stream = 1..Len(stream) /\ Len(stream) \in Nat
        /\ \A i \in DOMAIN stream : stream'[i] = stream[i]
    BY <1>1, <1>4, Appends
  <2>3. \A i \in DOMAIN new : stream'[Len(stream) + i] = new[i]
    BY <1>1, <1>4, Appends
  <2> QED
    BY <2>1, <2>2, <2>3
<1>8. Types'
  BY <1>1, <1>6, <1>7 DEF Types
<1>9. Counted'
  BY <1>1 DEF IInv, Counted, Old
<1>10. AnswersAreFresh'
  <2>0. AnswersAreFresh /\ Old' = Old
    BY <1>1 DEF IInv, Old
  <2>1. \A i \in DOMAIN stream' : stream'[i].kind = "success" =>
          \/ i \in DOMAIN stream /\ stream'[i] = stream[i]
          \/ i = Len(stream) + 1 /\ stream'[i] = new[1]
    BY <1>5, <1>7
  <2>2. \A i \in DOMAIN stream' : Answers(i)' =>
          \/ i \in DOMAIN stream /\ Answers(i) /\ stream'[i] = stream[i]
          \/ i = Len(stream) + 1 /\ stream'[i].channel = up.next
    BY <1>1, <1>5, <2>1 DEF Answers
  <2>3. \A i \in DOMAIN stream : Answers(i) => stream[i].channel < up.next /\ stream[i].channel \in Nat
    <3>1. \A i \in DOMAIN stream : stream[i] \in Message
      BY <1>1 DEF Types
    <3> QED
      BY <2>0, <3>1, Fields, Constants DEF AnswersAreFresh, Answers
  <2>4. \A c \in DOMAIN extended_channels : extended_channels[c].base < up.next
                                              /\ extended_channels[c].base \in Nat
    BY <1>1, <2>0, Constants DEF AnswersAreFresh, Types, Channel
  <2>5. /\ pending_channels' \subseteq Old'
        /\ \A i \in DOMAIN up'.requests : up'.requests[i] \in Old'
        /\ \A i \in DOMAIN stream' : stream'[i].kind = "success" => stream'[i].miner \in Old'
    BY <1>1, <1>2, <1>5, <1>6, <2>0, <2>1 DEF AnswersAreFresh
  <2>6. /\ \A c \in DOMAIN extended_channels' : extended_channels'[c].base < up'.next
        /\ \A i \in DOMAIN stream' : Answers(i)' =>
             /\ stream'[i].channel < up'.next
             /\ \A c \in DOMAIN extended_channels' :
                  extended_channels'[c].base # stream'[i].channel
    BY <1>1, <1>6, <2>0, <2>2, <2>3, <2>4 DEF AnswersAreFresh
  <2>7. ASSUME NEW i \in DOMAIN stream', NEW j \in DOMAIN stream', i < j, Answers(i)', Answers(j)'
        PROVE  stream'[i].channel < stream'[j].channel
    <3>1. i \in DOMAIN stream /\ Answers(i) /\ stream'[i] = stream[i]
      BY <1>7, <2>2, <2>7
    <3>2. CASE j \in DOMAIN stream /\ Answers(j) /\ stream'[j] = stream[j]
      BY <2>0, <2>7, <3>1, <3>2 DEF AnswersAreFresh
    <3>3. CASE j = Len(stream) + 1 /\ stream'[j].channel = up.next
      BY <2>3, <3>1, <3>3
    <3> QED
      BY <2>2, <2>7, <3>2, <3>3
  <2> QED
    BY <2>5, <2>6, <2>7 DEF AnswersAreFresh
<1>11. PrefixSources' /\ PrefixesDistinct' /\ TipIsJobs'
  BY <1>1 DEF IInv, PrefixSources, PrefixesDistinct, Aggregated, TipIsJobs
<1>12. OneUpstream' /\ ShareOnItsChannel'
  BY <1>1, <1>6 DEF IInv, OneUpstream, Aggregated, Twins, ShareOnItsChannel
<1> QED
  BY <1>8, <1>9, <1>10, <1>11, <1>12 DEF IInv

\* A message is taken and no channel changes.
LEMMA TakenInv ==
  ASSUME IInv, NEW kind, Received(kind), cm' \in {"running", "ended", "panicked"},
         UNCHANGED <<mode, cmVars, serverVars, out, up, events>>
  PROVE  IInv'
<1>1. /\ Types
      /\ UNCHANGED <<mode, pending_channels, extended_channels, upstream_channel, factory,
                     told, miner, server_tip, out, up, events>>
  BY DEF IInv, cmVars, serverVars
<1>2. /\ stream' \in Seq(Message)
      /\ \A i \in DOMAIN stream' : i \in Int /\ i + 1 \in DOMAIN stream /\ stream'[i] = stream[i + 1]
  BY <1>1, Takes
<1>3. Types' /\ Counted'
  BY <1>1, <1>2 DEF IInv, Types, Counted, Old
<1>4. AnswersAreFresh'
  <2>1. Old' = Old
    BY <1>1 DEF Old
  <2>2. \A i \in DOMAIN stream' : Answers(i)' <=> Answers(i + 1)
    BY <1>1, <1>2 DEF Answers
  <2>3. \A i, j \in DOMAIN stream' : i < j => i + 1 < j + 1
    BY <1>2
  <2> QED
    BY <1>1, <1>2, <2>1, <2>2, <2>3 DEF IInv, AnswersAreFresh
<1>5. PrefixSources' /\ PrefixesDistinct' /\ TipIsJobs'
  BY <1>1 DEF IInv, PrefixSources, PrefixesDistinct, Aggregated, TipIsJobs
<1>6. OneUpstream' /\ ShareOnItsChannel'
  BY <1>1 DEF IInv, OneUpstream, Aggregated, Twins, ShareOnItsChannel
<1> QED
  BY <1>3, <1>4, <1>5, <1>6 DEF IInv

\* A job, prev hash or target: in aggregated mode the channels change alike.
LEMMA FollowInv ==
  ASSUME IInv, NEW kind \in {"future", "job", "prevhash", "target"}, Received(kind),
         ChannelsFollow, out'.kind = "share" => out' = out, server_tip' \in Tip,
         UNCHANGED <<mode, cm, pending_channels, factory, told, miner, up, events>>
  PROVE  IInv'
<1>1. /\ Types /\ stream # <<>> /\ Head(stream) = stream[1] /\ stream[1] \in Message
      /\ stream[1].kind \in {"future", "job", "prevhash", "target"}
  BY Takes DEF IInv
<1>2. /\ stream' \in Seq(Message)
      /\ \A i \in DOMAIN stream' : i \in Int /\ i + 1 \in DOMAIN stream /\ stream'[i] = stream[i + 1]
  BY <1>1, Takes
<1>3. /\ DOMAIN extended_channels' = DOMAIN extended_channels
      /\ \A c \in DOMAIN extended_channels :
           /\ extended_channels'[c] = IF Aggregated \/ c = stream[1].channel
                                        THEN Changed(extended_channels[c])
                                        ELSE extended_channels[c]
           /\ extended_channels'[c] \in Channel
           /\ extended_channels'[c].base = extended_channels[c].base
           /\ extended_channels'[c].ext = extended_channels[c].ext
      /\ (Aggregated /\ upstream_channel # None) =>
           /\ upstream_channel' \in [id : UpstreamId, channel : Channel]
           /\ upstream_channel'.id = upstream_channel.id
           /\ upstream_channel'.channel = Changed(upstream_channel.channel)
           /\ upstream_channel.channel \in Channel
      /\ ~(Aggregated /\ upstream_channel # None) => upstream_channel' = upstream_channel
  BY <1>1, Follow
<1>4. ~Aggregated => upstream_channel = None /\ upstream_channel' = None
  BY <1>3 DEF IInv, PrefixSources
<1>5. \A c \in DOMAIN extended_channels : extended_channels[c] \in Channel
  BY <1>1 DEF Types
<1>6. Types'
  BY <1>1, <1>2, <1>3, <1>4 DEF Types
<1>7. upstream_channel' # None => upstream_channel # None
  BY <1>3
<1>8. Counted'
  BY <1>3, <1>7 DEF IInv, Counted, Old
<1>9. AnswersAreFresh'
  <2>1. Old' = Old
    BY DEF Old
  <2>2. \A i \in DOMAIN stream' : Answers(i)' <=> Answers(i + 1)
    BY <1>2 DEF Answers
  <2>3. \A i, j \in DOMAIN stream' : i < j => i + 1 < j + 1
    BY <1>2
  <2>4. AnswersAreFresh
    BY DEF IInv
  <2> QED
    BY <1>2, <1>3, <2>1, <2>2, <2>3, <2>4 DEF AnswersAreFresh
<1>10. PrefixSources'
  <2>1. upstream_channel' # None => upstream_channel'.channel.base = upstream_channel.channel.base
    BY <1>1, <1>3, <1>4, <1>7, Changes
  <2> QED
    BY <1>3, <1>4, <1>7, <2>1 DEF IInv, PrefixSources, Aggregated
<1>11. PrefixesDistinct'
  BY <1>3 DEF IInv, PrefixesDistinct
<1>12. TipIsJobs'
  <2>1. \A ch \in Channel : ch.tip = ch.job => Changed(ch).tip = Changed(ch).job
    <3> SUFFICES ASSUME NEW ch \in Channel, ch.tip = ch.job
                 PROVE  Changed(ch).tip = Changed(ch).job
      OBVIOUS
    <3>1. Changed(ch).job = IF stream[1].kind = "job" THEN ch.tip
                            ELSE IF stream[1].kind = "prevhash" /\ ch.future
                              THEN stream[1].tip ELSE ch.job
      BY <1>1, Changes
    <3>2. Changed(ch).tip = IF stream[1].kind = "prevhash" /\ ch.future
                              THEN stream[1].tip ELSE ch.tip
      BY <1>1, Changes
    <3> QED
      BY <3>1, <3>2
  <2>2. \A c \in DOMAIN extended_channels' : extended_channels'[c].tip = extended_channels'[c].job
    BY <1>3, <1>5, <2>1 DEF IInv, TipIsJobs
  <2>3. upstream_channel' # None => upstream_channel'.channel.tip = upstream_channel'.channel.job
    BY <1>3, <1>4, <1>7, <2>1 DEF IInv, TipIsJobs
  <2> QED
    BY <2>2, <2>3 DEF TipIsJobs
<1>13. OneUpstream'
  <2>1. \A own, shared \in Channel : Twins(own, shared) => Twins(Changed(own), Changed(shared))
    <3> SUFFICES ASSUME NEW own \in Channel, NEW shared \in Channel, Twins(own, shared)
                 PROVE  Twins(Changed(own), Changed(shared))
      OBVIOUS
    <3>1. own.future = shared.future /\ own.tip = shared.tip /\ own.job = shared.job
          /\ own.target = shared.target
      BY DEF Twins
    <3>2. /\ Changed(own).target = Changed(shared).target
          /\ Changed(own).future = Changed(shared).future
      <4>1. \A ch \in Channel :
              /\ Changed(ch).target = IF stream[1].kind = "target" THEN events ELSE ch.target
              /\ Changed(ch).future = IF stream[1].kind = "future" THEN TRUE
                                      ELSE IF stream[1].kind = "prevhash" THEN FALSE ELSE ch.future
        BY <1>1, Changes, Zenon
      <4> QED
        BY <3>1, <4>1
    <3>3. Changed(own).job = Changed(shared).job /\ Changed(own).tip = Changed(shared).tip
      BY <1>1, <3>1, Changes
    <3> QED
      BY <3>2, <3>3 DEF Twins
  <2>2. \A ch \in Channel : Changed(ch).missed = ch.missed
    BY <1>1, Changes
  <2> SUFFICES ASSUME Aggregated, up.next <= 2
               PROVE  /\ \A c \in DOMAIN extended_channels' : extended_channels'[c].base = 1
                      /\ upstream_channel' # None =>
                           /\ upstream_channel'.id = 1
                           /\ \A c \in DOMAIN extended_channels' :
                                extended_channels'[c].missed
                                  \/ Twins(extended_channels'[c], upstream_channel'.channel)
    BY DEF OneUpstream, Aggregated, Twins
  <2>3. /\ \A c \in DOMAIN extended_channels : extended_channels[c].base = 1
        /\ upstream_channel # None =>
             /\ upstream_channel.id = 1
             /\ \A c \in DOMAIN extended_channels :
                  extended_channels[c].missed
                    \/ Twins(extended_channels[c], upstream_channel.channel)
    BY DEF IInv, OneUpstream
  <2>4. \A c \in DOMAIN extended_channels : extended_channels'[c] = Changed(extended_channels[c])
    BY <1>3
  <2>5. upstream_channel # None =>
          \A c \in DOMAIN extended_channels :
            extended_channels'[c].missed
              \/ Twins(extended_channels'[c], Changed(upstream_channel.channel))
    BY <1>3, <1>5, <2>1, <2>2, <2>3, <2>4
  <2> QED
    BY <1>3, <1>7, <2>3, <2>5
<1>14. ShareOnItsChannel'
  BY <1>3, <1>4, <1>7 DEF IInv, ShareOnItsChannel, Aggregated
<1> QED
  BY <1>6, <1>8, <1>9, <1>10, <1>11, <1>12, <1>13, <1>14 DEF IInv

\* An expected answer: the channel's number is in nobody's prefix. In aggregated
\* mode with one upstream channel it is the first channel of all.
LEMMA SuccessInv ==
  ASSUME IInv, Received("success"), stream[1].miner \in pending_channels,
         pending_channels' = pending_channels \ {stream[1].miner},
         \/ Aggregated /\ OpensShared(stream[1].channel)
         \/ ~Aggregated /\ OpensOwn(stream[1].channel),
         told' = [told EXCEPT ![stream[1].miner] = stream[1].channel],
         UNCHANGED <<mode, cm, miner, server_tip, out, up, events>>
  PROVE  IInv'
<1> DEFINE m == stream[1].miner
           c == stream[1].channel
<1>1. /\ Types /\ stream[1] \in Message /\ stream[1].kind = "success" /\ 1 \in DOMAIN stream
      /\ stream' \in Seq(Message)
      /\ \A i \in DOMAIN stream' : i \in Int /\ i + 1 \in DOMAIN stream /\ 1 < i + 1
                                     /\ stream'[i] = stream[i + 1]
  BY Takes DEF IInv
<1>2. m \in Miner /\ c \in UpstreamId /\ c \in Id /\ c \in Nat
  BY <1>1, Fields, Constants
<1>3. Answers(1)
  BY <1>1 DEF Answers
<1>4. c < up.next /\ \A d \in DOMAIN extended_channels : extended_channels[d].base # c
  BY <1>1, <1>3 DEF IInv, AnswersAreFresh
<1>5. /\ Cardinality(Old) \in Nat /\ Cardinality(Old) >= 1
      /\ Cardinality(Miner) \in Nat /\ Cardinality(Miner) >= 1 /\ Old' = Old
  <2>1. m \in Old
    BY DEF IInv, AnswersAreFresh
  <2> QED
    BY <2>1, OldMiners, Constants DEF Old
<1>6. \A ext \in {0, 1} :
        /\ NewChannel(c, ext) \in Channel /\ NewChannel(c, ext).base = c
        /\ NewChannel(c, ext).ext = ext /\ NewChannel(c, ext).tip = NewChannel(c, ext).job
  BY <1>2, <1>5, Constants DEF NewChannel, Channel
<1>7. PICK ext \in {0, 1} :
        /\ extended_channels' = Put(extended_channels, c, NewChannel(c, ext))
        /\ Aggregated => ext = 1
  BY DEF OpensShared, OpensOwn
<1>8. /\ DOMAIN extended_channels' = DOMAIN extended_channels \cup {c}
      /\ extended_channels'[c] = NewChannel(c, ext)
      /\ \A d \in DOMAIN extended_channels : d # c => extended_channels'[d] = extended_channels[d]
  BY <1>7 DEF Put
<1>9. /\ Aggregated => upstream_channel' = [id |-> c, channel |-> NewChannel(c, 0)]
                         /\ factory' = [base |-> c, next |-> 1]
      /\ ~Aggregated => upstream_channel' = None /\ upstream_channel = None
  BY DEF OpensShared, OpensOwn, IInv, PrefixSources
<1>10. upstream_channel' # None =>
         /\ Aggregated
         /\ upstream_channel' \in [id : UpstreamId, channel : Channel]
         /\ upstream_channel'.id = c /\ upstream_channel'.channel = NewChannel(c, 0)
         /\ factory' \in [base : Id, next : 1..Cardinality(Miner)]
         /\ factory'.base = c /\ factory'.next = 1
  BY <1>2, <1>5, <1>6, <1>9
<1> HIDE DEF m, c
<1>11. Types'
  <2>1. \A d \in DOMAIN extended_channels' : extended_channels'[d] \in Channel
    BY <1>1, <1>6, <1>8 DEF Types
  <2>2. told' \in [Miner -> Id \cup {0}]
    BY <1>1, <1>2 DEF Types, c, m
  <2> QED
    BY <1>1, <1>2, <1>8, <1>10, <2>1, <2>2 DEF Types
<1>12. Counted'
  <2>1. DOMAIN extended_channels \subseteq 1..(MaxOpened + Cardinality(Old))
    BY DEF IInv, Counted
  <2>2. c \in 1..(MaxOpened + Cardinality(Old))
    BY <1>2, <1>5, Constants DEF UpstreamId
  <2> QED
    BY <1>5, <1>8, <1>10, <2>1, <2>2 DEF Counted
<1>13. AnswersAreFresh'
  <2>0. AnswersAreFresh
    BY DEF IInv
  <2>1. \A i \in DOMAIN stream' : Answers(i)' => Answers(i + 1)
    BY <1>1 DEF Answers
  <2>2. \A i \in DOMAIN stream' : Answers(i)' => c < stream'[i].channel
    BY <1>1, <1>3, <2>0, <2>1 DEF AnswersAreFresh, c
  <2>3. \A i \in DOMAIN stream' : stream'[i].kind = "success" => stream'[i].channel \in Nat
    <3>1. \A i \in DOMAIN stream' : stream'[i] \in Message
      BY <1>1
    <3> QED
      BY <3>1, Fields, Constants
  <2>4. /\ pending_channels' \subseteq Old'
        /\ \A i \in DOMAIN up'.requests : up'.requests[i] \in Old'
        /\ \A i \in DOMAIN stream' : stream'[i].kind = "success" => stream'[i].miner \in Old'
        /\ \A d \in DOMAIN extended_channels' : extended_channels'[d].base < up'.next
    BY <1>1, <1>4, <1>5, <1>6, <1>8, <2>0 DEF AnswersAreFresh
  <2>5. ASSUME NEW i \in DOMAIN stream', Answers(i)'
        PROVE  /\ stream'[i].channel < up'.next
               /\ \A d \in DOMAIN extended_channels' :
                    extended_channels'[d].base # stream'[i].channel
    <3>1. c # stream'[i].channel
      BY <1>2, <2>2, <2>3, <2>5 DEF Answers
    <3>2. /\ stream'[i].channel < up'.next
          /\ \A d \in DOMAIN extended_channels : extended_channels[d].base # stream'[i].channel
      BY <1>1, <2>0, <2>1, <2>5 DEF AnswersAreFresh
    <3> QED
      BY <1>6, <1>8, <3>1, <3>2
  <2>6. \A i, j \in DOMAIN stream' :
          i < j /\ Answers(i)' /\ Answers(j)' => stream'[i].channel < stream'[j].channel
    <3>1. \A i, j \in DOMAIN stream' : i < j => i + 1 < j + 1
      BY <1>1
    <3> QED
      BY <1>1, <2>0, <2>1, <3>1 DEF AnswersAreFresh
  <2> QED
    BY <2>4, <2>5, <2>6 DEF AnswersAreFresh
<1>14. PrefixSources'
  <2>1. \A d \in DOMAIN extended_channels' : d # c => extended_channels'[d].base # c
    BY <1>4, <1>8 DEF c
  <2>2. upstream_channel' # None =>
          /\ upstream_channel'.channel.base = factory'.base /\ upstream_channel'.id = factory'.base
          /\ \A d \in DOMAIN extended_channels' :
               extended_channels'[d].base = factory'.base => extended_channels'[d].ext <= factory'.next
          /\ \E d \in DOMAIN extended_channels' : extended_channels'[d].base = factory'.base
    BY <1>6, <1>8, <1>10, <2>1
  <2>3. ~Aggregated => \A d \in DOMAIN extended_channels' : extended_channels'[d].base = d
    BY <1>6, <1>8 DEF IInv, PrefixSources
  <2> QED
    BY <1>9, <2>2, <2>3 DEF PrefixSources, Aggregated
<1>15. PrefixesDistinct'
  BY <1>4, <1>6, <1>8 DEF IInv, PrefixesDistinct, c
<1>16. TipIsJobs'
  BY <1>6, <1>8, <1>10 DEF IInv, TipIsJobs
<1>17. ASSUME Aggregated, up.next <= 2
       PROVE  c = 1 /\ DOMAIN extended_channels = {}
  <2>1. c = 1
    BY <1>1, <1>2, <1>4, <1>17, Constants DEF Types, UpstreamState, UpstreamId, c
  <2> QED
    BY <1>4, <1>17, <2>1 DEF IInv, OneUpstream, c
<1>18. OneUpstream'
  <2> SUFFICES ASSUME Aggregated, up.next <= 2
               PROVE  /\ \A d \in DOMAIN extended_channels' : extended_channels'[d].base = 1
                      /\ upstream_channel' # None =>
                           /\ upstream_channel'.id = 1
                           /\ \A d \in DOMAIN extended_channels' :
                                extended_channels'[d].missed
                                  \/ Twins(extended_channels'[d], upstream_channel'.channel)
    BY DEF OneUpstream, Aggregated, Twins
  <2>1. Twins(NewChannel(c, ext), NewChannel(c, 0))
    BY DEF Twins, NewChannel
  <2> QED
    BY <1>6, <1>8, <1>10, <1>17, <2>1
<1>19. ShareOnItsChannel'
  BY <1>17 DEF IInv, ShareOnItsChannel, Aggregated
<1> QED
  BY <1>11, <1>12, <1>13, <1>14, <1>15, <1>16, <1>18, <1>19 DEF IInv

\* A channel is closed.
LEMMA CloseInv ==
  ASSUME IInv, HandleCloseChannel
  PROVE  IInv'
<1>1. /\ Types /\ stream' \in Seq(Message)
      /\ \A i \in DOMAIN stream' : i \in Int /\ i + 1 \in DOMAIN stream /\ stream'[i] = stream[i + 1]
  BY Takes DEF IInv, HandleCloseChannel
<1>2. UNCHANGED <<mode, cm, pending_channels, factory, told, miner, server_tip, out, up, events>>
  BY DEF HandleCloseChannel, serverVars
<1>3. /\ DOMAIN extended_channels' \subseteq DOMAIN extended_channels
      /\ \A c \in DOMAIN extended_channels' : extended_channels'[c] = extended_channels[c]
      /\ Aggregated => upstream_channel' = None /\ extended_channels' = extended_channels
      /\ ~Aggregated => upstream_channel' = None /\ upstream_channel = None
  BY DEF HandleCloseChannel, IInv, PrefixSources
<1>4. upstream_channel' = None
  BY <1>3
<1>5. Types' /\ Counted'
  <2>1. Old' = Old
    BY <1>2 DEF Old
  <2> QED
    BY <1>1, <1>2, <1>3, <1>4, <2>1 DEF IInv, Types, Counted
<1>6. AnswersAreFresh'
  <2>1. Old' = Old
    BY <1>2 DEF Old
  <2>2. \A i \in DOMAIN stream' : Answers(i)' <=> Answers(i + 1)
    BY <1>1, <1>2 DEF Answers
  <2>3. \A i, j \in DOMAIN stream' : i < j => i + 1 < j + 1
    BY <1>1
  <2>4. AnswersAreFresh
    BY DEF IInv
  <2> QED
    BY <1>1, <1>2, <1>3, <2>1, <2>2, <2>3, <2>4 DEF AnswersAreFresh
<1>7. PrefixSources' /\ PrefixesDistinct' /\ TipIsJobs'
  BY <1>2, <1>3, <1>4 DEF IInv, PrefixSources, PrefixesDistinct, Aggregated, TipIsJobs
<1>8. OneUpstream'
  BY <1>2, <1>3, <1>4 DEF IInv, OneUpstream, Aggregated
<1>9. ShareOnItsChannel'
  <2>1. ASSUME out.kind = "share", Aggregated, up.next <= 2, miner[out.miner] = "asked"
        PROVE  out.base = 1 /\ (out.channel = 1 \/ DOMAIN extended_channels # {})
    BY <2>1 DEF IInv, ShareOnItsChannel
  <2> QED
    BY <1>2, <1>3, <1>4, <2>1 DEF IInv, ShareOnItsChannel, Aggregated
<1> QED
  BY <1>5, <1>6, <1>7, <1>8, <1>9 DEF IInv

\* The upstream is replaced: nothing is open, and no miner here waits for an
\* answer of the old one.
LEMMA FallbackInv ==
  ASSUME IInv, Fallback
  PROVE  IInv'
<1>1. /\ Types /\ DOMAIN extended_channels' = {} /\ pending_channels' = {}
      /\ upstream_channel' = None
      /\ told' = [m \in Miner |-> 0] /\ events' = events + 1 /\ events < MaxEvents
      /\ miner' = [m \in Miner |-> IF miner[m] = "new" THEN "new" ELSE "gone"]
      /\ UNCHANGED <<mode, cm, server_tip, out, stream>> /\ up' = FreshUpstream(up.tip)
  BY DEF IInv, Fallback, Event
<1>2. /\ up.tip \in 1..MaxTip /\ up'.requests = <<>> /\ up'.open = {} /\ up'.next = 1
      /\ up'.tip = up.tip
  BY <1>1 DEF Types, FreshUpstream, UpstreamState
<1>3. up' \in UpstreamState
  BY <1>1, <1>2, Constants DEF UpstreamState, FreshUpstream
<1>4. /\ miner' \in [Miner -> {"new", "asked", "gone"}]
      /\ \A m \in Miner : miner'[m] = IF miner[m] = "new" THEN "new" ELSE "gone"
  BY <1>1
<1>5. Old' = Old
  BY <1>4 DEF Old
<1>6. Types'
  <2>1. events' \in 0..MaxEvents
    BY <1>1, Constants DEF Types
  <2> QED
    BY <1>1, <1>3, <1>4, <2>1 DEF Types
<1>7. Counted' /\ AnswersAreFresh'
  BY <1>1, <1>2, <1>5 DEF IInv, Counted, AnswersAreFresh, Answers
<1>8. PrefixSources' /\ PrefixesDistinct' /\ TipIsJobs' /\ OneUpstream'
  BY <1>1 DEF PrefixSources, PrefixesDistinct, TipIsJobs, OneUpstream
<1>9. ShareOnItsChannel'
  BY <1>1, <1>4 DEF IInv, ShareOnItsChannel, Aggregated
<1> QED
  BY <1>6, <1>7, <1>8, <1>9 DEF IInv

\* What the upstream sends to all its open channels.
Futures == [i \in DOMAIN OpenInOrder |-> Future(OpenInOrder[i])]
Hashes(tip) == [i \in DOMAIN OpenInOrder |-> PrevHash(OpenInOrder[i], tip)]
Jobs(tip) == [i \in DOMAIN OpenInOrder |-> Job(OpenInOrder[i], tip)]

\* These are sequences of messages, one for each channel.
LEMMA Announcements ==
  ASSUME Types, NEW tip \in Tip
  PROVE  /\ DOMAIN OpenInOrder = 1..Len(OpenInOrder) /\ Len(OpenInOrder) \in Nat
         /\ \A i \in DOMAIN OpenInOrder : OpenInOrder[i] \in UpstreamId
         /\ Futures \in Seq(Message) /\ Len(Futures) = Len(OpenInOrder)
         /\ \A i \in DOMAIN OpenInOrder :
              Futures[i].kind = "future" /\ Futures[i].channel = OpenInOrder[i]
         /\ Hashes(tip) \in Seq(Message) /\ Len(Hashes(tip)) = Len(OpenInOrder)
         /\ \A i \in DOMAIN OpenInOrder :
              /\ Hashes(tip)[i].kind = "prevhash" /\ Hashes(tip)[i].channel = OpenInOrder[i]
              /\ Hashes(tip)[i].tip = tip
         /\ Jobs(tip) \in Seq(Message) /\ Len(Jobs(tip)) = Len(OpenInOrder)
         /\ \A i \in DOMAIN OpenInOrder :
              /\ Jobs(tip)[i].kind = "job" /\ Jobs(tip)[i].channel = OpenInOrder[i]
              /\ Jobs(tip)[i].tip = tip
<1> DEFINE n == Len(OpenInOrder)
<1>1. OpenInOrder \in Seq(up.open) /\ up.open \subseteq UpstreamId
  BY Order DEF Types, UpstreamState
<1>2. /\ n \in Nat /\ DOMAIN OpenInOrder = 1..n
      /\ \A i \in 1..n : OpenInOrder[i] \in UpstreamId
  BY <1>1
<1> HIDE DEF n
<1>3. \A i \in 1..n : /\ Future(OpenInOrder[i]) \in Message
                      /\ PrevHash(OpenInOrder[i], tip) \in Message
                      /\ Job(OpenInOrder[i], tip) \in Message
  BY <1>2, Messages
<1>4. Futures \in Seq(Message) /\ Len(Futures) = n
  BY <1>2, <1>3 DEF Futures
<1>5. Hashes(tip) \in Seq(Message) /\ Len(Hashes(tip)) = n
  BY <1>2, <1>3 DEF Hashes
<1>6. Jobs(tip) \in Seq(Message) /\ Len(Jobs(tip)) = n
  BY <1>2, <1>3 DEF Jobs
<1>7. \A i \in DOMAIN OpenInOrder :
        /\ Futures[i].kind = "future" /\ Futures[i].channel = OpenInOrder[i]
        /\ Hashes(tip)[i].kind = "prevhash" /\ Hashes(tip)[i].channel = OpenInOrder[i]
        /\ Hashes(tip)[i].tip = tip
        /\ Jobs(tip)[i].kind = "job" /\ Jobs(tip)[i].channel = OpenInOrder[i]
        /\ Jobs(tip)[i].tip = tip
  BY DEF Futures, Hashes, Jobs, Future, PrevHash, Job
<1> QED
  BY <1>2, <1>4, <1>5, <1>6, <1>7 DEF n

\* The upstream's other steps are of that kind.
LEMMA UpstreamInv ==
  ASSUME IInv, UpstreamRefuses \/ UpstreamNewTip \/ UpstreamNewJob \/ UpstreamSetsTarget
               \/ UpstreamCloses
  PROVE  IInv'
<1>1. /\ Types /\ up \in UpstreamState /\ events \in 0..MaxEvents /\ stream \in Seq(Message)
      /\ \A i \in DOMAIN up.requests : up.requests[i] \in Old
      /\ up.open \subseteq UpstreamId /\ up.tip \in 1..MaxTip /\ up.tip \in Tip
  BY Constants DEF IInv, Types, AnswersAreFresh, UpstreamState, Tip
<1>2. Event => events' \in 0..MaxEvents
  BY <1>1, Constants DEF Event
<1>3. \A msg \in Message : msg.kind # "success" =>
        /\ Append(stream, msg) = stream \o <<msg>> /\ <<msg>> \in Seq(Message)
        /\ \A i \in DOMAIN <<msg>> : <<msg>>[i].kind # "success"
  BY <1>1
<1>4. CASE UpstreamRefuses
  <2>1. /\ up.requests # <<>> /\ events' \in 0..MaxEvents
        /\ up' = [up EXCEPT !.requests = Tail(@)]
        /\ stream' = Append(stream, OpenError(Head(up.requests)))
        /\ UNCHANGED <<mode, cm, cmVars, serverVars, out>>
    BY <1>2, <1>4 DEF UpstreamRefuses
  <2>2. /\ Tail(up.requests) \in Seq(Miner) /\ Head(up.requests) \in Miner
        /\ \A i \in DOMAIN Tail(up.requests) : Tail(up.requests)[i] \in Old
    BY <2>1, Requests DEF Old
  <2>3. OpenError(Head(up.requests)) \in Message /\ OpenError(Head(up.requests)).kind # "success"
    BY <2>2, Constants, Messages DEF OpenError
  <2>4. up' \in UpstreamState /\ up'.next = up.next /\ up'.requests = Tail(up.requests)
    BY <1>1, <2>1, <2>2 DEF UpstreamState
  <2>5. \A i \in DOMAIN up'.requests : up'.requests[i] \in Old
    BY <2>2, <2>4
  <2> DEFINE new == <<OpenError(Head(up.requests))>>
  <2>6. new \in Seq(Message) /\ stream' = stream \o new /\ \A i \in DOMAIN new : new[i].kind # "success"
    BY <1>3, <2>1, <2>3
  <2> HIDE DEF new
  <2> QED
    BY <2>1, <2>4, <2>5, <2>6, SendsInv
<1>5. CASE UpstreamNewTip
  <2> DEFINE t == up.tip + 1
             futures == Futures
             hashes == Hashes(t)
  <2>1. /\ up.tip < MaxTip /\ up' = [up EXCEPT !.tip = @ + 1]
        /\ stream' = stream \o futures \o hashes
        /\ UNCHANGED <<mode, cm, cmVars, serverVars, out, events>>
    BY <1>5 DEF UpstreamNewTip, ToAll, Futures, Hashes
  <2>2. t \in Tip /\ t \in 1..MaxTip
    BY <1>1, <2>1, Constants DEF Tip
  <2>3. /\ futures \in Seq(Message) /\ hashes \in Seq(Message)
        /\ \A i \in DOMAIN futures : futures[i].kind = "future"
        /\ \A i \in DOMAIN hashes : hashes[i].kind = "prevhash"
    BY <1>1, <2>2, Announcements
  <2>4. up' \in UpstreamState /\ up'.next = up.next /\ up'.requests = up.requests
    BY <1>1, <2>1, <2>2 DEF UpstreamState
  <2> HIDE DEF futures, hashes
  <2>5. /\ futures \o hashes \in Seq(Message) /\ stream' = stream \o (futures \o hashes)
        /\ \A i \in DOMAIN (futures \o hashes) : (futures \o hashes)[i].kind # "success"
    BY <1>1, <2>1, <2>3
  <2> QED
    BY <1>1, <2>1, <2>4, <2>5, SendsInv
<1>6. CASE UpstreamNewJob
  <2> DEFINE jobs == Jobs(up.tip)
  <2>1. /\ stream' = stream \o jobs /\ events' \in 0..MaxEvents
        /\ UNCHANGED <<mode, cm, cmVars, serverVars, out, up>>
    BY <1>2, <1>6 DEF UpstreamNewJob, ToAll, Jobs
  <2>2. jobs \in Seq(Message) /\ \A i \in DOMAIN jobs : jobs[i].kind # "success"
    BY <1>1, Announcements
  <2> HIDE DEF jobs
  <2> QED
    BY <1>1, <2>1, <2>2, SendsInv
<1>7. CASE UpstreamSetsTarget
  <2>1. PICK c \in up.open : stream' = Append(stream, Target(c))
    BY <1>7 DEF UpstreamSetsTarget
  <2>2. events' \in 0..MaxEvents /\ UNCHANGED <<mode, cm, cmVars, serverVars, out, up>>
    BY <1>2, <1>7 DEF UpstreamSetsTarget
  <2>3. Target(c) \in Message /\ Target(c).kind # "success"
    BY <1>1, Messages DEF Target
  <2> DEFINE new == <<Target(c)>>
  <2>4. new \in Seq(Message) /\ stream' = stream \o new /\ \A i \in DOMAIN new : new[i].kind # "success"
    BY <1>3, <2>1, <2>3
  <2> HIDE DEF new
  <2> QED
    BY <1>1, <2>2, <2>4, SendsInv
<1>8. CASE UpstreamCloses
  <2>1. PICK c \in up.open : /\ up' = [up EXCEPT !.open = @ \ {c}]
                             /\ stream' = Append(stream, Close(c))
    BY <1>8 DEF UpstreamCloses
  <2>2. events' \in 0..MaxEvents /\ UNCHANGED <<mode, cm, cmVars, serverVars, out>>
    BY <1>2, <1>8 DEF UpstreamCloses
  <2>3. Close(c) \in Message /\ Close(c).kind # "success"
    BY <1>1, Messages DEF Close
  <2>4. up' \in UpstreamState /\ up'.next = up.next /\ up'.requests = up.requests
    BY <1>1, <2>1 DEF UpstreamState
  <2> DEFINE new == <<Close(c)>>
  <2>5. new \in Seq(Message) /\ stream' = stream \o new /\ \A i \in DOMAIN new : new[i].kind # "success"
    BY <1>3, <2>1, <2>3
  <2> HIDE DEF new
  <2> QED
    BY <1>1, <2>2, <2>4, <2>5, SendsInv
<1> QED
  BY <1>4, <1>5, <1>6, <1>7, <1>8

\* Every step keeps the invariant.
LEMMA NextInv ==
  ASSUME IInv, [Next]_vars
  PROVE  IInv'
<1>0. Types
  BY DEF IInv
<1>1. ASSUME NEW m \in Miner, HandleOpenExtendedMiningChannel(m) PROVE IInv'
  BY <1>1, AskInv, JoinInv DEF HandleOpenExtendedMiningChannel
<1>2. CASE HandleOpenExtendedMiningChannelSuccess
  <2>1. Received("success") /\ Head(stream) = stream[1]
    BY <1>0, <1>2, Takes DEF HandleOpenExtendedMiningChannelSuccess
  <2>2. UNCHANGED <<mode, miner, server_tip, out, up, events>>
    BY <1>2 DEF HandleOpenExtendedMiningChannelSuccess
  <2>3. CASE /\ stream[1].miner \in pending_channels
             /\ pending_channels' = pending_channels \ {stream[1].miner}
             /\ IF Aggregated THEN OpensShared(stream[1].channel) ELSE OpensOwn(stream[1].channel)
             /\ told' = [told EXCEPT ![stream[1].miner] = stream[1].channel]
             /\ UNCHANGED cm
    BY <2>1, <2>2, <2>3, SuccessInv
  <2>4. CASE cm' = "ended" /\ UNCHANGED <<cmVars, told>>
    BY <2>1, <2>2, <2>4, TakenInv DEF serverVars
  <2> QED
    BY <1>2, <2>1, <2>3, <2>4 DEF HandleOpenExtendedMiningChannelSuccess
<1>3. CASE HandleOpenMiningChannelError
  <2>1. cm' \in {"running", "ended", "panicked"}
    BY <1>0, <1>3 DEF HandleOpenMiningChannelError, Types
  <2> QED
    BY <1>3, <2>1, TakenInv DEF HandleOpenMiningChannelError
<1>4. CASE HandleNewExtendedMiningJob
  <2>1. /\ ChannelsFollow
        /\ out'.kind = "share" => out' = out
        /\ UNCHANGED <<mode, cm, pending_channels, factory, told, miner, server_tip, up, events>>
    BY <1>4 DEF HandleNewExtendedMiningJob, serverVars
  <2>2. server_tip' \in Tip
    BY <1>0, <2>1 DEF Types
  <2>3. Received("future") \/ Received("job")
    BY <1>4 DEF HandleNewExtendedMiningJob
  <2> QED
    BY <2>1, <2>2, <2>3, FollowInv
<1>5. CASE HandleSetNewPrevHash
  <2>1. /\ ChannelsFollow
        /\ out'.kind = "share" => out' = out
        /\ UNCHANGED <<mode, cm, pending_channels, factory, told, miner, up, events>>
        /\ Received("prevhash") /\ server_tip' = Head(stream).tip
    BY <1>5 DEF HandleSetNewPrevHash, NoOut
  <2>2. server_tip' \in Tip
    BY <1>0, <2>1, Takes, Fields
  <2> QED
    BY <2>1, <2>2, FollowInv
<1>6. CASE HandleSetTarget
  <2>1. /\ ChannelsFollow /\ out' = out /\ Received("target")
        /\ UNCHANGED <<mode, cm, pending_channels, factory, told, miner, server_tip, up, events>>
    BY <1>6 DEF HandleSetTarget, serverVars
  <2>2. server_tip' \in Tip
    BY <1>0, <2>1 DEF Types
  <2> QED
    BY <2>1, <2>2, FollowInv
<1>7. CASE UNCHANGED vars
  <2>1. UNCHANGED <<mode, cm, pending_channels, extended_channels, upstream_channel, factory,
                    told, miner, server_tip, out, up, stream, events>>
    BY <1>7 DEF vars, cmVars, serverVars
  <2> QED
    BY <2>1 DEF IInv, Types, Counted, Old, AnswersAreFresh, Answers, PrefixSources, Aggregated,
                PrefixesDistinct, TipIsJobs, OneUpstream, Twins, ShareOnItsChannel
<1> QED
  BY <1>1, <1>2, <1>3, <1>4, <1>5, <1>6, <1>7, SubmitInv, GoneInv, UpdateInv, OpensInv,
     UpstreamInv, CloseInv, FallbackInv DEF Next

\* The channel manager keeps its channels in order, whatever it is sent.
THEOREM Invariance == Spec => []IInv
<1>1. Init => IInv
  BY InitInv
<1>2. IInv /\ [Next]_vars => IInv'
  BY NextInv
<1> QED
  BY <1>1, <1>2, PTL DEF Spec

\* Every variable has its type; ids and prefix numbers fit what is reserved for
\* them, and a shared channel has a prefix factory.
THEOREM ManagerTypes == Spec => []TypeOK
<1>1. IInv => TypeOK
  <2> SUFFICES ASSUME IInv PROVE TypeOK
    OBVIOUS
  <2>1. upstream_channel # None =>
          /\ upstream_channel.id \in 1..MaxOpened /\ upstream_channel.channel \in Channel
          /\ factory # None
    BY NoneAssumption DEF IInv, Types, UpstreamId
  <2> QED
    BY <2>1 DEF IInv, Types, TypeOK
<1> QED
  BY <1>1, Invariance, PTL

\* No two channels are given the same extranonce prefix, in either mode, also
\* when answers, closed channels and fallbacks overtake each other
\* (handle_open_extended_mining_channel_success, extranonce_prefix_factory).
THEOREM SpacesDistinct == Spec => []PrefixesDistinct
<1>1. IInv => PrefixesDistinct
  BY DEF IInv
<1> QED
  BY <1>1, Invariance, PTL

\* Shares go out on the upstream channel of their prefix, as long as aggregated
\* mode has one upstream channel (handle_submit_shares_extended).
THEOREM SharesFit == Spec => []SharesInTheirSpace
<1>1. IInv => SharesInTheirSpace
  <2> SUFFICES ASSUME IInv, out.kind = "share", miner[out.miner] = "asked", ~Split
               PROVE  out.base = out.channel
    BY DEF SharesInTheirSpace
  <2>1. CASE ~Aggregated
    BY <2>1 DEF IInv, ShareOnItsChannel
  <2>2. CASE Aggregated
    <3>1. up.next \in Nat /\ Len(up.requests) \in Nat
      BY Constants DEF IInv, Types, UpstreamState
    <3>2. up.next <= 2 /\ ~(upstream_channel = None /\ DOMAIN extended_channels # {})
      BY <2>2, <3>1 DEF Split
    <3> QED
      BY <2>2, <3>2 DEF IInv, ShareOnItsChannel
  <2> QED
    BY <2>1, <2>2
<1> QED
  BY <1>1, Invariance, PTL

\* Every miner's channel is in the state of the shared one, its own prefix apart
\* (on_new_extended_mining_job, on_set_new_prev_hash and set_target on both).
THEOREM ChannelsFollowTheShared == Spec => []TwinsAgree
<1>1. IInv => TwinsAgree
  <2> SUFFICES ASSUME IInv, Aggregated, upstream_channel # None, ~Split,
                      NEW c \in DOMAIN extended_channels
               PROVE  LET own == extended_channels[c]
                          shared == upstream_channel.channel
                      IN  \/ own.missed
                          \/ /\ own.target = shared.target /\ own.tip = shared.tip
                             /\ own.job = shared.job
    BY DEF TwinsAgree
  <2>1. up.next \in Nat /\ Len(up.requests) \in Nat
    BY Constants DEF IInv, Types, UpstreamState
  <2>2. up.next <= 2
    BY <2>1 DEF Split
  <2> QED
    BY <2>2 DEF IInv, OneUpstream, Twins
<1> QED
  BY <1>1, Invariance, PTL

-----------------------------------------------------------------------------
(* The jobs: every step keeps JInv. *)

\* A message is taken that prepares the channels it is said to prepare.
LEMMA TakeArmed ==
  ASSUME Types, Armed, NEW kind, Received(kind), mode' = mode,
         \A c \in UpstreamId, t \in Tip : Prepares(1, c, t) => Ready(c, t)',
         \A c \in UpstreamId, t \in Tip : LeavesOn(1, c, t) /\ Ready(c, t) => Ready(c, t)'
  PROVE  Armed'
<1>1. /\ Len(stream) \in Nat /\ DOMAIN stream = 1..Len(stream)
      /\ DOMAIN stream' = 1..(Len(stream) - 1)
      /\ \A i \in DOMAIN stream' : i + 1 \in DOMAIN stream /\ stream'[i] = stream[i + 1]
  BY Takes
<1> SUFFICES ASSUME NEW i \in DOMAIN stream', NEW c \in UpstreamId, NEW t \in Tip,
                    IsPrevHashFor(i, c, t)'
             PROVE  ReadyAt(i, c, t)'
  BY DEF Armed
<1>3. i \in Nat /\ i + 1 \in DOMAIN stream /\ IsPrevHashFor(i + 1, c, t)
  BY <1>1 DEF IsPrevHashFor, IsPrevHash
<1>5. ReadyAt(i + 1, c, t)
  BY <1>3 DEF Armed
<1>6. \A k \in 1..(i - 1) : k \in DOMAIN stream' /\ stream'[k] = stream[k + 1]
                              /\ k + 1 \in 1..(i + 1 - 1)
  BY <1>1
<1>7. \A k \in 1..(i - 1) : LeavesOn(k + 1, c, t) => LeavesOn(k, c, t)'
  BY <1>6 DEF LeavesOn, Concerns, IsPrevHash, Aggregated
<1>8. \A k \in 1..(i - 1) : Prepares(k + 1, c, t) => Prepares(k, c, t)'
  BY <1>6 DEF Prepares, Concerns, IsPrevHash, Aggregated
<1>9. ReadyAt(i, c, t)'
  <2>1. CASE \E j \in 1..i :
               Prepares(j, c, t) /\ \A k \in (j + 1)..i : LeavesOn(k, c, t)
    <3>1. PICK j \in 1..i : Prepares(j, c, t) /\ \A k \in (j + 1)..i : LeavesOn(k, c, t)
      BY <2>1
    <3>2. CASE j = 1
      <4>1. Ready(c, t)'
        BY <3>1, <3>2
      <4>2. \A k \in 1..(i - 1) : k + 1 \in (j + 1)..i
        BY <1>3, <3>2
      <4>3. \A k \in 1..(i - 1) : LeavesOn(k, c, t)'
        BY <1>7, <3>1, <4>2
      <4> QED
        BY <4>1, <4>3 DEF ReadyAt
    <3>3. CASE j # 1
      <4>1. j - 1 \in 1..(i - 1) /\ (j - 1) + 1 = j
        BY <1>3, <3>1, <3>3
      <4>2. \A k \in ((j - 1) + 1)..(i - 1) : k \in 1..(i - 1) /\ k + 1 \in (j + 1)..i
        BY <1>3, <3>1, <3>3
      <4>3. \A k \in ((j - 1) + 1)..(i - 1) : LeavesOn(k, c, t)'
        BY <1>7, <3>1, <4>2
      <4>4. Prepares(j - 1, c, t)'
        BY <1>8, <3>1, <4>1
      <4> QED
        BY <4>1, <4>3, <4>4 DEF ReadyAt
    <3> QED
      BY <3>2, <3>3
  <2>2. CASE (\A k \in 1..i : LeavesOn(k, c, t)) /\ Ready(c, t)
    <3>1. 1 \in 1..i /\ \A k \in 1..(i - 1) : k + 1 \in 1..i
      BY <1>1
    <3>2. Ready(c, t)'
      BY <2>2, <3>1
    <3>3. \A k \in 1..(i - 1) : LeavesOn(k, c, t)'
      BY <1>7, <2>2, <3>1
    <3> QED
      BY <3>2, <3>3 DEF ReadyAt
  <2>3. (i + 1) - 1 = i
    BY <1>3
  <2> QED
    BY <1>5, <2>1, <2>2, <2>3 DEF ReadyAt
<1> QED
  BY <1>9

\* A prev hash is sent after the future job it names.
Heralded(new) ==
  \A i \in DOMAIN new : new[i].kind = "prevhash" =>
    \E j \in 1..(i - 1) :
      /\ new[j].kind = "future" /\ new[j].channel = new[i].channel
      /\ \A k \in (j + 1)..(i - 1) :
           \/ new[k].kind = "future"
           \/ new[k].kind = "prevhash" /\ new[k].tip = new[i].tip

\* A place among messages that were appended, counted from where they start.
LEMMA Shifted ==
  ASSUME NEW n \in Nat, NEW h \in Nat, NEW j \in Nat, NEW k \in Nat,
         (n + j) + 1 <= k, k <= (n + h) - 1
  PROVE  k - n \in (j + 1)..(h - 1) /\ k - n \in 1..h /\ n + (k - n) = k
OBVIOUS

\* Messages are sent, or none.
LEMMA SendArmed ==
  ASSUME Types, Armed, NEW new \in Seq(Message), stream' = stream \o new, Heralded(new),
         mode' = mode, \A c \in UpstreamId, t \in Tip : Ready(c, t) => Ready(c, t)'
  PROVE  Armed'
<1> DEFINE n == Len(stream)
<1>1. /\ n \in Nat /\ DOMAIN stream = 1..n /\ Len(new) \in Nat /\ DOMAIN new = 1..Len(new)
      /\ DOMAIN stream' = 1..(n + Len(new))
      /\ \A i \in DOMAIN stream : i \in DOMAIN stream' /\ stream'[i] = stream[i]
      /\ \A i \in DOMAIN new : n + i \in DOMAIN stream' /\ stream'[n + i] = new[i]
  BY Appends
<1> HIDE DEF n
<1> SUFFICES ASSUME NEW i \in DOMAIN stream', NEW c \in UpstreamId, NEW t \in Tip,
                    IsPrevHashFor(i, c, t)'
             PROVE  ReadyAt(i, c, t)'
  BY DEF Armed
<1>2. CASE i \in DOMAIN stream
  <2>1. ReadyAt(i, c, t)
    BY <1>1, <1>2 DEF IsPrevHashFor, IsPrevHash, Armed
  <2>2. \A k \in 1..(i - 1) : stream'[k] = stream[k]
    BY <1>1, <1>2
  <2>3. \A k \in 1..(i - 1) : LeavesOn(k, c, t) => LeavesOn(k, c, t)'
    BY <2>2 DEF LeavesOn, Concerns, IsPrevHash, Aggregated
  <2>4. \A k \in 1..(i - 1) : Prepares(k, c, t) => Prepares(k, c, t)'
    BY <2>2 DEF Prepares, Concerns, IsPrevHash, Aggregated
  <2>5. CASE \E j \in 1..(i - 1) :
               Prepares(j, c, t) /\ \A k \in (j + 1)..(i - 1) : LeavesOn(k, c, t)
    <3>1. PICK j \in 1..(i - 1) :
            Prepares(j, c, t) /\ \A k \in (j + 1)..(i - 1) : LeavesOn(k, c, t)
      BY <2>5
    <3>2. \A k \in (j + 1)..(i - 1) : k \in 1..(i - 1)
      BY <3>1
    <3> QED
      BY <2>3, <2>4, <3>1, <3>2 DEF ReadyAt
  <2>6. CASE (\A k \in 1..(i - 1) : LeavesOn(k, c, t)) /\ Ready(c, t)
    BY <2>3, <2>6 DEF ReadyAt
  <2> QED
    BY <2>1, <2>5, <2>6 DEF ReadyAt
<1>3. CASE i \notin DOMAIN stream
  <2>1. PICK h \in DOMAIN new : i = n + h
    <3>1. i - n \in DOMAIN new /\ i = n + (i - n)
      BY <1>1, <1>3
    <3> QED
      BY <3>1
  <2>2. new[h].kind = "prevhash" /\ new[h].channel = c /\ new[h].tip = t
    BY <1>1, <2>1 DEF IsPrevHashFor, IsPrevHash
  <2>3. PICK j \in 1..(h - 1) :
          /\ new[j].kind = "future" /\ new[j].channel = c
          /\ \A k \in (j + 1)..(h - 1) :
               new[k].kind = "future" \/ (new[k].kind = "prevhash" /\ new[k].tip = t)
    <3>1. \E j \in 1..(h - 1) :
            /\ new[j].kind = "future" /\ new[j].channel = new[h].channel
            /\ \A k \in (j + 1)..(h - 1) :
                 \/ new[k].kind = "future"
                 \/ new[k].kind = "prevhash" /\ new[k].tip = new[h].tip
      BY <2>2, Zenon DEF Heralded
    <3> QED
      BY <2>2, <3>1, Zenon
  <2>4. h \in Nat /\ j \in DOMAIN new /\ j \in Nat /\ n + j \in 1..(i - 1)
    BY <1>1, <2>1
  <2>5. ASSUME NEW g \in Nat, g = n + j
        PROVE  Prepares(g, c, t)'
    <3>1. stream'[g] = new[j]
      BY <1>1, <2>4, <2>5
    <3>2. stream'[g].kind = "future" /\ stream'[g].channel = c
      BY <2>3, <3>1
    <3> QED
      BY <3>2 DEF Prepares, Concerns, IsPrevHash
  <2>6. ASSUME NEW k \in Nat, (n + j) + 1 <= k, k <= i - 1
        PROVE  LeavesOn(k, c, t)'
    <3>1. k - n \in (j + 1)..(h - 1) /\ k - n \in DOMAIN new /\ n + (k - n) = k
      <4>0. i = n + h
        BY <2>1
      <4>1. /\ n \in Nat /\ h \in Nat /\ j \in Nat /\ k \in Nat
            /\ (n + j) + 1 <= k /\ k <= (n + h) - 1
        BY <1>1, <2>4, <2>6, <4>0
      <4>2. k - n \in (j + 1)..(h - 1) /\ k - n \in 1..h /\ n + (k - n) = k
        BY <4>1, Shifted
      <4>3. h <= Len(new) /\ Len(new) \in Nat
        BY <1>1, <2>1
      <4>4. k - n \in 1..Len(new)
        BY <4>1, <4>2, <4>3
      <4> QED
        BY <1>1, <4>2, <4>4
    <3>2. stream'[k] = new[k - n]
      BY <1>1, <3>1
    <3>3. new[k - n].kind = "future" \/ (new[k - n].kind = "prevhash" /\ new[k - n].tip = t)
      BY <2>3, <3>1
    <3> QED
      BY <3>2, <3>3 DEF LeavesOn, IsPrevHash
  <2>7. PICK g \in 1..(i - 1) : g = n + j
    BY <2>4
  <2>8. Prepares(g, c, t)'
    BY <2>5, <2>7
  <2>9. \A k \in (g + 1)..(i - 1) : LeavesOn(k, c, t)'
    BY <2>6, <2>7
  <2> QED
    BY <2>8, <2>9 DEF ReadyAt
<1> QED
  BY <1>2, <1>3

\* The first prev hash finds a channel that is ready for it.
LEMMA FirstIsReady ==
  ASSUME Types, Armed, NEW c \in UpstreamId, NEW t \in Tip, IsPrevHashFor(1, c, t),
         1 \in DOMAIN stream
  PROVE  Ready(c, t)
BY DEF Armed, ReadyAt

\* Taking a message readies the channels it is said to ready, and leaves the others so.
LEMMA FollowReady ==
  ASSUME Types, Armed, PrefixSources, TipIsJobs,
         NEW kind \in {"future", "job", "prevhash", "target"}, Received(kind), ChannelsFollow,
         mode' = mode, NEW c \in UpstreamId, NEW t \in Tip
  PROVE  /\ Prepares(1, c, t) => Ready(c, t)'
         /\ LeavesOn(1, c, t) /\ Ready(c, t) => Ready(c, t)'
<1>1. /\ stream # <<>> /\ Head(stream) = stream[1] /\ stream[1] \in Message
      /\ stream[1].kind \in {"future", "job", "prevhash", "target"}
      /\ 1 \in DOMAIN stream
  BY Takes
<1>2. /\ DOMAIN extended_channels' = DOMAIN extended_channels
      /\ \A d \in DOMAIN extended_channels :
           extended_channels'[d] = IF Aggregated \/ d = stream[1].channel
                                     THEN Changed(extended_channels[d])
                                     ELSE extended_channels[d]
      /\ (Aggregated /\ upstream_channel # None) =>
           upstream_channel'.channel = Changed(upstream_channel.channel)
      /\ ~(Aggregated /\ upstream_channel # None) => upstream_channel' = upstream_channel
  BY Follow
<1>3. \A ch \in View(c) : ch \in Channel /\ ch.tip = ch.job
  BY DEF View, Types, TipIsJobs
<1>4. \A new \in View(c)' : \E ch \in View(c) :
        new = IF Concerns(1, c) THEN Changed(ch) ELSE ch
  <2>1. CASE Aggregated
    BY <1>2, <2>1 DEF View, Concerns, Aggregated
  <2>2. CASE ~Aggregated
    BY <1>2, <2>2 DEF View, Concerns, Aggregated
  <2> QED
    BY <2>1, <2>2
<1>5. ASSUME NEW ch \in View(c), Prepares(1, c, t)
      PROVE  Changed(ch).future \/ Changed(ch).job = t
  <2>1. ch \in Channel /\ ch.future \in BOOLEAN
    BY <1>3 DEF Channel
  <2>2. CASE stream[1].kind = "future"
    <3>1. Changed(ch).future = TRUE
      BY <1>1, <2>1, <2>2, Changes
    <3> QED
      BY <3>1
  <2>3. CASE stream[1].kind = "prevhash"
    <3>1. stream[1].tip = t /\ Concerns(1, c)
      BY <1>5, <2>3 DEF Prepares, IsPrevHash
    <3>2. stream[1].channel \in UpstreamId
      BY <1>1, <2>3, Fields
    <3>3. View(stream[1].channel) = View(c)
      BY <3>1 DEF View, Concerns
    <3>4. Ready(stream[1].channel, t)
      BY <1>1, <2>3, <3>1, <3>2, FirstIsReady DEF IsPrevHashFor, IsPrevHash
    <3>5. ch.future \/ ch.job = t
      BY <3>3, <3>4 DEF Ready
    <3>6. Changed(ch).job = IF ch.future THEN t ELSE ch.job
      BY <1>1, <2>1, <2>3, <3>1, Changes
    <3> QED
      BY <2>1, <3>5, <3>6
  <2> QED
    BY <1>5, <2>2, <2>3 DEF Prepares
<1>6. ASSUME NEW ch \in View(c), LeavesOn(1, c, t), Concerns(1, c), ch.future \/ ch.job = t
      PROVE  Changed(ch).future \/ Changed(ch).job = t
  <2>1. ch \in Channel /\ ch.tip = ch.job /\ ch.future \in BOOLEAN
    BY <1>3 DEF Channel
  <2>2. CASE stream[1].kind = "prevhash"
    <3>1. stream[1].tip = t
      BY <1>6, <2>2 DEF LeavesOn
    <3>2. Changed(ch).job = IF ch.future THEN t ELSE ch.job
      BY <1>1, <2>1, <2>2, <3>1, Changes
    <3> QED
      BY <1>6, <2>1, <3>2
  <2>3. CASE stream[1].kind # "prevhash"
    <3>1. Changed(ch).job = ch.job
      BY <1>1, <2>1, <2>3, Changes
    <3>2. ch.future => Changed(ch).future
      BY <1>1, <2>1, <2>3, Changes
    <3> QED
      BY <1>6, <3>1, <3>2
  <2> QED
    BY <2>2, <2>3
<1>7. Prepares(1, c, t) => Ready(c, t)'
  BY <1>4, <1>5 DEF Ready, Prepares
<1>8. LeavesOn(1, c, t) /\ Ready(c, t) => Ready(c, t)'
  BY <1>4, <1>6 DEF Ready
<1> QED
  BY <1>7, <1>8

\* Tips are numbers.
LEMMA Tips ==
  ASSUME Types
  PROVE  /\ \A i \in DOMAIN stream : stream[i].kind \in {"prevhash", "job"} =>
              stream[i].tip \in Int
         /\ server_tip \in Int /\ up.tip \in Int
<1>1. \A i \in DOMAIN stream : stream[i] \in Message
  BY DEF Types
<1>2. Tip \subseteq Int /\ 1..MaxTip \subseteq Int
  BY Constants
<1>3. server_tip \in Tip /\ up.tip \in 1..MaxTip
  BY DEF Types, UpstreamState
<1>4. \A i \in DOMAIN stream : stream[i].kind \in {"prevhash", "job"} => stream[i].tip \in Tip
  BY <1>1, Fields
<1> QED
  BY <1>2, <1>3, <1>4

\* The first message is taken, and its tip if it is a prev hash.
LEMMA TakeTips ==
  ASSUME Types, TipsInOrder, NEW kind, Received(kind), up' = up,
         server_tip' = IF kind = "prevhash" THEN stream[1].tip ELSE server_tip
  PROVE  TipsInOrder'
<1>1. /\ Len(stream) \in Nat \ {0} /\ DOMAIN stream = 1..Len(stream)
      /\ DOMAIN stream' = 1..(Len(stream) - 1) /\ stream[1].kind = kind /\ 1 \in DOMAIN stream
      /\ \A i \in DOMAIN stream' : i + 1 \in DOMAIN stream /\ stream'[i] = stream[i + 1]
  BY Takes
<1>2. /\ \A i \in DOMAIN stream : stream[i].kind \in {"prevhash", "job"} =>
           stream[i].tip \in Int
      /\ server_tip \in Int /\ up.tip \in Int
  BY Tips
<1>3. server_tip <= server_tip' /\ server_tip' <= up.tip
  BY <1>1, <1>2 DEF TipsInOrder
<1>4. \A i \in DOMAIN stream : i # 1 /\ stream[i].kind \in {"prevhash", "job"} =>
        server_tip' <= stream[i].tip
  <2> SUFFICES ASSUME NEW i \in DOMAIN stream, i # 1, stream[i].kind \in {"prevhash", "job"}
               PROVE  server_tip' <= stream[i].tip
    OBVIOUS
  <2>1. CASE kind = "prevhash"
    <3>1. 1 < i /\ IsPrevHash(1)
      BY <1>1, <2>1 DEF IsPrevHash
    <3> QED
      BY <1>1, <2>1, <3>1 DEF TipsInOrder
  <2>2. CASE kind # "prevhash"
    BY <2>2 DEF TipsInOrder
  <2> QED
    BY <2>1, <2>2
<1>5. \A t \in Int, n \in Nat :
        (server_tip = t \/ \E j \in 1..n : j \in DOMAIN stream /\ IsPrevHash(j) /\ stream[j].tip = t)
          /\ server_tip' <= t
          => \/ server_tip' = t
             \/ \E j \in 1..(n - 1) : j \in DOMAIN stream' /\ IsPrevHash(j)' /\ stream'[j].tip = t
  <2> SUFFICES ASSUME NEW t \in Int, NEW n \in Nat, server_tip' <= t,
                      \/ server_tip = t
                      \/ \E j \in 1..n : j \in DOMAIN stream /\ IsPrevHash(j) /\ stream[j].tip = t
               PROVE  \/ server_tip' = t
                      \/ \E j \in 1..(n - 1) :
                           j \in DOMAIN stream' /\ IsPrevHash(j)' /\ stream'[j].tip = t
    OBVIOUS
  <2>1. CASE server_tip = t
    <3>1. server_tip' \in Int
      BY <1>1, <1>2
    <3> QED
      BY <1>2, <1>3, <2>1, <3>1
  <2>2. CASE \E j \in 1..n : j \in DOMAIN stream /\ IsPrevHash(j) /\ stream[j].tip = t
    <3>1. PICK j \in 1..n : j \in DOMAIN stream /\ IsPrevHash(j) /\ stream[j].tip = t
      BY <2>2
    <3>2. CASE j = 1
      BY <1>1, <3>1, <3>2 DEF IsPrevHash
    <3>3. CASE j # 1
      <4>1. j - 1 \in 1..(n - 1) /\ j - 1 \in DOMAIN stream' /\ (j - 1) + 1 = j
        BY <1>1, <3>1, <3>3
      <4>2. stream'[j - 1] = stream[j]
        BY <1>1, <4>1
      <4>3. IsPrevHash(j - 1)' /\ stream'[j - 1].tip = t
        BY <3>1, <4>2 DEF IsPrevHash
      <4> QED
        BY <4>1, <4>3
    <3> QED
      BY <3>2, <3>3
  <2> QED
    BY <2>1, <2>2
<1>6. \A i \in DOMAIN stream' : stream'[i].kind \in {"prevhash", "job"} =>
        server_tip' <= stream'[i].tip /\ stream'[i].tip <= up'.tip
  <2> SUFFICES ASSUME NEW i \in DOMAIN stream', stream'[i].kind \in {"prevhash", "job"}
               PROVE  server_tip' <= stream'[i].tip /\ stream'[i].tip <= up'.tip
    OBVIOUS
  <2>1. i + 1 \in DOMAIN stream /\ i + 1 # 1 /\ stream'[i] = stream[i + 1]
    BY <1>1
  <2> QED
    BY <1>4, <2>1 DEF TipsInOrder
<1>7. \A i, j \in DOMAIN stream' :
        (i < j /\ IsPrevHash(i)' /\ stream'[j].kind \in {"prevhash", "job"}) =>
          stream'[i].tip <= stream'[j].tip
  <2>1. \A i, j \in DOMAIN stream' : i < j => i + 1 < j + 1
    BY <1>1
  <2>2. \A i \in DOMAIN stream' : IsPrevHash(i)' <=> IsPrevHash(i + 1)
    BY <1>1 DEF IsPrevHash
  <2> QED
    BY <1>1, <2>1, <2>2 DEF TipsInOrder
<1>8. \A i \in DOMAIN stream' : stream'[i].kind = "job" =>
        \/ server_tip' = stream'[i].tip
        \/ \E j \in 1..(i - 1) : IsPrevHash(j)' /\ stream'[j].tip = stream'[i].tip
  <2> SUFFICES ASSUME NEW i \in DOMAIN stream', stream'[i].kind = "job"
               PROVE  \/ server_tip' = stream'[i].tip
                      \/ \E j \in 1..(i - 1) : IsPrevHash(j)' /\ stream'[j].tip = stream'[i].tip
    OBVIOUS
  <2>1. i + 1 \in DOMAIN stream /\ stream'[i] = stream[i + 1] /\ i \in Nat /\ (i + 1) - 1 = i
        /\ \A j \in 1..i : j \in DOMAIN stream
    BY <1>1
  <2>2. \/ server_tip = stream'[i].tip
        \/ \E j \in 1..i : j \in DOMAIN stream /\ IsPrevHash(j) /\ stream[j].tip = stream'[i].tip
    BY <2>1 DEF TipsInOrder
  <2>3. stream'[i].tip \in Int /\ server_tip' <= stream'[i].tip
    BY <1>2, <1>6, <2>1
  <2> QED
    BY <1>5, <2>1, <2>2, <2>3
<1>9. up'.open # {} =>
        \/ server_tip' = up'.tip
        \/ \E j \in DOMAIN stream' : IsPrevHash(j)' /\ stream'[j].tip = up'.tip
  <2> SUFFICES ASSUME up.open # {}
               PROVE  \/ server_tip' = up.tip
                      \/ \E j \in DOMAIN stream' : IsPrevHash(j)' /\ stream'[j].tip = up.tip
    OBVIOUS
  <2>1. \/ server_tip = up.tip
        \/ \E j \in 1..Len(stream) : j \in DOMAIN stream /\ IsPrevHash(j) /\ stream[j].tip = up.tip
    BY <1>1 DEF TipsInOrder
  <2> QED
    BY <1>1, <1>2, <1>3, <1>5, <2>1
<1> QED
  BY <1>3, <1>6, <1>7, <1>8, <1>9 DEF TipsInOrder

\* Messages are sent, or none; jobs and prev hashes are for the upstream's tip.
LEMMA SendTips ==
  ASSUME Types, TipsInOrder, NEW new \in Seq(Message), stream' = stream \o new,
         server_tip' = server_tip, up'.tip \in Int, up.tip <= up'.tip,
         \A i \in DOMAIN new : new[i].kind \in {"prevhash", "job"} => new[i].tip = up'.tip,
         \A i \in DOMAIN new : new[i].kind = "job" => up.open # {} /\ up'.tip = up.tip,
         \/ up'.open = {}
         \/ up.open # {} /\ up'.tip = up.tip
         \/ \E i \in DOMAIN new : new[i].kind = "prevhash"
  PROVE  TipsInOrder'
<1> DEFINE n == Len(stream)
<1>1. /\ n \in Nat /\ DOMAIN stream = 1..n /\ Len(new) \in Nat /\ DOMAIN new = 1..Len(new)
      /\ DOMAIN stream' = 1..(n + Len(new))
      /\ \A i \in DOMAIN stream : i \in DOMAIN stream' /\ stream'[i] = stream[i]
      /\ \A i \in DOMAIN new : n + i \in DOMAIN stream' /\ stream'[n + i] = new[i]
  BY Appends
<1> HIDE DEF n
<1>2. /\ \A i \in DOMAIN stream : stream[i].kind \in {"prevhash", "job"} =>
           stream[i].tip \in Int
      /\ server_tip \in Int /\ up.tip \in Int
  BY Tips
<1>3. \A i \in DOMAIN stream' : i \notin DOMAIN stream =>
        i > n /\ (stream'[i].kind \in {"prevhash", "job"} => stream'[i].tip = up'.tip)
          /\ (stream'[i].kind = "job" => up.open # {} /\ up'.tip = up.tip)
  <2> SUFFICES ASSUME NEW i \in DOMAIN stream', i \notin DOMAIN stream
               PROVE  i > n /\ (stream'[i].kind \in {"prevhash", "job"} => stream'[i].tip = up'.tip)
                        /\ (stream'[i].kind = "job" => up.open # {} /\ up'.tip = up.tip)
    OBVIOUS
  <2>1. i > n /\ i - n \in DOMAIN new /\ n + (i - n) = i
    BY <1>1
  <2>2. stream'[i] = new[i - n]
    BY <1>1, <2>1
  <2> QED
    BY <2>1, <2>2
<1>4. \A i \in DOMAIN stream : IsPrevHash(i)' <=> IsPrevHash(i)
  BY <1>1 DEF IsPrevHash
<1>5. \A i \in DOMAIN stream' : stream'[i].kind \in {"prevhash", "job"} =>
        server_tip' <= stream'[i].tip /\ stream'[i].tip <= up'.tip /\ stream'[i].tip \in Int
  <2> SUFFICES ASSUME NEW i \in DOMAIN stream', stream'[i].kind \in {"prevhash", "job"}
               PROVE  /\ server_tip' <= stream'[i].tip /\ stream'[i].tip <= up'.tip
                      /\ stream'[i].tip \in Int
    OBVIOUS
  <2>1. CASE i \in DOMAIN stream
    <3>1. /\ server_tip <= stream[i].tip /\ stream[i].tip <= up.tip /\ stream[i].tip \in Int
          /\ stream'[i] = stream[i]
      BY <1>1, <1>2, <2>1 DEF TipsInOrder
    <3> QED
      BY <1>2, <3>1
  <2>2. CASE i \notin DOMAIN stream
    <3>1. stream'[i].tip = up'.tip
      BY <1>3, <2>2
    <3>2. server_tip <= up.tip
      BY DEF TipsInOrder
    <3> QED
      BY <1>2, <3>1, <3>2
  <2> QED
    BY <2>1, <2>2
<1>6. \A i, j \in DOMAIN stream' :
        (i < j /\ IsPrevHash(i)' /\ stream'[j].kind \in {"prevhash", "job"}) =>
          stream'[i].tip <= stream'[j].tip
  <2> SUFFICES ASSUME NEW i \in DOMAIN stream', NEW j \in DOMAIN stream', i < j, IsPrevHash(i)',
                      stream'[j].kind \in {"prevhash", "job"}
               PROVE  stream'[i].tip <= stream'[j].tip
    OBVIOUS
  <2>1. CASE j \in DOMAIN stream
    <3>1. i \in DOMAIN stream
      BY <1>1, <2>1
    <3> QED
      BY <1>1, <1>4, <2>1, <3>1 DEF TipsInOrder
  <2>2. CASE j \notin DOMAIN stream
    <3>1. stream'[i].kind = "prevhash"
      BY DEF IsPrevHash
    <3> QED
      BY <1>3, <1>5, <2>2, <3>1
  <2> QED
    BY <2>1, <2>2
<1>7. up.open # {} /\ up'.tip = up.tip =>
        \/ server_tip' = up'.tip
        \/ \E j \in DOMAIN stream : IsPrevHash(j)' /\ stream'[j].tip = up'.tip
  BY <1>1, <1>4 DEF TipsInOrder
<1>8. \A i \in DOMAIN stream' : stream'[i].kind = "job" =>
        \/ server_tip' = stream'[i].tip
        \/ \E j \in 1..(i - 1) : IsPrevHash(j)' /\ stream'[j].tip = stream'[i].tip
  <2> SUFFICES ASSUME NEW i \in DOMAIN stream', stream'[i].kind = "job"
               PROVE  \/ server_tip' = stream'[i].tip
                      \/ \E j \in 1..(i - 1) : IsPrevHash(j)' /\ stream'[j].tip = stream'[i].tip
    OBVIOUS
  <2>1. CASE i \in DOMAIN stream
    <3>1. \/ server_tip = stream[i].tip
          \/ \E j \in 1..(i - 1) : IsPrevHash(j) /\ stream[j].tip = stream[i].tip
      BY <1>1, <2>1 DEF TipsInOrder
    <3>2. \A j \in 1..(i - 1) : j \in DOMAIN stream
      BY <1>1, <2>1
    <3> QED
      BY <1>1, <1>4, <2>1, <3>1, <3>2
  <2>2. CASE i \notin DOMAIN stream
    <3>1. i > n /\ stream'[i].tip = up'.tip /\ up.open # {} /\ up'.tip = up.tip
      BY <1>3, <2>2
    <3>2. \A j \in DOMAIN stream : j \in 1..(i - 1)
      BY <1>1, <3>1
    <3> QED
      BY <1>7, <3>1, <3>2
  <2> QED
    BY <2>1, <2>2
<1>9. up'.open # {} =>
        \/ server_tip' = up'.tip
        \/ \E j \in DOMAIN stream' : IsPrevHash(j)' /\ stream'[j].tip = up'.tip
  <2>1. CASE up'.open = {}
    BY <2>1
  <2>2. CASE up.open # {} /\ up'.tip = up.tip
    BY <1>1, <1>7, <2>2
  <2>3. CASE \E i \in DOMAIN new : new[i].kind = "prevhash"
    <3>1. PICK i \in DOMAIN new : new[i].kind = "prevhash"
      BY <2>3
    <3>2. n + i \in DOMAIN stream' /\ stream'[n + i].kind = "prevhash" /\ stream'[n + i].tip = up'.tip
      BY <1>1, <3>1
    <3> QED
      BY <3>2 DEF IsPrevHash
  <2> QED
    BY <2>1, <2>2, <2>3
<1>10. server_tip' <= up'.tip
  BY <1>2 DEF TipsInOrder
<1> QED
  BY <1>5, <1>6, <1>8, <1>9, <1>10 DEF TipsInOrder

\* A step that takes no message.
LEMMA SendJobs ==
  ASSUME IInv, JInv, NEW new \in Seq(Message), stream' = stream \o new, Heralded(new),
         \A i \in DOMAIN new : new[i].kind \in {"prevhash", "job"} => new[i].tip = up'.tip,
         \A i \in DOMAIN new : new[i].kind = "job" => up.open # {} /\ up'.tip = up.tip,
         \/ up'.open = {}
         \/ up.open # {} /\ up'.tip = up.tip
         \/ \E i \in DOMAIN new : new[i].kind = "prevhash",
         up'.tip \in Int, up.tip <= up'.tip, mode' = mode, server_tip' = server_tip,
         \A c \in UpstreamId, t \in Tip : Ready(c, t) => Ready(c, t)',
         upstream_channel' # None => upstream_channel' = upstream_channel,
         out'.kind = "job" => out'.tip = server_tip
  PROVE  JInv'
<1>1. Types /\ Armed /\ TipsInOrder
  BY DEF IInv, JInv
<1>2. Armed'
  BY <1>1, SendArmed
<1>3. TipsInOrder'
  BY <1>1, SendTips
<1>4. SharedOnServersTip' /\ JobsOnTheServersTip'
  BY DEF JInv, SharedOnServersTip, JobsOnTheServersTip, Aggregated
<1> QED
  BY <1>2, <1>3, <1>4 DEF JInv

\* A step that leaves the messages alone.
LEMMA QuietJobs ==
  ASSUME IInv, JInv, stream' = stream, mode' = mode, server_tip' = server_tip,
         up'.tip = up.tip, up'.open \subseteq up.open,
         \A c \in UpstreamId, t \in Tip : Ready(c, t) => Ready(c, t)',
         upstream_channel' # None => upstream_channel' = upstream_channel,
         out'.kind = "job" => out'.tip = server_tip
  PROVE  JInv'
<1> DEFINE new == << >>
<1>1. new \in Seq(Message) /\ DOMAIN new = {} /\ stream' = stream \o new
  BY DEF IInv, Types
<1>2. Heralded(new)
  BY <1>1 DEF Heralded
<1>3. up.tip \in Int /\ up'.tip \in Int /\ up.tip <= up'.tip
  BY Tips DEF IInv
<1>4. up'.open = {} \/ (up.open # {} /\ up'.tip = up.tip)
  OBVIOUS
<1> HIDE DEF new
<1> QED
  BY <1>1, <1>2, <1>3, <1>4, SendJobs

\* The channels prev hashes are for do not change.
LEMMA SameView ==
  ASSUME mode' = mode, upstream_channel' = upstream_channel,
         Aggregated \/ extended_channels' = extended_channels
  PROVE  \A c \in UpstreamId, t \in Tip : Ready(c, t) => Ready(c, t)'
<1> SUFFICES ASSUME NEW c \in UpstreamId, NEW t \in Tip PROVE Ready(c, t) => Ready(c, t)'
  OBVIOUS
<1>1. View(c)' = View(c)
  BY DEF View, Aggregated
<1> QED
  BY <1>1 DEF Ready

\* Miners, requests and fallbacks.
LEMMA MinersJobs ==
  ASSUME IInv, JInv,
         \/ \E m \in Miner : \/ HandleOpenExtendedMiningChannel(m)
                             \/ HandleSubmitSharesExtended(m) \/ HandleMinerGone(m)
         \/ HandleUpdateChannel \/ Fallback
  PROVE  JInv'
<1>1. /\ up \in UpstreamState /\ up.open \subseteq up.open
      /\ out.kind = "job" => out.tip = server_tip
  BY DEF IInv, JInv, JobsOnTheServersTip, Types
<1>2. ASSUME NEW m \in Miner, HandleOpenExtendedMiningChannel(m)
      PROVE  JInv'
  <2>1. stream' = stream /\ mode' = mode /\ server_tip' = server_tip
    BY <1>2 DEF HandleOpenExtendedMiningChannel
  <2>2. CASE AskUpstream(m)
    <3>1. /\ up' = [up EXCEPT !.requests = Append(@, m)] /\ out' = out
          /\ UNCHANGED <<upstream_channel, extended_channels>>
      BY <2>2 DEF AskUpstream
    <3>2. up'.tip = up.tip /\ up'.open \subseteq up.open
      BY <1>1, <3>1 DEF UpstreamState
    <3> QED
      BY <1>1, <2>1, <3>1, <3>2, SameView, QuietJobs
  <2>3. CASE Aggregated /\ upstream_channel # None /\ JoinsShared(m)
    <3>1. /\ UNCHANGED <<upstream_channel, up>>
          /\ out' = IF upstream_channel.channel.job = 0 THEN NoOut
                    ELSE [kind |-> "job", tip |-> upstream_channel.channel.job]
      BY <2>3 DEF JoinsShared
    <3>2. out'.kind = "job" => out'.tip = server_tip
      BY <2>3, <3>1 DEF JInv, SharedOnServersTip, NoOut
    <3> QED
      BY <2>1, <2>3, <3>1, <3>2, SameView, QuietJobs
  <2> QED
    BY <1>2, <2>2, <2>3 DEF HandleOpenExtendedMiningChannel
<1>3. ASSUME NEW m \in Miner, HandleSubmitSharesExtended(m)
      PROVE  JInv'
  <2>1. /\ UNCHANGED <<mode, extended_channels, upstream_channel, server_tip, up, stream>>
        /\ out'.kind = "share"
    BY <1>3 DEF HandleSubmitSharesExtended, Forwarded, cmVars, serverVars
  <2> QED
    BY <2>1, SameView, QuietJobs
<1>4. ASSUME NEW m \in Miner, HandleMinerGone(m)
      PROVE  JInv'
  <2>1. /\ UNCHANGED <<mode, extended_channels, upstream_channel, server_tip, out, stream>>
        /\ up' = IF Aggregated THEN up ELSE [up EXCEPT !.open = @ \ {told[m]}]
    BY <1>4 DEF HandleMinerGone, cmVars
  <2>2. up'.tip = up.tip /\ up'.open \subseteq up.open
    BY <1>1, <2>1 DEF UpstreamState
  <2> QED
    BY <1>1, <2>1, <2>2, SameView, QuietJobs
<1>5. CASE HandleUpdateChannel
  <2>1. UNCHANGED <<mode, extended_channels, upstream_channel, server_tip, out, up, stream>>
    BY <1>5 DEF HandleUpdateChannel, cmVars, serverVars
  <2> QED
    BY <1>1, <2>1, SameView, QuietJobs
<1>6. CASE Fallback
  <2>1. /\ UNCHANGED <<mode, server_tip, out, stream>> /\ upstream_channel' = None
        /\ DOMAIN extended_channels' = {} /\ up'.tip = up.tip /\ up'.open = {}
    BY <1>6 DEF Fallback, FreshUpstream
  <2>2. \A c \in UpstreamId, t \in Tip : Ready(c, t)'
    BY <2>1 DEF Ready, View
  <2> QED
    BY <1>1, <2>1, <2>2, QuietJobs
<1> QED
  BY <1>2, <1>3, <1>4, <1>5, <1>6

\* Two sequences of the same length, one after the other.
LEMMA OneAfterOther ==
  ASSUME NEW S, NEW n \in Nat, NEW s \in Seq(S), NEW r \in Seq(S), Len(s) = n, Len(r) = n
  PROVE  /\ DOMAIN (s \o r) = 1..(n + n)
         /\ \A i \in 1..n : n + i \in 1..(n + n) /\ (s \o r)[n + i] = r[i]
<1>1. Len(s \o r) = n + n /\ s \o r \in Seq(S)
  OBVIOUS
<1>2. \A i \in 1..n : n + i \in 1..(n + n) /\ n + i > n /\ (n + i) - n = i
  OBVIOUS
<1>3. \A k \in 1..(n + n) : k > n => (s \o r)[k] = r[k - n]
  OBVIOUS
<1> QED
  BY <1>1, <1>2, <1>3

\* The upstream's messages: a prev hash comes after its future job, a job after the
\* prev hash of its tip.
LEMMA UpstreamJobs ==
  ASSUME IInv, JInv, UpstreamOpens \/ UpstreamRefuses \/ UpstreamNewTip \/ UpstreamNewJob
                     \/ UpstreamSetsTarget \/ UpstreamCloses
  PROVE  JInv'
<1>1. /\ Types /\ up \in UpstreamState /\ stream \in Seq(Message)
      /\ up.open \subseteq UpstreamId /\ up.tip \in 1..MaxTip /\ up.tip \in Tip /\ up.tip \in Int
      /\ up.tip <= up.tip
      /\ out.kind = "job" => out.tip = server_tip
  BY Constants DEF IInv, Types, UpstreamState, Tip, JInv, JobsOnTheServersTip
<1>2. /\ UNCHANGED <<mode, server_tip, upstream_channel, extended_channels, out>>
      /\ \A c \in UpstreamId, t \in Tip : Ready(c, t) => Ready(c, t)'
  <2>1. UNCHANGED <<mode, server_tip, upstream_channel, extended_channels, out>>
    BY DEF UpstreamOpens, UpstreamRefuses, UpstreamNewTip, UpstreamNewJob, UpstreamSetsTarget,
           UpstreamCloses, cmVars, serverVars
  <2> QED
    BY <2>1, SameView
<1>3. CASE UpstreamOpens
  <2> DEFINE c == up.next
             new == <<Success(c, Head(up.requests)), Future(c), PrevHash(c, up.tip)>>
  <2>1. /\ up.requests # <<>> /\ up.next <= MaxOpened /\ stream' = stream \o new
        /\ up' = [up EXCEPT !.requests = Tail(@), !.next = @ + 1, !.open = @ \cup {up.next}]
    BY <1>3 DEF UpstreamOpens
  <2>2. c \in UpstreamId /\ Head(up.requests) \in Miner
    BY <1>1, <2>1, Requests, Constants DEF UpstreamState, UpstreamId, Old
  <2>3. new \in Seq(Message) /\ DOMAIN new = 1..3
    BY <1>1, <2>2, Messages
  <2>4. /\ new[1].kind = "success" /\ new[2].kind = "future" /\ new[2].channel = c
        /\ new[3].kind = "prevhash" /\ new[3].channel = c /\ new[3].tip = up.tip
    BY DEF Success, Future, PrevHash
  <2>5. up'.tip = up.tip
    BY <1>1, <2>1 DEF UpstreamState
  <2> HIDE DEF new, c
  <2>6. \A i \in DOMAIN new : /\ new[i].kind = "prevhash" => i = 3
                              /\ new[i].kind \in {"prevhash", "job"} => i = 3
                              /\ new[i].kind # "job"
    BY <2>3, <2>4
  <2>7. Heralded(new)
    <3>1. 2 \in 1..(3 - 1) /\ (2 + 1)..(3 - 1) = {}
      OBVIOUS
    <3> QED
      BY <2>4, <2>6, <3>1 DEF Heralded
  <2>8. /\ \A i \in DOMAIN new : new[i].kind \in {"prevhash", "job"} => new[i].tip = up'.tip
        /\ \A i \in DOMAIN new : new[i].kind = "job" => up.open # {} /\ up'.tip = up.tip
        /\ \E i \in DOMAIN new : new[i].kind = "prevhash"
    BY <2>3, <2>4, <2>5, <2>6
  <2> QED
    BY <1>1, <1>2, <2>1, <2>3, <2>5, <2>7, <2>8, SendJobs
<1>4. CASE UpstreamNewTip
  <2> DEFINE t == up.tip + 1
             n == Len(OpenInOrder)
             new == Futures \o Hashes(t)
  <2>1. /\ up.tip < MaxTip /\ up' = [up EXCEPT !.tip = @ + 1] /\ up.open # {}
        /\ stream' = stream \o Futures \o Hashes(t)
    BY <1>4 DEF UpstreamNewTip, ToAll, Futures, Hashes
  <2>2. t \in Tip /\ t \in Int /\ up'.tip = t /\ up.tip <= t
    BY <1>1, <2>1, Constants DEF Tip, UpstreamState
  <2>3. /\ n \in Nat /\ DOMAIN OpenInOrder = 1..n
        /\ Futures \in Seq(Message) /\ Len(Futures) = n
        /\ \A i \in 1..n : Futures[i].kind = "future" /\ Futures[i].channel = OpenInOrder[i]
        /\ Hashes(t) \in Seq(Message) /\ Len(Hashes(t)) = n
        /\ \A i \in 1..n : /\ Hashes(t)[i].kind = "prevhash" /\ Hashes(t)[i].tip = t
                           /\ Hashes(t)[i].channel = OpenInOrder[i]
    BY <1>1, <2>2, Announcements
  <2>4. 1 \in 1..n
    <3>1. PICK i \in DOMAIN OpenInOrder : TRUE
      BY <1>1, <2>1, Order
    <3> QED
      BY <2>3, <3>1
  <2> HIDE DEF t, n
  <2>5. /\ new \in Seq(Message) /\ stream' = stream \o new
        /\ DOMAIN new = 1..(n + n)
        /\ \A i \in 1..n : new[i] = Futures[i]
        /\ \A i \in 1..n : n + i \in DOMAIN new /\ new[n + i] = Hashes(t)[i]
    <3>1. new \in Seq(Message) /\ Len(new) = n + n
      BY <2>3
    <3>2. \A s1, s2, s3 \in Seq(Message) : (s1 \o s2) \o s3 = s1 \o (s2 \o s3)
      OBVIOUS
    <3>3. stream' = stream \o new
      BY <1>1, <2>1, <2>3, <3>2
    <3>4. \A i \in 1..n : new[i] = Futures[i]
      BY <2>3
    <3>5. \A i \in 1..n : n + i \in 1..(n + n) /\ new[n + i] = Hashes(t)[i]
      <4>1. /\ n \in Nat /\ Futures \in Seq(Message) /\ Hashes(t) \in Seq(Message)
            /\ Len(Futures) = n /\ Len(Hashes(t)) = n
        BY <2>3
      <4>2. \A i \in 1..n : n + i \in 1..(n + n) /\ (Futures \o Hashes(t))[n + i] = Hashes(t)[i]
        BY <4>1, OneAfterOther
      <4> QED
        BY <4>2
    <3>6. DOMAIN new = 1..(n + n)
      BY <2>3, OneAfterOther
    <3> QED
      BY <3>1, <3>3, <3>4, <3>5, <3>6
  <2>6. /\ \A i \in 1..n : new[i].kind = "future" /\ new[i].channel = OpenInOrder[i]
        /\ \A i \in 1..n : /\ new[n + i].kind = "prevhash" /\ new[n + i].tip = t
                           /\ new[n + i].channel = OpenInOrder[i]
    BY <2>3, <2>5
  <2> HIDE DEF new
  <2>7. \A k \in DOMAIN new : k \in 1..n \/ \E i \in 1..n : k = n + i
    <3> SUFFICES ASSUME NEW k \in DOMAIN new, k \notin 1..n PROVE \E i \in 1..n : k = n + i
      OBVIOUS
    <3>1. k - n \in 1..n /\ k = n + (k - n)
      BY <2>3, <2>5
    <3> QED
      BY <3>1
  <2>8. \A k \in DOMAIN new : \/ new[k].kind = "future"
                              \/ new[k].kind = "prevhash" /\ new[k].tip = t
    BY <2>6, <2>7
  <2>9. Heralded(new)
    <3> SUFFICES ASSUME NEW k \in DOMAIN new, new[k].kind = "prevhash"
                 PROVE  \E j \in 1..(k - 1) :
                          /\ new[j].kind = "future" /\ new[j].channel = new[k].channel
                          /\ \A l \in (j + 1)..(k - 1) :
                               \/ new[l].kind = "future"
                               \/ new[l].kind = "prevhash" /\ new[l].tip = new[k].tip
      BY DEF Heralded
    <3>1. PICK i \in 1..n : k = n + i
      BY <2>6, <2>7
    <3>2. i \in 1..(k - 1) /\ \A l \in (i + 1)..(k - 1) : l \in DOMAIN new
      BY <2>3, <2>5, <3>1
    <3>3. new[i].kind = "future" /\ new[i].channel = new[k].channel /\ new[k].tip = t
      BY <2>6, <3>1
    <3> QED
      BY <2>8, <3>2, <3>3
  <2>10. /\ \A i \in DOMAIN new : new[i].kind \in {"prevhash", "job"} => new[i].tip = up'.tip
         /\ \A i \in DOMAIN new : new[i].kind # "job"
    BY <2>2, <2>8
  <2>11. \E i \in DOMAIN new : new[i].kind = "prevhash"
    BY <2>4, <2>5, <2>6
  <2> QED
    BY <1>1, <1>2, <2>2, <2>5, <2>9, <2>10, <2>11, SendJobs
<1>5. ASSUME NEW new \in Seq(Message), stream' = stream \o new,
             \A i \in DOMAIN new : new[i].kind # "prevhash",
             \A i \in DOMAIN new : new[i].kind = "job" => new[i].tip = up.tip /\ up.open # {},
             up'.tip = up.tip, up'.open \subseteq up.open
      PROVE  JInv'
  <2>1. Heralded(new)
    BY <1>5 DEF Heralded
  <2>2. up'.open = {} \/ (up.open # {} /\ up'.tip = up.tip)
    BY <1>5
  <2>3. /\ \A i \in DOMAIN new : new[i].kind \in {"prevhash", "job"} => new[i].tip = up'.tip
        /\ \A i \in DOMAIN new : new[i].kind = "job" => up.open # {} /\ up'.tip = up.tip
    BY <1>5
  <2>4. up'.tip \in Int /\ up.tip <= up'.tip
    BY <1>1, <1>5
  <2> QED
    BY <1>1, <1>2, <1>5, <2>1, <2>2, <2>3, <2>4, SendJobs
<1>6. ASSUME NEW msg \in Message, stream' = Append(stream, msg),
             msg.kind \notin {"prevhash", "job"}, up'.tip = up.tip, up'.open \subseteq up.open
      PROVE  JInv'
  <2> DEFINE new == <<msg>>
  <2>1. new \in Seq(Message) /\ stream' = stream \o new /\ \A i \in DOMAIN new : new[i] = msg
    BY <1>1, <1>6
  <2> HIDE DEF new
  <2> QED
    BY <1>5, <1>6, <2>1
<1>7. CASE UpstreamRefuses
  <2>1. /\ up.requests # <<>> /\ up' = [up EXCEPT !.requests = Tail(@)]
        /\ stream' = Append(stream, OpenError(Head(up.requests)))
    BY <1>7 DEF UpstreamRefuses
  <2>2. Head(up.requests) \in Miner
    BY <2>1, Requests DEF Old
  <2>3. /\ OpenError(Head(up.requests)) \in Message
        /\ OpenError(Head(up.requests)).kind \notin {"prevhash", "job"}
    BY <2>2, Constants, Messages DEF OpenError
  <2>4. up'.tip = up.tip /\ up'.open \subseteq up.open
    BY <1>1, <2>1 DEF UpstreamState
  <2> QED
    BY <1>6, <2>1, <2>3, <2>4
<1>8. CASE UpstreamNewJob
  <2>1. /\ stream' = stream \o Jobs(up.tip) /\ up' = up /\ up.open # {}
    BY <1>8 DEF UpstreamNewJob, ToAll, Jobs
  <2>2. /\ Jobs(up.tip) \in Seq(Message)
        /\ \A i \in DOMAIN Jobs(up.tip) : Jobs(up.tip)[i].kind = "job" /\ Jobs(up.tip)[i].tip = up.tip
    BY <1>1, Announcements
  <2> DEFINE new == Jobs(up.tip)
  <2>3. new \in Seq(Message) /\ stream' = stream \o new
        /\ \A i \in DOMAIN new : new[i].kind = "job" /\ new[i].tip = up.tip
    BY <2>1, <2>2
  <2> HIDE DEF new
  <2> QED
    BY <1>5, <2>1, <2>3
<1>9. CASE UpstreamSetsTarget
  <2>1. PICK c \in up.open : stream' = Append(stream, Target(c))
    BY <1>9 DEF UpstreamSetsTarget
  <2>2. up' = up /\ Target(c) \in Message /\ Target(c).kind \notin {"prevhash", "job"}
    BY <1>1, <1>9, Messages DEF Target, UpstreamSetsTarget
  <2> QED
    BY <1>6, <2>1, <2>2
<1>10. CASE UpstreamCloses
  <2>1. PICK c \in up.open : /\ up' = [up EXCEPT !.open = @ \ {c}]
                             /\ stream' = Append(stream, Close(c))
    BY <1>10 DEF UpstreamCloses
  <2>2. Close(c) \in Message /\ Close(c).kind \notin {"prevhash", "job"}
    BY <1>1, Messages DEF Close
  <2>3. up'.tip = up.tip /\ up'.open \subseteq up.open
    BY <1>1, <2>1 DEF UpstreamState
  <2> QED
    BY <1>6, <2>1, <2>2, <2>3
<1> QED
  BY <1>3, <1>4, <1>7, <1>8, <1>9, <1>10

\* A message that is no job and no prev hash.
LEMMA TakeJobs ==
  ASSUME IInv, JInv, NEW kind, kind \notin {"prevhash", "job"}, Received(kind), mode' = mode, up' = up,
         server_tip' = server_tip, out' = out,
         \A c \in UpstreamId, t \in Tip : Prepares(1, c, t) => Ready(c, t)',
         \A c \in UpstreamId, t \in Tip : LeavesOn(1, c, t) /\ Ready(c, t) => Ready(c, t)',
         upstream_channel' # None =>
           \/ upstream_channel'.channel.job = 0
           \/ upstream_channel # None /\ upstream_channel'.channel.job = upstream_channel.channel.job
  PROVE  JInv'
<1>1. Types /\ Armed /\ TipsInOrder
  BY DEF IInv, JInv
<1>2. Armed'
  BY <1>1, TakeArmed
<1>3. TipsInOrder'
  BY <1>1, TakeTips
<1>4. SharedOnServersTip' /\ JobsOnTheServersTip'
  BY DEF JInv, SharedOnServersTip, JobsOnTheServersTip, Aggregated
<1> QED
  BY <1>2, <1>3, <1>4 DEF JInv

\* Channels that are opened or closed, and answers nobody waits for.
LEMMA ChannelsJobs ==
  ASSUME IInv, JInv, \/ HandleOpenExtendedMiningChannelSuccess \/ HandleOpenMiningChannelError
                     \/ HandleCloseChannel
  PROVE  JInv'
<1>0. Types
  BY DEF IInv
<1>1. CASE HandleOpenExtendedMiningChannelSuccess
  <2>1. /\ Received("success") /\ Head(stream) = stream[1] /\ stream[1].kind = "success"
        /\ UNCHANGED <<mode, server_tip, out, up>>
    BY <1>0, <1>1, Takes DEF HandleOpenExtendedMiningChannelSuccess
  <2>2. \A c \in UpstreamId, t \in Tip : Prepares(1, c, t) => Ready(c, t)'
    BY <2>1 DEF Prepares
  <2>3. CASE UNCHANGED cmVars
    <3>1. UNCHANGED <<upstream_channel, extended_channels>>
      BY <2>3 DEF cmVars
    <3> QED
      BY <2>1, <2>2, <3>1, SameView, TakeJobs
  <2>4. CASE IF Aggregated THEN OpensShared(stream[1].channel) ELSE OpensOwn(stream[1].channel)
    <3>1. ASSUME NEW c \in UpstreamId, NEW t \in Tip, LeavesOn(1, c, t), Ready(c, t)
          PROVE  Ready(c, t)'
      <4>1. ~Aggregated /\ stream[1].channel # c
        BY <2>1, <3>1 DEF LeavesOn, Concerns, IsPrevHash
      <4>2. PICK ext \in {0, 1} :
              extended_channels' = Put(extended_channels, stream[1].channel,
                                       NewChannel(stream[1].channel, ext))
        BY <2>4, <4>1 DEF OpensOwn
      <4>3. View(c)' = View(c)
        BY <2>1, <4>1, <4>2 DEF View, Put, Aggregated
      <4> QED
        BY <3>1, <4>3 DEF Ready
    <3>2. upstream_channel' # None =>
            \/ upstream_channel'.channel.job = 0
            \/ upstream_channel # None
                 /\ upstream_channel'.channel.job = upstream_channel.channel.job
      BY <2>4 DEF OpensShared, OpensOwn, NewChannel
    <3> QED
      BY <2>1, <2>2, <3>1, <3>2, TakeJobs
  <2> QED
    BY <1>1, <2>1, <2>3, <2>4 DEF HandleOpenExtendedMiningChannelSuccess
<1>2. CASE HandleOpenMiningChannelError
  <2>1. /\ Received("error") /\ stream[1].kind = "error"
        /\ UNCHANGED <<mode, server_tip, out, up, upstream_channel, extended_channels>>
    BY <1>0, <1>2, Takes DEF HandleOpenMiningChannelError, cmVars, serverVars
  <2>2. \A c \in UpstreamId, t \in Tip : Prepares(1, c, t) => Ready(c, t)'
    BY <2>1 DEF Prepares
  <2> QED
    BY <2>1, <2>2, SameView, TakeJobs
<1>3. CASE HandleCloseChannel
  <2>1. /\ Received("close") /\ stream[1].kind = "close" /\ Head(stream) = stream[1]
        /\ UNCHANGED <<mode, server_tip, out, up>>
    BY <1>0, <1>3, Takes DEF HandleCloseChannel, serverVars
  <2>2. \A c \in UpstreamId, t \in Tip : Prepares(1, c, t) => Ready(c, t)'
    BY <2>1 DEF Prepares
  <2>3. ASSUME NEW c \in UpstreamId, NEW t \in Tip, Ready(c, t)
        PROVE  Ready(c, t)'
    <3>1. View(c)' \subseteq View(c)
      BY <1>3, <2>1 DEF HandleCloseChannel, View, Aggregated
    <3> QED
      BY <2>3, <3>1 DEF Ready
  <2>4. upstream_channel' # None => upstream_channel' = upstream_channel
    BY <1>3 DEF HandleCloseChannel
  <2> QED
    BY <2>1, <2>2, <2>3, <2>4, TakeJobs
<1> QED
  BY <1>1, <1>2, <1>3

\* Future jobs, jobs and targets: a job is for the tip its channel is on, and for
\* the one the SV1 server has.
LEMMA FollowJobs ==
  ASSUME IInv, JInv, HandleNewExtendedMiningJob \/ HandleSetTarget
  PROVE  JInv'
<1>0. Types /\ Armed /\ TipsInOrder /\ PrefixSources /\ TipIsJobs
  BY DEF IInv, JInv
<1>1. /\ ChannelsFollow /\ UNCHANGED <<mode, server_tip, up>>
      /\ \/ Received("future") /\ out' = out
         \/ Received("target") /\ out' = out
         \/ Received("job") /\ out' = [kind |-> "job", tip |-> Head(stream).tip]
  BY DEF HandleNewExtendedMiningJob, HandleSetTarget, serverVars
<1>2. PICK kind \in {"future", "target", "job"} :
        /\ Received(kind)
        /\ kind # "job" => out' = out
        /\ kind = "job" => out' = [kind |-> "job", tip |-> Head(stream).tip]
  BY <1>1
<1>3. /\ stream # <<>> /\ Head(stream) = stream[1] /\ stream[1] \in Message
      /\ stream[1].kind = kind /\ 1 \in DOMAIN stream
  BY <1>0, <1>2, Takes
<1>4. Armed'
  <2>1. \A c \in UpstreamId, t \in Tip :
          /\ Prepares(1, c, t) => Ready(c, t)'
          /\ LeavesOn(1, c, t) /\ Ready(c, t) => Ready(c, t)'
    BY <1>0, <1>1, <1>2, FollowReady
  <2> QED
    BY <1>0, <1>1, <1>2, <2>1, TakeArmed
<1>5. TipsInOrder'
  BY <1>0, <1>1, <1>2, TakeTips
<1>6. kind = "job" => stream[1].tip = server_tip
  BY <1>0, <1>3 DEF TipsInOrder
<1>7. JobsOnTheServersTip'
  BY <1>1, <1>2, <1>3, <1>6 DEF JInv, JobsOnTheServersTip
<1>8. SharedOnServersTip'
  <2> SUFFICES ASSUME Aggregated, upstream_channel' # None, upstream_channel'.channel.job # 0
               PROVE  upstream_channel'.channel.job = server_tip
    BY <1>1 DEF SharedOnServersTip, Aggregated
  <2>1. /\ upstream_channel # None /\ upstream_channel'.channel = Changed(upstream_channel.channel)
        /\ upstream_channel.channel \in Channel
    BY <1>0, <1>1, <1>2, Follow
  <2>2. upstream_channel.channel.tip = upstream_channel.channel.job
    BY <1>0, <2>1 DEF TipIsJobs
  <2>3. Changed(upstream_channel.channel).job = upstream_channel.channel.job
    BY <1>0, <1>3, <2>1, <2>2, Changes
  <2> QED
    BY <2>1, <2>3 DEF JInv, SharedOnServersTip
<1> QED
  BY <1>4, <1>5, <1>7, <1>8 DEF JInv

\* A prev hash: the channel whose job follows it is on its tip.
LEMMA PrevHashJobs ==
  ASSUME IInv, JInv, HandleSetNewPrevHash
  PROVE  JInv'
<1>0. Types /\ Armed /\ TipsInOrder /\ PrefixSources /\ TipIsJobs
  BY DEF IInv, JInv
<1>1. /\ ChannelsFollow /\ UNCHANGED <<mode, up>> /\ Received("prevhash")
      /\ server_tip' = Head(stream).tip
      /\ out' = IF \E ch \in ActiveChannel : ch.job # 0
                  THEN [kind |-> "job", tip |-> (CHOOSE ch \in ActiveChannel : TRUE).job]
                  ELSE NoOut
  BY DEF HandleSetNewPrevHash
<1>2. /\ stream # <<>> /\ Head(stream) = stream[1] /\ stream[1] \in Message
      /\ stream[1].kind = "prevhash" /\ 1 \in DOMAIN stream
  BY <1>0, <1>1, Takes
<1>3. PICK c \in UpstreamId, t \in Tip : stream[1].channel = c /\ stream[1].tip = t
  BY <1>2, Fields
<1>4. Armed'
  <2>1. \A d \in UpstreamId, s \in Tip :
          /\ Prepares(1, d, s) => Ready(d, s)'
          /\ LeavesOn(1, d, s) /\ Ready(d, s) => Ready(d, s)'
    BY <1>0, <1>1, FollowReady
  <2> QED
    BY <1>0, <1>1, <2>1, TakeArmed
<1>5. TipsInOrder'
  BY <1>0, <1>1, <1>2, TakeTips
<1>6. Ready(c, t)
  BY <1>0, <1>2, <1>3, FirstIsReady DEF IsPrevHashFor, IsPrevHash
<1>7. /\ DOMAIN extended_channels' = DOMAIN extended_channels
      /\ \A d \in DOMAIN extended_channels :
           extended_channels'[d] = IF Aggregated \/ d = stream[1].channel
                                     THEN Changed(extended_channels[d])
                                     ELSE extended_channels[d]
      /\ (Aggregated /\ upstream_channel # None) =>
           upstream_channel'.channel = Changed(upstream_channel.channel)
      /\ ~(Aggregated /\ upstream_channel # None) => upstream_channel' = upstream_channel
  BY <1>0, <1>1, Follow
<1>8. \A ch \in View(c) : Changed(ch).job = t
  <2> SUFFICES ASSUME NEW ch \in View(c) PROVE Changed(ch).job = t
    OBVIOUS
  <2>1. ch \in Channel /\ ch.future \in BOOLEAN
    BY <1>0 DEF View, Types, Channel
  <2>2. Changed(ch).job = IF ch.future THEN t ELSE ch.job
    BY <1>0, <1>2, <1>3, <2>1, Changes
  <2> QED
    BY <1>6, <2>1, <2>2 DEF Ready
<1>9. \A new \in View(c)' : new.job = t
  <2>1. CASE Aggregated
    BY <1>1, <1>7, <1>8, <2>1 DEF View, Aggregated
  <2>2. CASE ~Aggregated
    BY <1>1, <1>3, <1>7, <1>8, <2>2 DEF View, Aggregated
  <2> QED
    BY <2>1, <2>2
<1>10. ActiveChannel = View(c)'
  BY <1>1, <1>2, <1>3, <1>7 DEF ActiveChannel, View, Aggregated
<1>11. JobsOnTheServersTip'
  <2>1. ASSUME \E ch \in ActiveChannel : ch.job # 0
        PROVE  (CHOOSE ch \in ActiveChannel : TRUE).job = t
    <3>1. (CHOOSE ch \in ActiveChannel : TRUE) \in ActiveChannel
      BY <2>1
    <3> QED
      BY <1>9, <1>10, <3>1
  <2> QED
    BY <1>1, <1>2, <1>3, <2>1 DEF JobsOnTheServersTip, NoOut
<1>12. SharedOnServersTip'
  <2> SUFFICES ASSUME Aggregated, upstream_channel' # None
               PROVE  upstream_channel'.channel.job = server_tip'
    BY <1>1 DEF SharedOnServersTip, Aggregated
  <2>1. upstream_channel'.channel \in View(c)'
    BY <1>1 DEF View, Aggregated
  <2> QED
    BY <1>1, <1>2, <1>3, <1>9, <2>1
<1> QED
  BY <1>4, <1>5, <1>11, <1>12 DEF JInv

\* At the start there is no message and no job.
LEMMA InitJobs ==
  ASSUME Init
  PROVE  JInv
<1>1. /\ stream = <<>> /\ DOMAIN stream = {} /\ server_tip = 0 /\ up.tip = 1 /\ up.open = {}
      /\ out.kind # "job" /\ upstream_channel = None
  BY DEF Init, FreshUpstream, NoOut
<1> QED
  BY <1>1 DEF JInv, Armed, TipsInOrder, SharedOnServersTip, JobsOnTheServersTip

\* Every step keeps the jobs on their tips.
LEMMA NextJobs ==
  ASSUME IInv, JInv, [Next]_vars
  PROVE  JInv'
<1>1. CASE UNCHANGED vars
  <2>1. UNCHANGED <<mode, extended_channels, upstream_channel, server_tip, out, up, stream>>
    BY <1>1 DEF vars, cmVars, serverVars
  <2>2. out'.kind = "job" => out'.tip = server_tip
    BY <2>1 DEF JInv, JobsOnTheServersTip
  <2> QED
    BY <2>1, <2>2, SameView, QuietJobs
<1> QED
  BY <1>1, MinersJobs, UpstreamJobs, ChannelsJobs, FollowJobs, PrevHashJobs DEF Next

\* The job the SV1 server is sent builds on the prev hash it was sent last, in
\* both modes and whatever is opened, closed or abandoned meanwhile: every prev
\* hash finds the future job sent ahead of it (handle_set_new_prev_hash).
THEOREM JobsFit == Spec => []JobsOnTheServersTip
<1>1. Init => JInv
  BY InitJobs
<1>2. IInv /\ JInv /\ [Next]_vars => JInv'
  BY NextJobs
<1>3. JInv => JobsOnTheServersTip
  BY DEF JInv
<1> QED
  BY <1>1, <1>2, <1>3, Invariance, PTL DEF Spec

-----------------------------------------------------------------------------
(* The tasks around the manager: TranslatorLifecycle, for any set of miners, *)
(* any number of upstreams and inputs, without an assumption on any of them. *)

Component == {UpstreamTask, Server}
ServerFailed == Reported(Sv1ServerShutdown)

TaskTypes ==
  /\ status \in Seq(Status)
  /\ task \in [Task -> TaskState]
  /\ unread \in [Task -> {"none", "message", "lag"}]

\* What has ended reads nothing.
EndedIsDeaf == \A r \in Component : ~Live(r) => unread[r] = "none"

\* While a fallback waits for its acknowledgements, it is the last message broadcast.
\* The upstream task and the SV1 server have not read it or have ended, and a server
\* that has ended forgot its miners or failed.
FallbackIsHeard ==
  main = "acknowledging" =>
    /\ notice = UpstreamFallback
    /\ \A r \in Component : Live(r) => unread[r] # "none"
    /\ Live(Server) \/ downstreams = {} \/ ServerFailed

\* While the main loop serves, the server is alive or its failure is reported, and
\* it has nothing to read of the fallback before.
ServerServes ==
  main = "loop" =>
    /\ Live(Server) \/ ServerFailed
    /\ notice \in {ShutdownAll, UpstreamFallback} => unread[Server] = "none"

\* Inductive together with the types.
CleanFallback ==
  EndedIsDeaf /\ FallbackIsHeard /\ ServerServes /\ FallbackLeavesNothing

\* The names of the tasks are distinct,
LEMMA TaskNames ==
  /\ Component \subseteq Task /\ CM \in Task
  /\ Server \in Component /\ UpstreamTask \in Component
  /\ Server # UpstreamTask /\ CM \notin Component
  /\ \A m \in Miner : Session(m) \in Task /\ Session(m) \notin Component
BY DEF Component, Task, CM, Server, UpstreamTask, Session

\* ... and those of the messages.
LEMMA StatusNames ==
  /\ UpstreamShutdown \in Status /\ ChannelManagerShutdown \in Status
  /\ Sv1ServerShutdown \in Status
  /\ \A m \in Miner : DownstreamShutdown(m) \in Status
  /\ UpstreamShutdown # Sv1ServerShutdown
  /\ \A m \in Miner : /\ DownstreamShutdown(m) # Sv1ServerShutdown
                      /\ DownstreamShutdown(m) # ShutdownAll
                      /\ DownstreamShutdown(m) # UpstreamFallback
  /\ ShutdownAll # UpstreamFallback
BY DEF Status, UpstreamShutdown, ChannelManagerShutdown,
       Sv1ServerShutdown, DownstreamShutdown, ShutdownAll,
       UpstreamFallback

\* What is reported stays reported until the main loop reads it.
LEMMA ReportKeeps ==
  ASSUME status \in Seq(Status), NEW s \in Status, Report(s)
  PROVE  /\ status' \in Seq(Status)
         /\ ServerFailed => ServerFailed'
         /\ s = Sv1ServerShutdown => ServerFailed'
<1>1. /\ status' \in Seq(Status) /\ DOMAIN status' = 1..(Len(status) + 1)
      /\ \A i \in 1..Len(status) : status'[i] = status[i]
      /\ status'[Len(status) + 1] = s /\ DOMAIN status = 1..Len(status) /\ Len(status) \in Nat
  BY DEF Report
<1>2. ServerFailed => ServerFailed'
  BY <1>1 DEF ServerFailed, Reported, Sv1ServerShutdown
<1>3. s = Sv1ServerShutdown => ServerFailed'
  BY <1>1 DEF ServerFailed, Reported, Sv1ServerShutdown
<1> QED
  BY <1>1, <1>2, <1>3

\* What is read is no longer reported.
LEMMA ReadKeeps ==
  ASSUME status \in Seq(Status), status # <<>>, status' = Tail(status)
  PROVE  /\ status' \in Seq(Status)
         /\ Head(status) # Sv1ServerShutdown => (ServerFailed => ServerFailed')
<1>1. /\ status' \in Seq(Status) /\ DOMAIN status' = 1..(Len(status) - 1)
      /\ \A i \in 1..(Len(status) - 1) : status'[i] = status[i + 1]
      /\ DOMAIN status = 1..Len(status) /\ Len(status) \in Nat /\ Head(status) = status[1]
  OBVIOUS
<1>2. ASSUME Head(status) # Sv1ServerShutdown, ServerFailed PROVE ServerFailed'
  <2>1. PICK i \in DOMAIN status : status[i] = Sv1ServerShutdown
    BY <1>2 DEF ServerFailed, Reported
  <2>2. i - 1 \in DOMAIN status' /\ status'[i - 1] = Sv1ServerShutdown
    BY <1>1, <1>2, <2>1
  <2> QED
    BY <2>2 DEF ServerFailed, Reported, Sv1ServerShutdown
<1> QED
  BY <1>1, <1>2

\* Steps of the other tasks: what is known of the two components stays known.
LEMMA Elsewhere ==
  ASSUME CleanFallback, main' = main, notice' = notice,
         downstreams' = downstreams \/ Live(Server),
         \A r \in Component : task'[r] = task[r] /\ unread'[r] = unread[r],
         ServerFailed => ServerFailed'
  PROVE  CleanFallback'
<1>1. \A r \in Component : Live(r)' = Live(r)
  BY DEF Live
<1>2. Server \in Component /\ UpstreamTask \in Component
  BY TaskNames
<1>3. EndedIsDeaf'
  BY <1>1 DEF CleanFallback, EndedIsDeaf
<1>4. FallbackIsHeard'
  BY <1>1, <1>2 DEF CleanFallback, FallbackIsHeard
<1>5. ServerServes'
  BY <1>1, <1>2 DEF CleanFallback, ServerServes
<1>6. FallbackLeavesNothing'
  BY <1>1, <1>2 DEF CleanFallback, FallbackLeavesNothing, ServerFailed
<1> QED
  BY <1>3, <1>4, <1>5, <1>6 DEF CleanFallback
-----------------------------------------------------------------------------
(* The tasks of the miners, the channel manager and the upstream.           *)

\* A change of one task.
LEMMA OneTask ==
  ASSUME TaskTypes, NEW r \in Task, NEW s \in TaskState,
         NEW u \in {"none", "message", "lag"}, status' \in Seq(Status),
         \/ task' = [task EXCEPT ![r] = s] \/ task' = task,
         \/ unread' = [unread EXCEPT ![r] = u] \/ unread' = unread
  PROVE  /\ TaskTypes'
         /\ \A q \in Task : q # r => task'[q] = task[q] /\ unread'[q] = unread[q]
         /\ task' # task => task'[r] = s
         /\ unread' # unread => unread'[r] = u
BY DEF TaskTypes

LEMMA SessionSteps ==
  ASSUME TaskTypes, CleanFallback, NEW m \in Miner,
         \/ SessionMessage(m) \/ SessionFails(m) \/ SessionNotice(m)
         \/ ServerAccept(m)
  PROVE  TaskTypes' /\ CleanFallback'
<1> DEFINE r == Session(m)
<1>0. /\ r \in Task /\ r \notin Component /\ Component \subseteq Task
      /\ DownstreamShutdown(m) \in Status
  BY TaskNames, StatusNames
<1>1. /\ main' = main /\ notice' = notice
      /\ downstreams' = downstreams \/ Live(Server)
  BY DEF SessionMessage, SessionFails, SessionNotice, ServerAccept,
         mainVars
<1>2. status' = status \/ Report(DownstreamShutdown(m))
  BY DEF SessionMessage, SessionFails, SessionNotice, ServerAccept
<1>3. status' \in Seq(Status) /\ (ServerFailed => ServerFailed')
  <2>1. CASE status' = status
    BY <2>1 DEF TaskTypes, ServerFailed, Reported, Sv1ServerShutdown
  <2>2. CASE Report(DownstreamShutdown(m))
    BY <1>0, <2>2, ReportKeeps DEF TaskTypes
  <2> QED
    BY <1>2, <2>1, <2>2
<1>4. PICK s \in TaskState, u \in {"none", "message", "lag"} :
        /\ task' = [task EXCEPT ![r] = s] \/ task' = task
        /\ unread' = [unread EXCEPT ![r] = u] \/ unread' = unread
  <2>1. CASE SessionMessage(m)
    BY <2>1 DEF SessionMessage, Becomes, TaskState
  <2>2. CASE SessionFails(m)
    BY <2>2 DEF SessionFails, Ends, Becomes, TaskState
  <2>3. CASE SessionNotice(m)
    BY <2>3 DEF SessionNotice, Ends, Quits, Passed, Becomes,
                TaskState
  <2>4. CASE ServerAccept(m)
    BY <2>4 DEF ServerAccept, Becomes, TaskState
  <2> QED
    BY <2>1, <2>2, <2>3, <2>4
<1> HIDE DEF r
<1>5. /\ TaskTypes'
      /\ \A q \in Component : task'[q] = task[q] /\ unread'[q] = unread[q]
  BY <1>0, <1>3, <1>4, OneTask
<1> QED
  BY <1>1, <1>3, <1>5, Elsewhere

LEMMA ManagerSteps ==
  ASSUME TaskTypes, CleanFallback,
         CmDownstreamMessage \/ CmUpstreamFrame \/ CmNotice
  PROVE  TaskTypes' /\ CleanFallback'
<1> DEFINE r == CM
<1>0. r \in Task /\ r \notin Component /\ Component \subseteq Task
  BY TaskNames
<1>1. main' = main /\ notice' = notice /\ downstreams' = downstreams
  BY DEF CmDownstreamMessage, CmUpstreamFrame, CmNotice, mainVars
<1>2. \/ status' = status \/ Report(ChannelManagerShutdown)
      \/ Report(UpstreamShutdown)
  BY DEF CmDownstreamMessage, CmUpstreamFrame, CmNotice
<1>3. status' \in Seq(Status) /\ (ServerFailed => ServerFailed')
  <2>1. CASE status' = status
    BY <2>1 DEF TaskTypes, ServerFailed, Reported, Sv1ServerShutdown
  <2>2. CASE status' # status
    BY <1>2, <2>2, StatusNames, ReportKeeps DEF TaskTypes
  <2> QED
    BY <2>1, <2>2
<1>4. PICK s \in TaskState, u \in {"none", "message", "lag"} :
        /\ task' = [task EXCEPT ![r] = s] \/ task' = task
        /\ unread' = [unread EXCEPT ![r] = u] \/ unread' = unread
  <2>1. CASE CmDownstreamMessage
    BY <2>1 DEF CmDownstreamMessage, TaskState
  <2>2. CASE CmUpstreamFrame
    BY <2>2 DEF CmUpstreamFrame, Ends, Becomes, TaskState
  <2>3. CASE CmNotice
    BY <2>3 DEF CmNotice, Ends, Passed, Becomes, TaskState
  <2> QED
    BY <2>1, <2>2, <2>3
<1> HIDE DEF r
<1>5. /\ TaskTypes'
      /\ \A q \in Component : task'[q] = task[q] /\ unread'[q] = unread[q]
  BY <1>0, <1>3, <1>4, OneTask
<1> QED
  BY <1>1, <1>3, <1>5, Elsewhere

\* The upstream task ends, or passes on a message that is not the fallback.
LEMMA UpstreamEnds ==
  ASSUME TaskTypes, CleanFallback, UpstreamClosed \/ UpstreamNotice
  PROVE  TaskTypes' /\ CleanFallback'
<1> DEFINE r == UpstreamTask
<1>0. /\ r \in Task /\ r \in Component /\ Component \subseteq Task
      /\ r # Server /\ Server \in Task /\ Component = {r, Server}
  BY TaskNames DEF Component
<1>1. /\ main' = main /\ notice' = notice /\ downstreams' = downstreams
      /\ Live(r)
  BY DEF UpstreamClosed, UpstreamNotice, Lags, Hears, mainVars
<1>2. status' = status \/ Report(UpstreamShutdown)
  BY DEF UpstreamClosed, UpstreamNotice
<1>3. status' \in Seq(Status) /\ (ServerFailed => ServerFailed')
  <2>1. CASE status' = status
    BY <2>1 DEF TaskTypes, ServerFailed, Reported, Sv1ServerShutdown
  <2>2. CASE status' # status
    BY <1>2, <2>2, StatusNames, ReportKeeps DEF TaskTypes
  <2> QED
    BY <2>1, <2>2
<1>4. PICK s \in TaskState :
        /\ task' = [task EXCEPT ![r] = s] \/ task' = task
        /\ unread' = [unread EXCEPT ![r] = "none"]
        /\ \/ task'[r] \in {"ended", "lagged"}
           \/ /\ task' = task
              /\ notice \in {DownstreamShutdown(m) : m \in Miner}
  <2>1. CASE UpstreamClosed
    BY <1>0, <2>1 DEF UpstreamClosed, Ends, Becomes, TaskState, TaskTypes
  <2>2. CASE Lags(r) /\ Quits(r)
    BY <1>0, <2>2 DEF Quits, Becomes, TaskState, TaskTypes
  <2>3. CASE Ends(r)
    BY <1>0, <2>3 DEF Ends, Becomes, TaskState, TaskTypes
  <2>4. CASE /\ Hears(r, {DownstreamShutdown(m) : m \in Miner})
             /\ Passed(r) /\ UNCHANGED task
    BY <1>0, <2>4 DEF Hears, Passed, TaskState, TaskTypes
  <2> QED
    BY <2>1, <2>2, <2>3, <2>4 DEF UpstreamNotice
<1> HIDE DEF r
<1>5. /\ TaskTypes' /\ unread'[r] = "none"
      /\ task'[Server] = task[Server] /\ unread'[Server] = unread[Server]
  BY <1>0, <1>3, <1>4, OneTask DEF TaskTypes
<1>6. Live(Server)' = Live(Server)
  BY <1>5 DEF Live
<1>7. main = "acknowledging" => ~Live(r)'
  <2>1. CASE task'[r] \in {"ended", "lagged"}
    BY <2>1 DEF Live
  <2>2. CASE notice \in {DownstreamShutdown(m) : m \in Miner}
    BY <2>2, StatusNames DEF CleanFallback, FallbackIsHeard
  <2> QED
    BY <1>4, <2>1, <2>2
<1>8. EndedIsDeaf'
  BY <1>0, <1>5, <1>6 DEF CleanFallback, EndedIsDeaf
<1>9. FallbackIsHeard'
  BY <1>0, <1>1, <1>3, <1>5, <1>6, <1>7 DEF CleanFallback, FallbackIsHeard
<1>10. ServerServes'
  BY <1>1, <1>3, <1>5, <1>6 DEF CleanFallback, ServerServes
<1>11. FallbackLeavesNothing'
  BY <1>1, <1>3, <1>6 DEF CleanFallback, FallbackLeavesNothing, ServerFailed, r
<1> QED
  BY <1>5, <1>8, <1>9, <1>10, <1>11 DEF CleanFallback
LEMMA UpstreamSteps ==
  ASSUME TaskTypes, CleanFallback,
         \/ ReaderEnds \/ UpstreamSends \/ UpstreamMisbehaves
         \/ \E u \in Upstream : WriterWrote(u) \/ WriterFails(u)
         \/ \E m \in Miner : UpstreamAnswers(m)
  PROVE  TaskTypes' /\ CleanFallback'
<1>1. /\ main' = main /\ notice' = notice /\ downstreams' = downstreams
      /\ task' = task /\ unread' = unread
      /\ status' = status \/ Report(UpstreamShutdown)
  BY DEF ReaderEnds, WriterWrote, WriterFails, UpstreamSends, UpstreamMisbehaves,
         UpstreamAnswers, mainVars
<1>2. status' \in Seq(Status) /\ (ServerFailed => ServerFailed')
  <2>1. CASE status' = status
    BY <2>1 DEF TaskTypes, ServerFailed, Reported, Sv1ServerShutdown
  <2>2. CASE status' # status
    BY <1>1, <2>2, StatusNames, ReportKeeps DEF TaskTypes
  <2> QED
    BY <2>1, <2>2
<1> QED
  BY <1>1, <1>2, Elsewhere DEF TaskTypes

-----------------------------------------------------------------------------
(* The SV1 server.                                                          *)

LEMMA ServerMessages ==
  ASSUME TaskTypes, CleanFallback, ServerOpenRequest \/ ServerOpened
  PROVE  TaskTypes' /\ CleanFallback'
<1>1. /\ main' = main /\ notice' = notice /\ downstreams' = downstreams
      /\ unread' = unread /\ status' = status
  BY DEF ServerOpenRequest, ServerOpened, mainVars
<1>2. /\ task' \in [Task -> TaskState]
      /\ \A r \in Component : task'[r] = task[r]
  <2>1. CASE ServerOpenRequest
    BY <2>1 DEF ServerOpenRequest, TaskTypes
  <2>2. CASE ServerOpened
    <3> DEFINE m == Head(to_server)
    <3>1. task' = task \/ task' = [task EXCEPT ![Session(m)] = "mining"]
      BY <2>2 DEF ServerOpened
    <3>2. Session(m) \notin Component
      BY DEF Session, Component, UpstreamTask, Server
    <3> HIDE DEF m
    <3> QED
      BY <3>1, <3>2, TaskNames DEF TaskTypes, TaskState
  <2> QED
    BY <2>1, <2>2
<1>3. ServerFailed => ServerFailed'
  BY <1>1 DEF ServerFailed, Reported, Sv1ServerShutdown
<1> QED
  BY <1>1, <1>2, <1>3, Elsewhere DEF TaskTypes

\* The server ends when it was told of the fallback, and then knows no miner, or
\* reports that it has failed.
LEMMA ServerEnds ==
  ASSUME TaskTypes, CleanFallback, ServerNotice \/ ServerClosed
  PROVE  TaskTypes' /\ CleanFallback'
<1> DEFINE r == Server
<1>0. /\ r \in Task /\ r \in Component /\ Component \subseteq Task
      /\ r # UpstreamTask /\ Component = {r, UpstreamTask}
  BY TaskNames DEF Component
<1>1. main' = main /\ notice' = notice /\ Live(r)
  BY DEF ServerNotice, ServerClosed, Lags, Hears, mainVars
<1>2. main \notin {"connecting", "binding"}
  BY <1>1 DEF CleanFallback, FallbackLeavesNothing
<1>3. status' = status \/ Report(Sv1ServerShutdown)
  BY DEF ServerNotice, ServerClosed
<1>4. /\ status' \in Seq(Status) /\ (ServerFailed => ServerFailed')
      /\ status' # status => ServerFailed'
  <2>1. CASE status' = status
    BY <2>1 DEF TaskTypes, ServerFailed, Reported, Sv1ServerShutdown
  <2>2. CASE status' # status
    BY <1>3, <2>2, StatusNames, ReportKeeps DEF TaskTypes
  <2> QED
    BY <2>1, <2>2
\* What the server may do, and that it heard the message it acts upon.
<1>5. PICK s \in TaskState, u \in {"none", "message", "lag"} :
        /\ task' = [task EXCEPT ![r] = s] \/ task' = task
        /\ unread' = [unread EXCEPT ![r] = u]
        /\ \/ task' = task /\ u = "message" /\ unread[r] # "none"
           \/ /\ task' = task /\ u = "none"
              /\ notice \notin {ShutdownAll, UpstreamFallback}
           \/ /\ task'[r] = "closed" /\ u = "none"
              /\ notice = ShutdownAll /\ unread[r] # "none"
           \/ /\ task'[r] = "ended" /\ u = "none" /\ downstreams' = {}
              /\ notice = UpstreamFallback /\ unread[r] # "none"
           \/ task'[r] = "closed" /\ u = "none" /\ ServerFailed'
  <2>1. CASE Lags(r) /\ Passed(r) /\ UNCHANGED <<task, downstreams, to_cm>>
    BY <1>0, <2>1 DEF Lags, Passed, TaskState, TaskTypes
  <2>2. CASE Hears(r, {ShutdownAll}) /\ Closes(r)
    BY <1>0, <2>2 DEF Hears, Closes, Becomes, TaskState, TaskTypes
  <2>3. CASE \E m \in Miner :
               /\ Hears(r, {DownstreamShutdown(m)}) /\ Passed(r) /\ UNCHANGED task
    <3>1. notice \notin {ShutdownAll, UpstreamFallback}
      BY <2>3, StatusNames DEF Hears
    <3> QED
      BY <1>0, <2>3, <3>1 DEF Hears, Passed, TaskState, TaskTypes
  <2>4. CASE Hears(r, {UpstreamFallback}) /\ Ends(r) /\ downstreams' = {}
    BY <1>0, <2>4 DEF Hears, Ends, Becomes, TaskState, TaskTypes
  <2>5. CASE ServerClosed
    <3>1. ServerFailed'
      BY <2>5, StatusNames, ReportKeeps DEF ServerClosed, TaskTypes
    <3> QED
      BY <1>0, <2>5, <3>1
         DEF ServerClosed, Closes, Becomes, TaskState, TaskTypes
  <2> QED
    BY <2>1, <2>2, <2>3, <2>4, <2>5 DEF ServerNotice
<1> HIDE DEF r
<1>6. /\ TaskTypes' /\ unread'[r] = u
      /\ task'[UpstreamTask] = task[UpstreamTask]
      /\ unread'[UpstreamTask] = unread[UpstreamTask]
  BY <1>0, <1>4, <1>5, OneTask DEF TaskTypes
<1>7. /\ Live(UpstreamTask)' = Live(UpstreamTask)
      /\ task' = task => Live(r)'
      /\ task'[r] \in {"ended", "closed"} => ~Live(r)'
      /\ ShutdownAll # UpstreamFallback
  BY <1>1, <1>6, StatusNames DEF Live
<1>8. EndedIsDeaf'
  <2>1. ~Live(r)' => u = "none"
    BY <1>5, <1>7
  <2> QED
    BY <1>0, <1>6, <1>7, <2>1 DEF CleanFallback, EndedIsDeaf
<1>9. FallbackIsHeard'
  <2> SUFFICES ASSUME main' = "acknowledging" PROVE FallbackIsHeard'
    BY DEF FallbackIsHeard
  <2>1. /\ notice = UpstreamFallback /\ unread[r] # "none"
        /\ Live(UpstreamTask) => unread[UpstreamTask] # "none"
    BY <1>0, <1>1 DEF CleanFallback, FallbackIsHeard
  <2>2. \/ task' = task /\ u = "message"
        \/ ~Live(r)' /\ (downstreams' = {} \/ ServerFailed')
    BY <1>5, <1>7, <2>1
  <2> QED
    BY <1>0, <1>1, <1>6, <1>7, <2>1, <2>2 DEF FallbackIsHeard, r
<1>10. ServerServes'
  <2> SUFFICES ASSUME main' = "loop" PROVE ServerServes'
    BY DEF ServerServes
  <2>1. notice \in {ShutdownAll, UpstreamFallback} => unread[r] = "none"
    BY <1>1 DEF CleanFallback, ServerServes, r
  <2>2. task' = task \/ ServerFailed'
    BY <1>5, <2>1
  <2>3. notice \in {ShutdownAll, UpstreamFallback} => u = "none"
    BY <1>5, <2>1
  <2> QED
    BY <1>1, <1>6, <1>7, <2>2, <2>3 DEF ServerServes, r
<1>11. FallbackLeavesNothing'
  BY <1>1, <1>2 DEF FallbackLeavesNothing
<1> QED
  BY <1>6, <1>8, <1>9, <1>10, <1>11 DEF CleanFallback

-----------------------------------------------------------------------------
(* TranslatorSv2::start.                                                    *)

\* A broadcast reaches what is alive.
LEMMA Broadcasts ==
  ASSUME TaskTypes, NEW n, Broadcast(n)
  PROVE  /\ unread' \in [Task -> {"none", "message", "lag"}]
         /\ \A r \in Task : unread'[r] = "none" <=> ~Live(r)
BY DEF TaskTypes, Broadcast

LEMMA StatusSteps ==
  ASSUME TaskTypes, CleanFallback, HandleStatus
  PROVE  TaskTypes' /\ CleanFallback'
<1>0. /\ Component \subseteq Task
      /\ Server \in Component /\ UpstreamTask \in Component
  BY TaskNames
<1>1. /\ main = "loop" /\ status # <<>> /\ status' = Tail(status)
      /\ task' = task /\ downstreams' = downstreams
  BY DEF HandleStatus
<1>2. \A r \in Component : Live(r)' = Live(r)
  BY <1>1 DEF Live
<1>3. PICK n : Broadcast(n)
  BY DEF HandleStatus, Leaves
<1>4. /\ TaskTypes'
      /\ \A r \in Component : unread'[r] = "none" <=> ~Live(r)
      /\ Head(status) # Sv1ServerShutdown => (ServerFailed => ServerFailed')
  BY <1>0, <1>1, <1>3, Broadcasts, ReadKeeps DEF TaskTypes
<1>5. EndedIsDeaf'
  BY <1>2, <1>4 DEF EndedIsDeaf
<1>6. CASE \E m \in Miner : Head(status) = DownstreamShutdown(m)
  <2>1. /\ main' = main /\ notice' = Head(status)
        /\ Head(status) # Sv1ServerShutdown
        /\ notice' \notin {ShutdownAll, UpstreamFallback}
    <3>1. Head(status) \notin {UpstreamShutdown, ChannelManagerShutdown,
                               Sv1ServerShutdown}
      BY <1>6 DEF DownstreamShutdown, UpstreamShutdown,
                  ChannelManagerShutdown, Sv1ServerShutdown
    <3>2. main' = main /\ Broadcast(Head(status))
      BY <3>1 DEF HandleStatus
    <3> QED
      BY <1>6, <3>1, <3>2, StatusNames DEF Broadcast
  <2> QED
    BY <1>0, <1>1, <1>2, <1>4, <1>5, <2>1
       DEF CleanFallback, FallbackIsHeard, ServerServes, FallbackLeavesNothing
<1>7. CASE Head(status) = UpstreamShutdown
  <2>1. /\ main' = "acknowledging" /\ notice' = UpstreamFallback
        /\ Head(status) # Sv1ServerShutdown
    BY <1>7 DEF HandleStatus, Broadcast, DownstreamShutdown,
                UpstreamShutdown, ChannelManagerShutdown, Sv1ServerShutdown
  <2> QED
    BY <1>0, <1>1, <1>2, <1>4, <1>5, <2>1
       DEF CleanFallback, FallbackIsHeard, ServerServes, FallbackLeavesNothing
<1>8. CASE Head(status) \in {ChannelManagerShutdown, Sv1ServerShutdown}
  <2>1. main' = "joining"
    BY <1>8 DEF HandleStatus, Leaves, DownstreamShutdown,
                UpstreamShutdown, ChannelManagerShutdown, Sv1ServerShutdown
  <2> QED
    BY <1>4, <1>5, <2>1
       DEF CleanFallback, FallbackIsHeard, ServerServes, FallbackLeavesNothing
<1> QED
  BY <1>6, <1>7, <1>8 DEF HandleStatus

LEMMA MainSteps ==
  ASSUME TaskTypes, CleanFallback,
         \/ Acknowledged \/ ConnectFails \/ ConnectSucceeds \/ ServerStarts
         \/ ConnectGivesUp \/ CtrlC \/ Completed \/ ShutdownTimeout \/ Joined
  PROVE  TaskTypes' /\ CleanFallback'
<1>0. /\ Component \subseteq Task /\ Server # UpstreamTask
      /\ Server \in Component /\ UpstreamTask \in Component
      /\ CM \in Task /\ CM \notin Component
  BY TaskNames
<1>1. status' = status /\ downstreams' = downstreams
  BY DEF Acknowledged, ConnectFails, ConnectSucceeds, ServerStarts, ConnectGivesUp,
         CtrlC, Completed, ShutdownTimeout, Joined
<1>2. ServerFailed' = ServerFailed
  BY <1>1 DEF ServerFailed, Reported, Sv1ServerShutdown
<1>3. CASE Acknowledged
  <2>1. /\ main = "acknowledging" /\ main' = "connecting" /\ task' = task /\ unread' = unread
        /\ \A r \in Component : Live(r) => unread[r] = "none"
    BY <1>0, <1>3 DEF Acknowledged
  <2>2. \A r \in Component : Live(r)' = Live(r)
    BY <2>1 DEF Live
  <2>3. \A r \in Component : ~Live(r)
    BY <2>1 DEF CleanFallback, FallbackIsHeard
  <2>4. downstreams = {} \/ ServerFailed
    BY <1>0, <2>1, <2>3 DEF CleanFallback, FallbackIsHeard
  <2>5. TaskTypes'
    BY <1>1, <2>1 DEF TaskTypes
  <2>6. EndedIsDeaf'
    BY <2>1, <2>2 DEF CleanFallback, EndedIsDeaf
  <2>7. FallbackLeavesNothing'
    BY <1>0, <1>1, <1>2, <2>2, <2>3, <2>4 DEF FallbackLeavesNothing, ServerFailed
  <2> QED
    BY <2>1, <2>5, <2>6, <2>7 DEF CleanFallback, FallbackIsHeard, ServerServes
<1>4. CASE ConnectFails
  <2>1. /\ main' = main /\ task' = task /\ unread' = unread /\ notice' = notice
    BY <1>4 DEF ConnectFails
  <2> QED
    BY <1>1, <1>2, <2>1, Elsewhere DEF TaskTypes
<1>5. CASE ConnectSucceeds
  <2>1. /\ main = "connecting" /\ main' = "binding" /\ unread' = unread
        /\ task' = [task EXCEPT ![UpstreamTask] = "running"]
    BY <1>5 DEF ConnectSucceeds, Becomes
  <2>2. TaskTypes' /\ task'[UpstreamTask] = "running" /\ task'[Server] = task[Server]
    BY <1>0, <1>1, <2>1 DEF TaskTypes, TaskState
  <2>3. Live(UpstreamTask)' /\ Live(Server)' = Live(Server)
    BY <2>2 DEF Live
  <2>4. EndedIsDeaf'
    BY <2>1, <2>3 DEF CleanFallback, EndedIsDeaf, Component
  <2>5. FallbackLeavesNothing'
    BY <1>1, <1>2, <2>1, <2>3 DEF CleanFallback, FallbackLeavesNothing, ServerFailed
  <2> QED
    BY <2>1, <2>2, <2>4, <2>5 DEF CleanFallback, FallbackIsHeard, ServerServes
<1>9. CASE ServerStarts
  <2>1. /\ main = "binding" /\ main' = "loop" /\ unread' = unread
    BY <1>9 DEF ServerStarts
  <2>2. /\ TaskTypes' /\ task'[Server] = "running"
        /\ task'[UpstreamTask] = task[UpstreamTask]
    BY <1>0, <1>1, <1>9, <2>1 DEF ServerStarts, TaskTypes, TaskState
  <2>3. Live(Server)' /\ Live(UpstreamTask)' = Live(UpstreamTask)
    BY <2>2 DEF Live
  <2>4. unread[Server] = "none"
    BY <1>0, <2>1 DEF CleanFallback, EndedIsDeaf, FallbackLeavesNothing
  <2>5. EndedIsDeaf'
    BY <2>1, <2>3 DEF CleanFallback, EndedIsDeaf, Component
  <2> QED
    BY <2>1, <2>2, <2>3, <2>4, <2>5
       DEF CleanFallback, FallbackIsHeard, ServerServes, FallbackLeavesNothing
<1>6. CASE ConnectGivesUp \/ CtrlC
  <2>1. /\ main' \in {"stopped", "joining"} /\ task' = task
        /\ unread' = unread \/ Broadcast(ShutdownAll)
    BY <1>6 DEF ConnectGivesUp, CtrlC, Leaves
  <2>2. TaskTypes' /\ \A r \in Component : ~Live(r) => unread'[r] = "none"
    <3>1. CASE unread' = unread
      BY <1>1, <2>1, <3>1 DEF TaskTypes, CleanFallback, EndedIsDeaf
    <3>2. CASE Broadcast(ShutdownAll)
      BY <1>0, <1>1, <2>1, <3>2, Broadcasts DEF TaskTypes
    <3> QED
      BY <2>1, <3>1, <3>2
  <2>3. EndedIsDeaf'
    BY <2>1, <2>2 DEF EndedIsDeaf, Live
  <2> QED
    BY <2>1, <2>2, <2>3
       DEF CleanFallback, FallbackIsHeard, ServerServes, FallbackLeavesNothing
<1>7. CASE Completed \/ Joined
  <2>1. main' \in {"joining_all", "stopped"} /\ task' = task /\ unread' = unread
    BY <1>7 DEF Completed, Joined
  <2>2. TaskTypes' /\ EndedIsDeaf'
    BY <1>1, <2>1 DEF TaskTypes, CleanFallback, EndedIsDeaf, Live
  <2> QED
    BY <2>1, <2>2 DEF CleanFallback, FallbackIsHeard, ServerServes, FallbackLeavesNothing
<1>8. CASE ShutdownTimeout
  <2>1. main' = "joining_all" /\ unread' = [r \in Task |-> "none"]
    BY <1>8 DEF ShutdownTimeout
  <2>2. task' \in [Task -> TaskState]
    BY <1>8 DEF ShutdownTimeout, TaskTypes, TaskState
  <2>3. TaskTypes' /\ EndedIsDeaf'
    BY <1>0, <1>1, <2>1, <2>2 DEF TaskTypes, EndedIsDeaf
  <2> QED
    BY <2>1, <2>3 DEF CleanFallback, FallbackIsHeard, ServerServes, FallbackLeavesNothing
<1> QED
  BY <1>3, <1>4, <1>5, <1>6, <1>7, <1>8, <1>9

-----------------------------------------------------------------------------
LEMMA InitTasks == TasksInit => TaskTypes /\ CleanFallback
<1> SUFFICES ASSUME TasksInit PROVE TaskTypes /\ CleanFallback
  OBVIOUS
<1>1. TaskTypes
  BY DEF TasksInit, TaskTypes, TaskState
<1>2. \A r \in Component : ~Live(r) /\ unread[r] = "none"
  BY TaskNames DEF TasksInit, Live
<1> QED
  BY <1>1, <1>2, TaskNames
     DEF TasksInit, CleanFallback, EndedIsDeaf, FallbackIsHeard, ServerServes,
         FallbackLeavesNothing

LEMMA NextTasks ==
  TaskTypes /\ CleanFallback /\ [TasksNext]_tasksVars => TaskTypes' /\ CleanFallback'
<1> SUFFICES ASSUME TaskTypes, CleanFallback, [TasksNext]_tasksVars
             PROVE  TaskTypes' /\ CleanFallback'
  OBVIOUS
<1>1. ASSUME NEW m \in Miner,
             \/ SessionMessage(m) \/ SessionFails(m) \/ SessionNotice(m)
             \/ ServerAccept(m)
      PROVE  TaskTypes' /\ CleanFallback'
  BY <1>1, SessionSteps
<1>2. CASE ServerOpenRequest \/ ServerOpened
  BY <1>2, ServerMessages
<1>3. CASE ServerNotice \/ ServerClosed
  BY <1>3, ServerEnds
<1>4. CASE CmDownstreamMessage \/ CmUpstreamFrame \/ CmNotice
  BY <1>4, ManagerSteps
<1>5. CASE UpstreamClosed \/ UpstreamNotice
  BY <1>5, UpstreamEnds
<1>6. CASE \/ ReaderEnds \/ UpstreamSends \/ UpstreamMisbehaves
           \/ \E u \in Upstream : WriterWrote(u) \/ WriterFails(u)
           \/ \E m \in Miner : UpstreamAnswers(m)
  BY <1>6, UpstreamSteps
<1>7. CASE HandleStatus
  BY <1>7, StatusSteps
<1>8. CASE \/ Acknowledged \/ ConnectFails \/ ConnectSucceeds \/ ServerStarts
           \/ ConnectGivesUp \/ CtrlC \/ Completed \/ ShutdownTimeout \/ Joined
  BY <1>8, MainSteps
<1>9. CASE UNCHANGED tasksVars
  <2>1. /\ main' = main /\ notice' = notice /\ downstreams' = downstreams
        /\ task' = task /\ unread' = unread /\ status' = status
    BY <1>9 DEF tasksVars, mainVars
  <2>2. ServerFailed => ServerFailed'
    BY <2>1 DEF ServerFailed, Reported, Sv1ServerShutdown
  <2> QED
    BY <2>1, <2>2, Elsewhere DEF TaskTypes
<1> QED
  BY <1>1, <1>2, <1>3, <1>4, <1>5, <1>6, <1>7, <1>8, <1>9 DEF TasksNext

\* When every receiver has let go of the fallback, the upstream task and the SV1
\* server of the old upstream have ended, and the server has forgotten all miners or
\* reported its failure.
THEOREM FallbackIsClean == TasksSpec => []FallbackLeavesNothing
<1>1. CleanFallback => FallbackLeavesNothing
  BY DEF CleanFallback
<1> QED
  BY <1>1, InitTasks, NextTasks, PTL DEF TasksSpec

-----------------------------------------------------------------------------
(* The types of the tasks, and which upstream they turn to.                 *)

PlainTypes ==
  /\ main \in {"connecting", "binding", "loop", "acknowledging", "joining", "joining_all",
               "stopped"}
  /\ cause \in {None, "component", "no_upstream", "no_listener", "ctrl_c"}
  /\ tried \subseteq Upstream /\ failed \subseteq Upstream /\ current \in {None} \cup Upstream
  /\ link \in BOOLEAN /\ inputs \in 0..MaxInputs /\ asked \subseteq Miner
  /\ held \subseteq Upstream
  /\ downstreams \subseteq Miner /\ pending \subseteq Miner
  /\ channels \subseteq Miner \X Upstream

QueueTypes ==
  /\ asks \in Seq(Miner) /\ to_server \in Seq(Miner)
  /\ to_cm \in Seq(Request) /\ to_upstream \in Seq(Request)
  /\ from_upstream \in Seq(Answer)
  /\ outbound \in [Upstream -> Seq(Frame)]

\* Whoever reads from the upstream, or could lose it, has one.
InUse == link \/ Live(UpstreamTask) => current \in Upstream

\* The upstreams that have failed, are written to or are in use. They are flagged as
\* tried, except that the one connected last is flagged when its SV1 server starts.
Met == {u \in Upstream : u \in failed \/ Writing(u) \/ (u = current /\ (link \/ Live(UpstreamTask)))}

Flagged ==
  /\ Met \subseteq tried \cup {current}
  /\ main \in {"connecting", "loop", "acknowledging"} => Met \subseteq tried
  /\ main = "binding" => current \in Upstream

\* Only a connection gives life to the upstream task.
LEMMA UpstreamLives ==
  ASSUME TaskTypes, TasksNext, Live(UpstreamTask)'
  PROVE  Live(UpstreamTask) \/ ConnectSucceeds
<1>0. /\ UpstreamTask \in Task /\ CM \in Task /\ Server \in Task
      /\ UpstreamTask # Server /\ UpstreamTask # CM
      /\ \A m : Session(m) # UpstreamTask
  BY DEF Task, CM, Server, UpstreamTask, Session
<1> SUFFICES ASSUME ~Live(UpstreamTask), ~ConnectSucceeds, task'[UpstreamTask] # task[UpstreamTask]
             PROVE  FALSE
  BY DEF Live
<1>1. ASSUME NEW m \in Miner,
             \/ SessionMessage(m) \/ SessionFails(m) \/ SessionNotice(m) \/ ServerAccept(m)
             \/ UpstreamAnswers(m)
      PROVE  FALSE
  BY <1>0, <1>1
     DEF SessionMessage, SessionFails, SessionNotice, ServerAccept, UpstreamAnswers, Becomes, Ends,
         Quits, TaskTypes
<1>2. CASE ServerOpenRequest \/ ServerOpened \/ ServerNotice \/ ServerClosed
  <2>1. \A state : [task EXCEPT ![Server] = state][UpstreamTask] = task[UpstreamTask]
    BY <1>0 DEF TaskTypes
  <2>3. CASE ServerOpenRequest
    BY <2>3 DEF ServerOpenRequest
  <2>4. CASE ServerOpened
    <3>1. \/ task' = task
          \/ \E m : task' = [task EXCEPT ![Session(m)] = "mining"]
      BY <2>4 DEF ServerOpened
    <3>2. \A m : [task EXCEPT ![Session(m)] = "mining"][UpstreamTask] = task[UpstreamTask]
      BY <1>0 DEF TaskTypes
    <3> QED
      BY <3>1, <3>2
  <2>5. CASE ServerNotice
    <3>1. task' = task \/ \E state : task' = [task EXCEPT ![Server] = state]
      BY <2>5 DEF ServerNotice, Ends, Closes, Becomes
    <3> QED
      BY <3>1, <2>1
  <2>6. CASE ServerClosed
    BY <2>6, <2>1 DEF ServerClosed, Closes, Becomes
  <2> QED
    BY <1>2, <2>3, <2>4, <2>5, <2>6
<1>3. CASE CmDownstreamMessage \/ CmUpstreamFrame \/ CmNotice
  BY <1>0, <1>3 DEF CmDownstreamMessage, CmUpstreamFrame, CmNotice, Becomes, Ends, TaskTypes
<1>4. CASE \/ ReaderEnds \/ (\E u \in Upstream : WriterWrote(u) \/ WriterFails(u))
           \/ UpstreamSends \/ UpstreamMisbehaves \/ UpstreamClosed \/ UpstreamNotice
  BY <1>4
     DEF ReaderEnds, WriterWrote, WriterFails, UpstreamSends, UpstreamMisbehaves, UpstreamClosed,
         UpstreamNotice, Lags, Hears
<1>5. CASE \/ HandleStatus \/ Acknowledged \/ ConnectFails \/ ConnectGivesUp \/ CtrlC
           \/ Completed \/ Joined
  BY <1>5 DEF HandleStatus, Acknowledged, ConnectFails, ConnectGivesUp, CtrlC, Completed, Joined
<1>6. CASE ShutdownTimeout \/ ServerStarts
  BY <1>0, <1>6 DEF ShutdownTimeout, ServerStarts, TaskTypes
<1> QED
  BY <1>1, <1>2, <1>3, <1>4, <1>5, <1>6 DEF TasksNext

\* The next upstream is one that is listed and not flagged.
LEMMA CandidateIsNew ==
  ASSUME tried # Upstream, tried \subseteq Upstream
  PROVE  Candidate \in Upstream \ tried
<1>1. Upstream \ tried \in SUBSET Nat /\ Upstream \ tried # {}
  <2>1. Upstream \subseteq Nat
    BY UpstreamsAssumption DEF Upstream
  <2> QED
    BY <2>1
<1> DEFINE left == Upstream \ tried
<1>2. \E u \in left : \A v \in left : u <= v
  <2> HIDE DEF left
  <2> QED
    BY <1>1, LeastNumber DEF left
<1> QED
  BY <1>2 DEF Candidate

\* What a queue holds stays of its kind when one end is appended to or the other taken.
LEMMA QueueEnds ==
  ASSUME NEW S, NEW q \in Seq(S)
  PROVE  /\ \A x \in S : Append(q, x) \in Seq(S)
         /\ q # <<>> => Head(q) \in S /\ Tail(q) \in Seq(S)
<1>1. q # <<>> => Head(q) \in S
  OBVIOUS
<1>2. q # <<>> => Tail(q) \in Seq(S)
  OBVIOUS
<1>3. \A x \in S : Append(q, x) \in Seq(S)
  OBVIOUS
<1> QED
  BY <1>1, <1>2, <1>3

LEMMA QueueSteps ==
  ASSUME PlainTypes, QueueTypes, InUse, TasksNext
  PROVE  QueueTypes'
<1>1. /\ asks \in Seq(Miner) /\ to_server \in Seq(Miner)
      /\ to_cm \in Seq(Request) /\ to_upstream \in Seq(Request)
      /\ from_upstream \in Seq(Answer) /\ outbound \in [Upstream -> Seq(Frame)]
  BY DEF QueueTypes
<1>2. ASSUME UNCHANGED <<queues, outbound>> PROVE QueueTypes'
  BY <1>1, <1>2 DEF queues, QueueTypes
<1>3. ASSUME NEW m \in Miner,
             \/ SessionMessage(m) \/ SessionFails(m) \/ SessionNotice(m) \/ ServerAccept(m)
      PROVE  QueueTypes'
  <2>1. CASE SessionMessage(m)
    <3>1. /\ asks' = Append(asks, m) /\ to_server' = to_server /\ to_cm' = to_cm
          /\ to_upstream' = to_upstream /\ from_upstream' = from_upstream
          /\ outbound' = outbound
      BY <2>1 DEF SessionMessage, linkVars
    <3>2. asks' \in Seq(Miner)
      BY <1>1, <3>1, QueueEnds
    <3> QED
      BY <1>1, <3>1, <3>2 DEF QueueTypes
  <2> QED
    BY <1>2, <1>3, <2>1 DEF SessionFails, SessionNotice, ServerAccept, linkVars
<1>4. ASSUME NEW m \in Miner, UpstreamAnswers(m) PROVE QueueTypes'
  <2>1. \A kind \in {"success", "error"} : <<kind, m, current>> \in Answer
    BY <1>4 DEF UpstreamAnswers, InUse, PlainTypes, Answer
  <2>2. \E kind \in {"success", "error"} :
           from_upstream' = Append(from_upstream, <<kind, m, current>>)
    BY <1>4 DEF UpstreamAnswers
  <2>3. from_upstream' \in Seq(Answer)
    BY <1>1, <2>1, <2>2, QueueEnds
  <2>4. /\ asks' = asks /\ to_server' = to_server /\ to_cm' = to_cm
        /\ to_upstream' = to_upstream /\ outbound' = outbound
    BY <1>4 DEF UpstreamAnswers
  <2> QED
    BY <1>1, <2>3, <2>4 DEF QueueTypes
<1>5. CASE ServerOpenRequest
  <2>1. /\ asks # <<>> /\ asks' = Tail(asks)
        /\ to_cm' = to_cm \/ to_cm' = Append(to_cm, <<"open", Head(asks)>>)
        /\ to_server' = to_server /\ to_upstream' = to_upstream
        /\ from_upstream' = from_upstream /\ outbound' = outbound
    BY <1>5 DEF ServerOpenRequest, linkVars
  <2>2. Head(asks) \in Miner /\ asks' \in Seq(Miner)
    BY <1>1, <2>1, QueueEnds
  <2>3. <<"open", Head(asks)>> \in Request
    BY <2>2 DEF Request
  <2>4. to_cm' \in Seq(Request)
    BY <1>1, <2>1, <2>3, QueueEnds
  <2> QED
    BY <1>1, <2>1, <2>2, <2>4 DEF QueueTypes
<1>6. CASE ServerOpened
  <2>1. /\ to_server # <<>> /\ to_server' = Tail(to_server) /\ asks' = asks
        /\ to_cm' = to_cm /\ to_upstream' = to_upstream /\ from_upstream' = from_upstream
        /\ outbound' = outbound
    BY <1>6 DEF ServerOpened, linkVars
  <2>2. to_server' \in Seq(Miner)
    BY <1>1, <2>1, QueueEnds
  <2> QED
    BY <1>1, <2>1, <2>2 DEF QueueTypes
<1>7. CASE ServerNotice
  <2>1. /\ asks' = asks /\ to_server' = to_server /\ to_upstream' = to_upstream
        /\ from_upstream' = from_upstream /\ outbound' = outbound
        /\ to_cm' = to_cm \/ \E m \in Miner : to_cm' = Append(to_cm, <<"close", m>>)
    BY <1>7 DEF ServerNotice, linkVars
  <2>2. \A m \in Miner : <<"close", m>> \in Request
    BY DEF Request
  <2>3. to_cm' \in Seq(Request)
    BY <1>1, <2>1, <2>2, QueueEnds
  <2> QED
    BY <1>1, <2>1, <2>3 DEF QueueTypes
<1>8. CASE CmDownstreamMessage
  <2>1. /\ to_cm # <<>> /\ to_cm' = Tail(to_cm)
        /\ to_upstream' = Append(to_upstream, Head(to_cm))
        /\ asks' = asks /\ to_server' = to_server /\ from_upstream' = from_upstream
        /\ outbound' = outbound
    BY <1>8 DEF CmDownstreamMessage, linkVars
  <2>2. Head(to_cm) \in Request /\ to_cm' \in Seq(Request)
    BY <1>1, <2>1, QueueEnds
  <2>3. to_upstream' \in Seq(Request)
    BY <1>1, <2>1, <2>2, QueueEnds
  <2> QED
    BY <1>1, <2>1, <2>2, <2>3 DEF QueueTypes
<1>9. CASE CmUpstreamFrame
  <2>1. /\ from_upstream # <<>> /\ from_upstream' = Tail(from_upstream)
        /\ to_server' = to_server \/ to_server' = Append(to_server, Head(from_upstream)[2])
        /\ asks' = asks /\ to_cm' = to_cm /\ to_upstream' = to_upstream
        /\ outbound' = outbound
    BY <1>9 DEF CmUpstreamFrame, linkVars
  <2>2. Head(from_upstream) \in Answer /\ from_upstream' \in Seq(Answer)
    BY <1>1, <2>1, QueueEnds
  <2>3. Head(from_upstream)[2] \in Miner
    BY <2>2 DEF Answer
  <2>4. to_server' \in Seq(Miner)
    BY <1>1, <2>1, <2>3, QueueEnds
  <2> QED
    BY <1>1, <2>1, <2>2, <2>4 DEF QueueTypes
<1>10. CASE UpstreamSends
  <2>1. /\ to_upstream # <<>> /\ to_upstream' = Tail(to_upstream)
        /\ asks' = asks /\ to_server' = to_server /\ to_cm' = to_cm
        /\ from_upstream' = from_upstream
    BY <1>10 DEF UpstreamSends
  <2>2. Head(to_upstream) \in Request /\ to_upstream' \in Seq(Request)
    BY <1>1, <2>1, QueueEnds
  <2>3. Head(to_upstream) \in Frame
    BY <2>2 DEF Frame
  <2>4. \A u \in Upstream : Append(outbound[u], Head(to_upstream)) \in Seq(Frame)
    BY <1>1, <2>3, QueueEnds
  <2>5. \/ outbound' = outbound
        \/ outbound' = [outbound EXCEPT ![current] = Append(@, Head(to_upstream))]
    BY <1>10 DEF UpstreamSends
  <2>6. outbound' \in [Upstream -> Seq(Frame)]
    BY <1>1, <2>4, <2>5
  <2> QED
    BY <1>1, <2>1, <2>2, <2>6 DEF QueueTypes
<1>11. CASE \/ ServerClosed \/ CmNotice \/ ReaderEnds \/ UpstreamMisbehaves \/ UpstreamClosed
            \/ UpstreamNotice
  BY <1>2, <1>11
     DEF ServerClosed, CmNotice, ReaderEnds, UpstreamMisbehaves, UpstreamClosed, UpstreamNotice,
         linkVars
<1>12. CASE \/ HandleStatus \/ Acknowledged \/ ConnectSucceeds \/ ServerStarts \/ ConnectGivesUp
            \/ CtrlC \/ Completed \/ Joined
  BY <1>2, <1>12
     DEF HandleStatus, Acknowledged, ConnectSucceeds, ServerStarts, ConnectGivesUp, CtrlC,
         Completed, Joined, linkVars
<1>13. ASSUME NEW u \in Upstream, WriterWrote(u) \/ WriterFails(u) PROVE QueueTypes'
  <2>1. outbound[u] # <<>> /\ UNCHANGED queues
    BY <1>13 DEF WriterWrote, WriterFails, Writing
  <2>2. Tail(outbound[u]) \in Seq(Frame) /\ <<>> \in Seq(Frame)
    BY <1>1, <2>1, QueueEnds
  <2>3. \/ outbound' = [outbound EXCEPT ![u] = Tail(@)]
        \/ outbound' = [outbound EXCEPT ![u] = <<>>]
    BY <1>13 DEF WriterWrote, WriterFails
  <2>4. outbound' \in [Upstream -> Seq(Frame)]
    BY <1>1, <2>2, <2>3
  <2> QED
    BY <1>1, <2>1, <2>4 DEF queues, QueueTypes
<1>14. CASE ConnectFails \/ ShutdownTimeout
  <2>1. <<>> \in Seq(Frame) /\ <<SetupConnection>> \in Seq(Frame)
    BY DEF Frame
  <2>2. /\ UNCHANGED queues
        /\ \/ outbound' = outbound
           \/ outbound' = [outbound EXCEPT ![Candidate] = <<SetupConnection>>]
           \/ outbound' = [u \in Upstream |-> <<>>]
    BY <1>14 DEF ConnectFails, ShutdownTimeout
  <2>3. outbound' \in [Upstream -> Seq(Frame)]
    BY <1>1, <2>1, <2>2
  <2> QED
    BY <1>1, <2>2, <2>3 DEF queues, QueueTypes
<1> QED
  BY <1>3, <1>4, <1>5, <1>6, <1>7, <1>8, <1>9, <1>10, <1>11, <1>12, <1>13, <1>14 DEF TasksNext

\* Only a connection gives another upstream, or an open link.
LEMMA LinkIsKept ==
  ASSUME TasksNext, ~ConnectSucceeds
  PROVE  /\ current' = current /\ tried \subseteq tried' /\ (link' => link)
<1>1. ASSUME NEW m \in Miner,
             \/ SessionMessage(m) \/ SessionFails(m) \/ SessionNotice(m)
             \/ ServerAccept(m) \/ UpstreamAnswers(m)
      PROVE  UNCHANGED <<current, tried, link>>
  BY <1>1
     DEF SessionMessage, SessionFails, SessionNotice, ServerAccept, UpstreamAnswers, linkVars,
         mainVars
<1>2. ASSUME \/ ServerOpenRequest \/ ServerOpened \/ ServerNotice \/ ServerClosed
             \/ CmDownstreamMessage \/ CmUpstreamFrame \/ CmNotice
      PROVE  UNCHANGED <<current, tried, link>>
  BY <1>2
     DEF ServerOpenRequest, ServerOpened, ServerNotice, ServerClosed, CmDownstreamMessage,
         CmUpstreamFrame, CmNotice, linkVars, mainVars
<1>3. CASE ReaderEnds \/ UpstreamSends \/ UpstreamMisbehaves \/ UpstreamClosed \/ UpstreamNotice
  BY <1>3
     DEF ReaderEnds, UpstreamSends, UpstreamMisbehaves, UpstreamClosed, UpstreamNotice, linkVars,
         mainVars
<1>4. ASSUME NEW u \in Upstream, WriterWrote(u) \/ WriterFails(u)
      PROVE  current' = current /\ tried' = tried /\ (link' => link)
  <2>1. current' = current /\ tried' = tried
    BY <1>4 DEF WriterWrote, WriterFails, mainVars
  <2>2. CASE WriterWrote(u)
    BY <2>1, <2>2 DEF WriterWrote
  <2>3. CASE WriterFails(u)
    BY <2>1, <2>3, Zenon DEF WriterFails
  <2> QED
    BY <1>4, <2>2, <2>3
<1>5. CASE \/ HandleStatus \/ Acknowledged \/ ConnectFails \/ ServerStarts \/ ConnectGivesUp
           \/ CtrlC \/ Completed \/ ShutdownTimeout \/ Joined
  BY <1>5
     DEF HandleStatus, Acknowledged, ConnectFails, ServerStarts, ConnectGivesUp, CtrlC, Completed,
         ShutdownTimeout, Joined, Leaves, linkVars, mainVars
<1> QED
  BY <1>1, <1>2, <1>3, <1>4, <1>5 DEF TasksNext

\* Only an attempt to connect meets another upstream.
LEMMA MetSteps ==
  ASSUME TaskTypes, PlainTypes, QueueTypes, InUse, TasksNext, ~ConnectSucceeds, ~ConnectFails
  PROVE  Met' \subseteq Met
<1>1. current' = current /\ (link' => link) /\ (Live(UpstreamTask)' => Live(UpstreamTask))
  BY LinkIsKept, UpstreamLives
<1>2. ASSUME failed' \subseteq failed \cup Met,
             \A u \in Upstream : outbound'[u] # <<>> => u \in Met
      PROVE  Met' \subseteq Met
  BY <1>1, <1>2 DEF Met, Writing
<1>3. outbound \in [Upstream -> Seq(Frame)] /\ failed \subseteq Upstream
  BY DEF QueueTypes, PlainTypes
<1>4. ASSUME UNCHANGED <<failed, outbound>> PROVE Met' \subseteq Met
  BY <1>2, <1>4 DEF Met, Writing
<1>5. ASSUME link \/ Live(UpstreamTask) PROVE current \in Met
  BY <1>5 DEF InUse, Met
<1>6. ASSUME NEW m \in Miner,
             SessionMessage(m) \/ SessionFails(m) \/ SessionNotice(m) \/ ServerAccept(m)
      PROVE  Met' \subseteq Met
  BY <1>4, <1>6 DEF SessionMessage, SessionFails, SessionNotice, ServerAccept, linkVars
<1>7. CASE \/ ServerOpenRequest \/ ServerOpened \/ ServerNotice \/ ServerClosed
           \/ CmDownstreamMessage \/ CmUpstreamFrame \/ CmNotice
           \/ UpstreamClosed \/ UpstreamNotice
  BY <1>4, <1>7
     DEF ServerOpenRequest, ServerOpened, ServerNotice, ServerClosed, CmDownstreamMessage,
         CmUpstreamFrame, CmNotice, UpstreamClosed, UpstreamNotice, linkVars
<1>8. CASE \/ HandleStatus \/ Acknowledged \/ ServerStarts \/ ConnectGivesUp \/ CtrlC
           \/ Completed \/ Joined
  BY <1>4, <1>8
     DEF HandleStatus, Acknowledged, ServerStarts, ConnectGivesUp, CtrlC, Completed, Joined,
         linkVars
<1>9. CASE ShutdownTimeout
  <2>1. failed' = failed /\ \A u \in Upstream : outbound'[u] = <<>>
    BY <1>9 DEF ShutdownTimeout
  <2> QED
    BY <1>2, <2>1
<1>10. CASE ReaderEnds \/ UpstreamMisbehaves \/ \E m \in Miner : UpstreamAnswers(m)
  <2>1. /\ failed' \subseteq failed \cup {current} /\ outbound' = outbound
        /\ link \/ Live(UpstreamTask)
    BY <1>10 DEF ReaderEnds, UpstreamMisbehaves, UpstreamAnswers
  <2>2. \A u \in Upstream : outbound'[u] # <<>> => u \in Met
    BY <2>1 DEF Met, Writing
  <2> QED
    BY <1>2, <1>5, <2>1, <2>2
<1>11. CASE UpstreamSends
  <2>1. failed' = failed /\ Live(UpstreamTask)
    BY <1>11 DEF UpstreamSends
  <2>2. \A u \in Upstream : u # current => outbound'[u] = outbound[u]
    BY <1>3, <1>11 DEF UpstreamSends
  <2>3. \A u \in Upstream : outbound'[u] # <<>> => u \in Met
    BY <1>5, <2>1, <2>2 DEF Met, Writing
  <2> QED
    BY <1>2, <2>1, <2>3
<1>12. ASSUME NEW u \in Upstream, WriterWrote(u) \/ WriterFails(u) PROVE Met' \subseteq Met
  <2>1. u \in Met /\ failed' \subseteq failed \cup {u}
    BY <1>12 DEF WriterWrote, WriterFails, Met
  <2>2. \A v \in Upstream : v # u => outbound'[v] = outbound[v]
    BY <1>3, <1>12 DEF WriterWrote, WriterFails
  <2>3. \A v \in Upstream : outbound'[v] # <<>> => v \in Met
    BY <2>1, <2>2 DEF Met, Writing
  <2> QED
    BY <1>2, <2>1, <2>3
<1> QED
  BY <1>6, <1>7, <1>8, <1>9, <1>10, <1>11, <1>12 DEF TasksNext

LEMMA FlaggedSteps ==
  ASSUME TaskTypes, PlainTypes, QueueTypes, InUse, Flagged, TasksNext
  PROVE  Flagged'
<1>1. CASE ConnectSucceeds
  <2>1. /\ main = "connecting" /\ main' = "binding" /\ tried' = tried /\ current' = Candidate
        /\ failed' = failed /\ outbound' = outbound
    BY <1>1 DEF ConnectSucceeds
  <2>2. Candidate \in Upstream
    BY <1>1, CandidateIsNew DEF ConnectSucceeds, PlainTypes
  <2>3. Met' \subseteq Met \cup {current'}
    BY <2>1 DEF Met, Writing
  <2> QED
    BY <2>1, <2>2, <2>3 DEF Flagged
<1>2. CASE ConnectFails
  <2>1. /\ main = "connecting" /\ main' = main /\ tried' = tried \cup {Candidate}
        /\ failed' = failed \cup {Candidate} /\ current' = current /\ link' = link
        /\ task' = task
    BY <1>2 DEF ConnectFails
  <2>2. \A u \in Upstream : u # Candidate => outbound'[u] = outbound[u]
    BY <1>2 DEF ConnectFails, QueueTypes
  <2>3. Met' \subseteq Met \cup {Candidate}
    BY <2>1, <2>2 DEF Met, Writing, Live
  <2> QED
    BY <2>1, <2>3 DEF Flagged
<1>3. CASE ~ConnectSucceeds /\ ~ConnectFails
  <2>1. /\ Met' \subseteq Met /\ current' = current /\ tried \subseteq tried'
    BY <1>3, MetSteps, LinkIsKept
  <2>2. CASE ServerStarts
    <3>1. main' = "loop" /\ tried' = tried \cup {current}
      BY <2>2 DEF ServerStarts
    <3> QED
      BY <2>1, <3>1 DEF Flagged
  <2>3. CASE ~ServerStarts
    <3>1. /\ main' = "binding" => main = "binding"
          /\ main' \in {"connecting", "loop", "acknowledging"} =>
               main \in {"connecting", "loop", "acknowledging"}
      <4>1. ASSUME NEW m \in Miner,
                   \/ SessionMessage(m) \/ SessionFails(m) \/ SessionNotice(m)
                   \/ ServerAccept(m) \/ UpstreamAnswers(m)
            PROVE  main' = main
        BY <4>1
           DEF SessionMessage, SessionFails, SessionNotice, ServerAccept, UpstreamAnswers, mainVars
      <4>2. ASSUME \/ ServerOpenRequest \/ ServerOpened \/ ServerNotice \/ ServerClosed
                   \/ CmDownstreamMessage \/ CmUpstreamFrame \/ CmNotice
            PROVE  main' = main
        BY <4>2
           DEF ServerOpenRequest, ServerOpened, ServerNotice, ServerClosed, CmDownstreamMessage,
               CmUpstreamFrame, CmNotice, mainVars
      <4>3. ASSUME \/ ReaderEnds \/ (\E u \in Upstream : WriterWrote(u) \/ WriterFails(u))
                   \/ UpstreamSends \/ UpstreamMisbehaves \/ UpstreamClosed \/ UpstreamNotice
            PROVE  main' = main
        BY <4>3
           DEF ReaderEnds, WriterWrote, WriterFails, UpstreamSends, UpstreamMisbehaves,
               UpstreamClosed, UpstreamNotice, mainVars
      <4>4. CASE \/ HandleStatus \/ Acknowledged \/ ConnectGivesUp \/ CtrlC
                 \/ Completed \/ ShutdownTimeout \/ Joined
        BY <4>4
           DEF HandleStatus, Acknowledged, ConnectGivesUp, CtrlC, Completed, ShutdownTimeout,
               Joined, Leaves
      <4> QED
        BY <1>3, <2>3, <4>1, <4>2, <4>3, <4>4 DEF TasksNext
    <3> QED
      BY <2>1, <3>1 DEF Flagged
  <2> QED
    BY <2>2, <2>3
<1> QED
  BY <1>1, <1>2, <1>3

LEMMA PlainSteps ==
  ASSUME TaskTypes, PlainTypes, QueueTypes, InUse, Flagged, TasksNext
  PROVE  PlainTypes' /\ InUse'
<1>1. ASSUME UNCHANGED <<mainVars, linkVars, managerVars>>, inputs' \in 0..MaxInputs,
             downstreams' \subseteq Miner
      PROVE  PlainTypes'
  BY <1>1 DEF mainVars, linkVars, managerVars, PlainTypes
<1>2. inputs \in 0..MaxInputs /\ downstreams \subseteq Miner
  BY DEF PlainTypes
<1>3. Input => inputs' \in 0..MaxInputs
  BY <1>2, InputsAssumption DEF Input
<1>4. ASSUME NEW m \in Miner,
             \/ SessionMessage(m) \/ SessionFails(m) \/ SessionNotice(m) \/ ServerAccept(m)
      PROVE  PlainTypes'
  <2>1. UNCHANGED <<mainVars, linkVars, managerVars>>
    BY <1>4 DEF SessionMessage, SessionFails, SessionNotice, ServerAccept
  <2>2. inputs' = inputs \/ Input
    BY <1>4 DEF SessionMessage, SessionFails, SessionNotice, ServerAccept
  <2>3. downstreams' = downstreams \/ downstreams' = downstreams \cup {m}
    BY <1>4 DEF SessionMessage, SessionFails, SessionNotice, ServerAccept
  <2> QED
    BY <1>1, <1>2, <1>3, <2>1, <2>2, <2>3
<1>5. ASSUME NEW m \in Miner, UpstreamAnswers(m) PROVE PlainTypes'
  <2>1. /\ failed' \subseteq failed \cup {current} /\ asked' \subseteq asked
        /\ current \in Upstream
    BY <1>5 DEF UpstreamAnswers, InUse
  <2>2. UNCHANGED <<main, cause, tried, current, link, held, inputs, downstreams, pending, channels>>
    BY <1>5 DEF UpstreamAnswers, mainVars, managerVars
  <2> QED
    BY <2>1, <2>2 DEF PlainTypes
<1>6. ASSUME ServerOpenRequest \/ ServerOpened \/ ServerNotice \/ ServerClosed PROVE PlainTypes'
  <2>1. UNCHANGED <<mainVars, linkVars, managerVars>> /\ inputs' = inputs
    BY <1>6 DEF ServerOpenRequest, ServerOpened, ServerNotice, ServerClosed
  <2>2. downstreams' \subseteq downstreams
    BY <1>6 DEF ServerOpenRequest, ServerOpened, ServerNotice, ServerClosed
  <2>3. downstreams' \subseteq Miner /\ inputs' \in 0..MaxInputs
    BY <1>2, <2>1, <2>2
  <2> QED
    BY <1>1, <2>1, <2>3
<1>7. ASSUME CmDownstreamMessage \/ CmUpstreamFrame \/ CmNotice PROVE PlainTypes'
  <2>1. UNCHANGED <<main, cause, tried, failed, current, link, asked, held, inputs, downstreams>>
    BY <1>7 DEF CmDownstreamMessage, CmUpstreamFrame, CmNotice, mainVars, linkVars
  <2>2. pending' \subseteq Miner /\ channels' \subseteq Miner \X Upstream
    <3>0. pending \subseteq Miner /\ channels \subseteq Miner \X Upstream
      BY DEF PlainTypes
    <3>1. CASE CmDownstreamMessage
      BY <3>0, <3>1 DEF CmDownstreamMessage
    <3>2. CASE CmNotice
      BY <3>0, <3>2 DEF CmNotice, managerVars
    <3>3. CASE CmUpstreamFrame
      <4>1. Head(from_upstream) \in Answer
        <5>1. from_upstream # <<>> /\ from_upstream \in Seq(Answer)
          BY <3>3 DEF CmUpstreamFrame, QueueTypes
        <5> QED
          BY <5>1, QueueEnds
      <4>2. <<Head(from_upstream)[2], Head(from_upstream)[3]>> \in Miner \X Upstream
        BY <4>1 DEF Answer
      <4>3. /\ pending' \subseteq pending
            /\ channels' \subseteq
                 channels \cup {<<Head(from_upstream)[2], Head(from_upstream)[3]>>}
        BY <3>3 DEF CmUpstreamFrame, managerVars
      <4> QED
        BY <3>0, <4>2, <4>3
    <3> QED
      BY <1>7, <3>1, <3>2, <3>3
  <2> QED
    BY <2>1, <2>2 DEF PlainTypes
<1>8. ASSUME ReaderEnds \/ UpstreamSends \/ UpstreamMisbehaves PROVE PlainTypes'
  <2>1. UNCHANGED <<main, cause, tried, current, asked, held, inputs, downstreams, pending, channels>>
    BY <1>8 DEF ReaderEnds, UpstreamSends, UpstreamMisbehaves, mainVars, managerVars
  <2>2. failed' \subseteq failed \cup {current} /\ current \in Upstream
    BY <1>8 DEF ReaderEnds, UpstreamSends, UpstreamMisbehaves, InUse
  <2>3. link' \in {link, FALSE}
    BY <1>8 DEF ReaderEnds, UpstreamSends, UpstreamMisbehaves
  <2>4. failed' \subseteq Upstream /\ link' \in BOOLEAN
    BY <2>2, <2>3 DEF PlainTypes
  <2> QED
    BY <2>1, <2>4 DEF PlainTypes
<1>13. ASSUME NEW u \in Upstream, WriterWrote(u) \/ WriterFails(u) PROVE PlainTypes'
  <2>1. UNCHANGED <<main, cause, tried, current, inputs, downstreams, pending, channels>>
    BY <1>13 DEF WriterWrote, WriterFails, mainVars, managerVars
  <2>2. /\ failed' \subseteq failed \cup {u} /\ held' \subseteq held
        /\ asked' \subseteq asked \cup Miner
    BY <1>13 DEF WriterWrote, WriterFails
  <2>3. link' \in BOOLEAN
    BY <1>13 DEF WriterWrote, WriterFails, PlainTypes
  <2>4. failed' \subseteq Upstream /\ held' \subseteq Upstream /\ asked' \subseteq Miner
    BY <2>2 DEF PlainTypes
  <2> QED
    BY <2>1, <2>3, <2>4 DEF PlainTypes
<1>9. ASSUME UpstreamClosed \/ UpstreamNotice PROVE PlainTypes'
  <2>1. UNCHANGED <<mainVars, linkVars, managerVars>>
    BY <1>9 DEF UpstreamClosed, UpstreamNotice
  <2>2. inputs' = inputs /\ downstreams' = downstreams
    BY <1>9 DEF UpstreamClosed, UpstreamNotice
  <2>3. downstreams' \subseteq Miner /\ inputs' \in 0..MaxInputs
    BY <1>2, <2>2
  <2> QED
    BY <1>1, <2>1, <2>3
<1>10. ASSUME \/ HandleStatus \/ Acknowledged \/ ConnectGivesUp \/ CtrlC
              \/ Completed \/ ShutdownTimeout \/ Joined
       PROVE  PlainTypes'
  <2>1. UNCHANGED <<tried, failed, current, asked, pending, channels, inputs, downstreams>>
    BY <1>10
       DEF HandleStatus, Acknowledged, ConnectGivesUp, CtrlC, Completed, ShutdownTimeout, Joined,
           linkVars, managerVars
  <2>2. main' \in {main, "acknowledging", "connecting", "joining", "joining_all", "stopped"}
    BY <1>10
       DEF HandleStatus, Acknowledged, ConnectGivesUp, CtrlC, Completed, ShutdownTimeout, Joined,
           Leaves
  <2>3. cause' \in {cause, "component", "no_upstream", "no_listener", "ctrl_c"}
    BY <1>10
       DEF HandleStatus, Acknowledged, ConnectGivesUp, CtrlC, Completed, ShutdownTimeout, Joined,
           Leaves
  <2>4. link' \in {link, FALSE}
    BY <1>10
       DEF HandleStatus, Acknowledged, ConnectGivesUp, CtrlC, Completed, ShutdownTimeout, Joined,
           Leaves, linkVars
  <2>5. \/ held' \in {held, {}}
        \/ held' = {u \in Upstream : Writing(u)}
    BY <1>10
       DEF HandleStatus, Acknowledged, ConnectGivesUp, CtrlC, Completed, ShutdownTimeout, Joined,
           Leaves, Broadcast, linkVars
  <2>6. /\ main' \in {"connecting", "binding", "loop", "acknowledging", "joining", "joining_all",
                      "stopped"}
        /\ cause' \in {None, "component", "no_upstream", "no_listener", "ctrl_c"}
        /\ link' \in BOOLEAN /\ held' \subseteq Upstream
    BY <2>2, <2>3, <2>4, <2>5 DEF PlainTypes
  <2> QED
    BY <2>1, <2>6 DEF PlainTypes
<1>11. ASSUME ConnectFails \/ ConnectSucceeds PROVE PlainTypes'
  <2>1. Candidate \in Upstream \ tried
    BY <1>11, CandidateIsNew DEF ConnectFails, ConnectSucceeds, PlainTypes
  <2>2. tried' \subseteq tried \cup {Candidate}
    BY <1>11 DEF ConnectFails, ConnectSucceeds
  <2>3. /\ failed' \subseteq failed \cup {Candidate} /\ current' \in {current, Candidate}
        /\ link' \in {link, TRUE} /\ asked' \subseteq asked /\ main' \in {main, "binding"}
    BY <1>11 DEF ConnectFails, ConnectSucceeds
  <2>4. UNCHANGED <<cause, held, inputs, downstreams, pending, channels>>
    BY <1>11 DEF ConnectFails, ConnectSucceeds, managerVars
  <2>5. tried' \subseteq Upstream /\ failed' \subseteq Upstream /\ current' \in {None} \cup Upstream
    BY <2>1, <2>2, <2>3 DEF PlainTypes
  <2>6. /\ link' \in BOOLEAN /\ asked' \subseteq Miner
        /\ main' \in {"connecting", "binding", "loop", "acknowledging", "joining", "joining_all",
                      "stopped"}
    BY <2>3 DEF PlainTypes
  <2> QED
    BY <2>4, <2>5, <2>6 DEF PlainTypes
<1>14. ASSUME ServerStarts PROVE PlainTypes'
  <2>1. UNCHANGED <<cause, linkVars, inputs, downstreams, managerVars>> /\ main' = "loop"
    BY <1>14 DEF ServerStarts
  <2>2. tried' = tried \cup {current} /\ current \in Upstream
    BY <1>14 DEF ServerStarts, Flagged
  <2> QED
    BY <2>1, <2>2 DEF PlainTypes, linkVars, managerVars
<1>12. InUse'
  <2>1. CASE ConnectSucceeds
    BY <2>1, CandidateIsNew DEF ConnectSucceeds, InUse, PlainTypes
  <2>2. CASE ~ConnectSucceeds
    <3>1. current' = current /\ (link' => link)
      BY <2>2, LinkIsKept
    <3>2. Live(UpstreamTask)' => Live(UpstreamTask)
      BY <2>2, UpstreamLives
    <3> QED
      BY <3>1, <3>2 DEF InUse
  <2> QED
    BY <2>1, <2>2
<1> QED
  BY <1>4, <1>5, <1>6, <1>7, <1>8, <1>9, <1>12, <1>10, <1>11, <1>13, <1>14 DEF TasksNext

LEMMA InitPlain ==
  TasksInit => TaskTypes /\ CleanFallback /\ PlainTypes /\ QueueTypes /\ InUse /\ Flagged
<1> SUFFICES ASSUME TasksInit PROVE PlainTypes /\ QueueTypes /\ InUse /\ Flagged
  BY InitTasks
<1>1. QueueTypes
  BY DEF TasksInit, QueueTypes
<1>2. /\ main = "connecting" /\ cause = None /\ tried = {} /\ failed = {} /\ current = None
      /\ link = FALSE /\ held = {} /\ inputs = 0 /\ asked = {} /\ downstreams = {} /\ pending = {}
      /\ channels = {} /\ outbound = [u \in Upstream |-> <<>>] /\ ~Live(UpstreamTask)
  BY TaskNames DEF TasksInit, Live
<1>3. 0 \in 0..MaxInputs
  BY InputsAssumption
<1>4. PlainTypes
  <2>1. inputs \in 0..MaxInputs /\ channels \subseteq Miner \X Upstream
    BY <1>2, <1>3
  <2> QED
    BY <1>2, <2>1 DEF PlainTypes
<1>5. InUse /\ Flagged
  BY <1>2 DEF InUse, Flagged, Met, Writing
<1> QED
  BY <1>1, <1>4, <1>5

LEMMA NextPlain ==
  TaskTypes /\ CleanFallback /\ PlainTypes /\ QueueTypes /\ InUse /\ Flagged
      /\ [TasksNext]_tasksVars
    => TaskTypes' /\ CleanFallback' /\ PlainTypes' /\ QueueTypes' /\ InUse' /\ Flagged'
<1> SUFFICES ASSUME TaskTypes, CleanFallback, PlainTypes, QueueTypes, InUse, Flagged,
                    [TasksNext]_tasksVars
             PROVE  PlainTypes' /\ QueueTypes' /\ InUse' /\ Flagged'
  BY NextTasks
<1>1. CASE TasksNext
  BY <1>1, QueueSteps, PlainSteps, FlaggedSteps
<1>2. CASE UNCHANGED tasksVars
  BY <1>2
     DEF tasksVars, mainVars, linkVars, queues, managerVars, PlainTypes, QueueTypes, InUse,
         Flagged, Met, Writing, Live
<1> QED
  BY <1>1, <1>2

\* Every variable of the tasks keeps its type, and every upstream it names is one of
\* those listed.
THEOREM TasksTypes == TasksSpec => []TasksTypeOK
<1> DEFINE Inv == TaskTypes /\ CleanFallback /\ PlainTypes /\ QueueTypes /\ InUse /\ Flagged
<1>1. Inv => TasksTypeOK
  BY DEF TaskTypes, PlainTypes, QueueTypes, TasksTypeOK
<1> HIDE DEF Inv
<1> QED
  BY <1>1, InitPlain, NextPlain, PTL DEF TasksSpec, Inv

\* Each upstream is used once: start() turns to one that has neither been tried nor
\* failed, and only when nothing that served the last one is alive.
UpstreamIsNew ==
  [][current' # current =>
       /\ current' \in Upstream \ (tried \cup failed)
       /\ ~Live(UpstreamTask) /\ ~Live(Server)]_tasksVars

\* However failures are reported and fallbacks overlap, the translator never goes back
\* to an upstream it has left, nor connects while the last one is served.
THEOREM NeverGoesBack == TasksSpec => UpstreamIsNew
<1> DEFINE IsNew == current' # current =>
                      /\ current' \in Upstream \ (tried \cup failed)
                      /\ ~Live(UpstreamTask) /\ ~Live(Server)
<1> DEFINE Inv == TaskTypes /\ CleanFallback /\ PlainTypes /\ QueueTypes /\ InUse /\ Flagged
<1>1. Inv /\ [TasksNext]_tasksVars => [IsNew]_tasksVars
  <2> SUFFICES ASSUME Inv, TasksNext, current' # current
               PROVE  IsNew
    OBVIOUS
  <2>1. ConnectSucceeds
    BY LinkIsKept
  <2>2. main = "connecting" /\ tried # Upstream /\ current' = Candidate
    BY <2>1 DEF ConnectSucceeds
  <2>3. Candidate \in Upstream \ tried
    BY <2>2, CandidateIsNew DEF PlainTypes
  <2>4. failed \subseteq tried
    BY <2>2 DEF Flagged, Met, PlainTypes
  <2> QED
    BY <2>2, <2>3, <2>4 DEF CleanFallback, FallbackLeavesNothing
<1>2. TasksSpec => []Inv
  <2>1. TasksInit => Inv
    BY InitPlain
  <2>2. Inv /\ [TasksNext]_tasksVars => Inv'
    BY NextPlain
  <2> HIDE DEF Inv
  <2> QED
    BY <2>1, <2>2, PTL DEF TasksSpec
<1> HIDE DEF IsNew, Inv
<1>3. TasksSpec => [][IsNew]_tasksVars
  BY <1>1, <1>2, PTL DEF TasksSpec
<1> QED
  BY <1>3 DEF IsNew, UpstreamIsNew

-----------------------------------------------------------------------------
(* The fallback's acknowledgements: FallbackCompletes as far as fairness.    *)

\* How many reads the receiver of a task is from having acknowledged.
Backlog(r) == IF ~Live(r) THEN 0 ELSE CASE unread[r] = "none" -> 0
                                        [] unread[r] = "message" -> 1
                                        [] unread[r] = "lag" -> 2

\* The branch of a task that reads the broadcast channel.
Reads(r) ==
  \/ r = Server /\ ServerNotice
  \/ r = CM /\ CmNotice
  \/ r = UpstreamTask /\ UpstreamNotice
  \/ \E m \in Miner : r = Session(m) /\ SessionNotice(m)

\* What holds up start() in acknowledging is either a task that has fallen behind or has
\* the fallback to read, and can read it, or a writer that is inside write_frame.
WaitedForCanRead ==
  main = "acknowledging" =>
    /\ \A r \in Task : Backlog(r) # 0 => Lags(r) \/ Hears(r, {UpstreamFallback})
    /\ \A u \in held : Writing(u)

\* While start() waits nothing adds to what it waits for, not even a miner that
\* connects or a frame that is queued; a task that reads is one read closer, and a
\* writer that is done with its frames is out of the way.
Shrinks ==
  main = "acknowledging" =>
    /\ \A r \in Task : Backlog(r)' <= Backlog(r) /\ (Reads(r) => Backlog(r)' < Backlog(r))
    /\ held' \subseteq held

\* Every step of the translator is such a step.
BacklogsOnlyShrink == [][Shrinks]_tasksVars

Dead == {"absent", "ended", "closed", "lagged"}

\* What has not started, or has ended, reads nothing.
AllDeaf == \A r \in Task : ~Live(r) => unread[r] = "none"

\* The ways a step changes the tasks and what they have to read.
Ending(r) ==
  /\ \E state \in Dead : Becomes(r, state)
  /\ unread' = [unread EXCEPT ![r] = "none"]
Reading(r) == Live(r) /\ unread[r] # "none" /\ Passed(r) /\ UNCHANGED task
Moving(r) == (\E state \in TaskState \ Dead : Becomes(r, state)) /\ UNCHANGED unread

LEMMA ReaderSteps ==
  ASSUME TaskTypes, NEW r \in Task, Reads(r)
  PROVE  Live(r) /\ unread[r] # "none" /\ (Ending(r) \/ Reading(r))
<1>1. CASE r = Server /\ ServerNotice
  BY <1>1 DEF ServerNotice, Lags, Hears, Closes, Ends, Ending, Reading, Dead
<1>2. CASE r = CM /\ CmNotice
  BY <1>2 DEF CmNotice, Lags, Hears, Ends, Ending, Reading, Dead
<1>3. CASE r = UpstreamTask /\ UpstreamNotice
  BY <1>3 DEF UpstreamNotice, Lags, Hears, Quits, Ends, Ending, Reading, Dead
<1>4. CASE \E m \in Miner : r = Session(m) /\ SessionNotice(m)
  BY <1>4 DEF SessionNotice, Lags, Hears, Quits, Ends, Ending, Reading, Dead
<1> QED
  BY <1>1, <1>2, <1>3, <1>4 DEF Reads

\* A step either leaves the tasks alone, or is about one of them, or is one of
\* start()'s that reach all of them.
LEMMA TaskSteps ==
  ASSUME TaskTypes, TasksNext
  PROVE  \/ UNCHANGED <<task, unread>>
         \/ \E r \in Task : Ending(r) \/ Reading(r) \/ Moving(r)
         \/ main # "acknowledging" /\ (\E n : Broadcast(n)) /\ UNCHANGED task
         \/ ConnectSucceeds \/ ServerStarts \/ ShutdownTimeout
<1>0. /\ CM \in Task /\ Server \in Task /\ UpstreamTask \in Task
      /\ \A m \in Miner : Session(m) \in Task
  BY TaskNames
<1>1. ASSUME NEW m \in Miner,
             SessionMessage(m) \/ SessionFails(m) \/ ServerAccept(m) \/ UpstreamAnswers(m)
      PROVE  UNCHANGED <<task, unread>> \/ Ending(Session(m)) \/ Moving(Session(m))
  BY <1>1
     DEF SessionMessage, SessionFails, ServerAccept, UpstreamAnswers, Ends, Ending, Moving, Dead,
         TaskState
<1>2. ASSUME NEW m \in Miner, SessionNotice(m)
      PROVE  \E r \in Task : Ending(r) \/ Reading(r)
  <2>1. Reads(Session(m))
    BY <1>2 DEF Reads
  <2> QED
    BY <1>0, <2>1, ReaderSteps
<1>3. CASE ServerNotice \/ CmNotice \/ UpstreamNotice
  <2>1. Reads(Server) \/ Reads(CM) \/ Reads(UpstreamTask)
    BY <1>3 DEF Reads
  <2> QED
    BY <1>0, <2>1, ReaderSteps
<1>4. CASE ServerOpened
  <2>1. \/ task' = task
        \/ /\ Head(to_server) \in downstreams
           /\ task[Session(Head(to_server))] = "waiting"
           /\ task' = [task EXCEPT ![Session(Head(to_server))] = "mining"]
    BY <1>4 DEF ServerOpened
  <2>2. unread' = unread
    BY <1>4 DEF ServerOpened
  <2>3. CASE task' # task
    <3> DEFINE r == Session(Head(to_server))
    <3>1. Moving(r)
      BY <2>1, <2>2, <2>3 DEF Moving, Becomes, TaskState, Dead
    <3>2. r \in Task
      <4>1. r \notin Task => [task EXCEPT ![r] = "mining"] = task
        BY DEF TaskTypes
      <4> QED
        BY <2>1, <2>3, <4>1
    <3> QED
      BY <3>1, <3>2
  <2> QED
    BY <2>2, <2>3
<1>5. CASE \/ ServerOpenRequest \/ CmDownstreamMessage \/ ReaderEnds
           \/ (\E u \in Upstream : WriterWrote(u) \/ WriterFails(u))
           \/ UpstreamSends \/ UpstreamMisbehaves
  BY <1>5
     DEF ServerOpenRequest, CmDownstreamMessage, ReaderEnds, WriterWrote, WriterFails,
         UpstreamSends, UpstreamMisbehaves
<1>6. CASE ServerClosed
  BY <1>0, <1>6 DEF ServerClosed, Closes, Ending, Dead
<1>7. CASE CmUpstreamFrame
  <2>1. UNCHANGED <<task, unread>> \/ Ending(CM)
    BY <1>7 DEF CmUpstreamFrame, Ends, Ending, Dead
  <2> QED
    BY <1>0, <2>1
<1>8. CASE UpstreamClosed
  BY <1>0, <1>8 DEF UpstreamClosed, Ends, Ending, Dead
<1>9. CASE HandleStatus \/ CtrlC
  BY <1>9 DEF HandleStatus, CtrlC, Leaves
<1>10. CASE ConnectGivesUp
  BY <1>10 DEF ConnectGivesUp, Leaves
<1>11. CASE Acknowledged \/ ConnectFails \/ Completed \/ Joined
  BY <1>11 DEF Acknowledged, ConnectFails, Completed, Joined
<1> QED
  BY <1>0, <1>1, <1>2, <1>3, <1>4, <1>5, <1>6, <1>7, <1>8, <1>9, <1>10, <1>11 DEF TasksNext

\* A task that ends, reads or moves on is closer to having acknowledged, or as close.
LEMMA OneBacklog ==
  ASSUME TaskTypes, AllDeaf, NEW r \in Task, Ending(r) \/ Reading(r) \/ Moving(r)
  PROVE  /\ AllDeaf'
         /\ \A s \in Task : Backlog(s)' <= Backlog(s)
         /\ Live(r) /\ unread[r] # "none" /\ ~Moving(r) => Backlog(r)' < Backlog(r)
<1>0. /\ task \in [Task -> TaskState] /\ unread \in [Task -> {"none", "message", "lag"}]
  BY DEF TaskTypes
<1>1. ASSUME NEW s \in Task, s # r
      PROVE  /\ ~Live(s)' => unread'[s] = "none"
             /\ Backlog(s)' <= Backlog(s)
  <2>1. task'[s] = task[s]
    BY <1>0, <1>1 DEF Ending, Reading, Moving, Becomes
  <2>2. unread'[s] = unread[s]
    BY <1>0, <1>1 DEF Ending, Reading, Moving, Passed
  <2>3. Backlog(s)' = Backlog(s) /\ Backlog(s) \in {0, 1, 2}
    BY <1>0, <2>1, <2>2 DEF Live, Backlog
  <2> QED
    BY <2>1, <2>2, <2>3 DEF AllDeaf, Live
<1>2. CASE Ending(r)
  <2>1. ~Live(r)' /\ unread'[r] = "none"
    BY <1>0, <1>2 DEF Ending, Becomes, Dead, Live
  <2>2. Backlog(r)' = 0 /\ Backlog(r) \in {0, 1, 2}
    BY <1>0, <2>1 DEF Backlog
  <2>3. Live(r) /\ unread[r] # "none" => Backlog(r) # 0
    BY <1>0 DEF Backlog
  <2>4. AllDeaf'
    BY <1>1, <2>1 DEF AllDeaf
  <2>5. \A s \in Task : Backlog(s)' <= Backlog(s)
    BY <1>1, <2>2
  <2> QED
    BY <2>2, <2>3, <2>4, <2>5
<1>3. CASE Reading(r)
  <2>1. /\ Live(r) /\ Live(r)' /\ unread[r] \in {"message", "lag"}
        /\ unread'[r] = IF unread[r] = "lag" THEN "message" ELSE "none"
    BY <1>0, <1>3 DEF Reading, Passed, Live
  <2>2. Backlog(r)' < Backlog(r)
    BY <2>1 DEF Backlog
  <2>3. Backlog(r)' <= Backlog(r)
    BY <2>1 DEF Backlog
  <2>4. AllDeaf'
    BY <1>1, <2>1 DEF AllDeaf
  <2>5. \A s \in Task : Backlog(s)' <= Backlog(s)
    BY <1>1, <2>3
  <2> QED
    BY <2>2, <2>4, <2>5
<1>4. CASE Moving(r)
  <2>1. Live(r)' /\ unread'[r] = unread[r]
    BY <1>0, <1>4 DEF Moving, Becomes, Dead, Live
  <2>2. Backlog(r)' <= Backlog(r)
    BY <1>0, <2>1 DEF AllDeaf, Backlog
  <2>3. AllDeaf'
    BY <1>1, <2>1 DEF AllDeaf
  <2>4. \A s \in Task : Backlog(s)' <= Backlog(s)
    BY <1>1, <2>2
  <2> QED
    BY <1>4, <2>3, <2>4
<1> QED
  BY <1>2, <1>3, <1>4

\* While a fallback waits, all that is done is about one task, or none.
LEMMA BacklogSteps ==
  ASSUME TaskTypes, AllDeaf, TasksNext, main = "acknowledging"
  PROVE  \A r \in Task : Backlog(r)' <= Backlog(r) /\ (Reads(r) => Backlog(r)' < Backlog(r))
<1>1. ASSUME NEW r \in Task PROVE Backlog(r) \in {0, 1, 2} /\ Backlog(r) <= Backlog(r)
  BY DEF TaskTypes, Backlog
<1>2. ASSUME NEW r \in Task, Reads(r) PROVE Backlog(r)' < Backlog(r)
  <2>1. Live(r) /\ unread[r] # "none" /\ (Ending(r) \/ Reading(r))
    BY <1>2, ReaderSteps
  <2>2. ~Moving(r)
    <3>1. unread'[r] # unread[r]
      BY <2>1 DEF TaskTypes, Ending, Reading, Passed
    <3> QED
      BY <3>1 DEF Moving
  <2> QED
    BY <2>1, <2>2, OneBacklog
<1>3. ASSUME NEW r \in Task PROVE Backlog(r)' <= Backlog(r)
  <2>1. CASE UNCHANGED <<task, unread>>
    <3>1. Backlog(r)' = Backlog(r)
      BY <2>1 DEF Backlog, Live
    <3> QED
      BY <1>1, <3>1
  <2>2. CASE \E s \in Task : Ending(s) \/ Reading(s) \/ Moving(s)
    BY <2>2, OneBacklog
  <2>3. ~ConnectSucceeds /\ ~ServerStarts /\ ~ShutdownTimeout
    BY DEF ConnectSucceeds, ServerStarts, ShutdownTimeout
  <2> QED
    BY <2>1, <2>2, <2>3, TaskSteps
<1> QED
  BY <1>2, <1>3

LEMMA DeafSteps ==
  ASSUME TaskTypes, AllDeaf, CleanFallback, TasksNext
  PROVE  AllDeaf'
<1>1. CASE UNCHANGED <<task, unread>>
  BY <1>1 DEF AllDeaf, Live
<1>2. CASE \E r \in Task : Ending(r) \/ Reading(r) \/ Moving(r)
  BY <1>2, OneBacklog
<1>3. CASE (\E n : Broadcast(n)) /\ UNCHANGED task
  BY <1>3, Broadcasts DEF AllDeaf, Live
<1>4. CASE ConnectSucceeds \/ ServerStarts
  <2>1. /\ unread' = unread
        /\ \/ task' = [task EXCEPT ![UpstreamTask] = "running"]
           \/ task' = [task EXCEPT ![Server] = "running",
                                   ![CM] = IF @ = "absent" THEN "running" ELSE @]
    BY <1>4 DEF ConnectSucceeds, ServerStarts, Becomes
  <2>2. \A r \in Task : Live(r) => Live(r)'
    BY <2>1 DEF TaskTypes, Live
  <2> QED
    BY <2>1, <2>2 DEF AllDeaf
<1>5. CASE ShutdownTimeout
  BY <1>5 DEF ShutdownTimeout, AllDeaf
<1> QED
  BY <1>1, <1>2, <1>3, <1>4, <1>5, TaskSteps

\* A writer that has a notice to read has a frame to write before.
HeldWrite == \A u \in held : Writing(u)

LEMMA HeldSteps ==
  ASSUME PlainTypes, QueueTypes, InUse, HeldWrite, TasksNext
  PROVE  HeldWrite' /\ (main = "acknowledging" => held' \subseteq held)
<1>1. outbound \in [Upstream -> Seq(Frame)] /\ held \subseteq Upstream
  BY DEF QueueTypes, PlainTypes
<1>2. ASSUME UNCHANGED <<outbound, held>> PROVE HeldWrite' /\ held' \subseteq held
  BY <1>2 DEF HeldWrite, Writing
<1>3. ASSUME NEW m \in Miner,
             \/ SessionMessage(m) \/ SessionFails(m) \/ SessionNotice(m) \/ ServerAccept(m)
             \/ UpstreamAnswers(m)
      PROVE  HeldWrite' /\ held' \subseteq held
  BY <1>2, <1>3
     DEF SessionMessage, SessionFails, SessionNotice, ServerAccept, UpstreamAnswers, linkVars
<1>4. CASE \/ ServerOpenRequest \/ ServerOpened \/ ServerNotice \/ ServerClosed
           \/ CmDownstreamMessage \/ CmUpstreamFrame \/ CmNotice
           \/ ReaderEnds \/ UpstreamMisbehaves \/ UpstreamClosed \/ UpstreamNotice
  BY <1>2, <1>4
     DEF ServerOpenRequest, ServerOpened, ServerNotice, ServerClosed, CmDownstreamMessage,
         CmUpstreamFrame, CmNotice, ReaderEnds, UpstreamMisbehaves, UpstreamClosed,
         UpstreamNotice, linkVars
<1>5. CASE Acknowledged \/ ConnectSucceeds \/ ServerStarts \/ Completed \/ Joined
  BY <1>2, <1>5
     DEF Acknowledged, ConnectSucceeds, ServerStarts, Completed, Joined, linkVars
<1>6. CASE HandleStatus \/ CtrlC \/ ConnectGivesUp
  <2>1. /\ main # "acknowledging" /\ outbound' = outbound
        /\ held' = held \/ held' = {u \in Upstream : Writing(u)}
    BY <1>6 DEF HandleStatus, CtrlC, ConnectGivesUp, Leaves, Broadcast
  <2> QED
    BY <2>1 DEF HeldWrite, Writing
<1>7. CASE UpstreamSends
  <2>1. /\ held' = held /\ to_upstream # <<>> /\ to_upstream \in Seq(Request)
        /\ \/ outbound' = outbound
           \/ outbound' = [outbound EXCEPT ![current] = Append(@, Head(to_upstream))]
    BY <1>7 DEF UpstreamSends, QueueTypes
  <2>2. \A u \in Upstream : Append(outbound[u], Head(to_upstream)) # <<>>
    <3>1. Head(to_upstream) \in Frame
      BY <2>1, QueueEnds DEF Frame
    <3> QED
      BY <1>1, <3>1
  <2>3. \A u \in Upstream : outbound[u] # <<>> => outbound'[u] # <<>>
    BY <1>1, <2>1, <2>2
  <2> QED
    BY <1>1, <2>1, <2>3 DEF HeldWrite, Writing
<1>8. ASSUME NEW u \in Upstream, WriterWrote(u) \/ WriterFails(u)
      PROVE  HeldWrite' /\ held' \subseteq held
  <2>1. held' \subseteq held
    BY <1>8 DEF WriterWrote, WriterFails
  <2>2. \A v \in Upstream : v # u => outbound'[v] = outbound[v]
    BY <1>1, <1>8 DEF WriterWrote, WriterFails
  <2>3. u \in held' => outbound'[u] # <<>>
    BY <1>1, <1>8 DEF WriterWrote, WriterFails
  <2> QED
    BY <1>1, <2>1, <2>2, <2>3 DEF HeldWrite, Writing
<1>9. CASE ConnectFails
  <2>1. /\ held' = held
        /\ \/ outbound' = outbound
           \/ outbound' = [outbound EXCEPT ![Candidate] = <<SetupConnection>>]
    BY <1>9 DEF ConnectFails
  <2>2. \A u \in Upstream : outbound[u] # <<>> => outbound'[u] # <<>>
    <3> SUFFICES ASSUME NEW u \in Upstream, outbound[u] # <<>>,
                        outbound' = [outbound EXCEPT ![Candidate] = <<SetupConnection>>]
                 PROVE  outbound'[u] # <<>>
      BY <2>1
    <3>1. <<SetupConnection>> # <<>>
      OBVIOUS
    <3> QED
      BY <1>1, <3>1
  <2> QED
    BY <1>1, <2>1, <2>2 DEF HeldWrite, Writing
<1>10. CASE ShutdownTimeout
  BY <1>10 DEF ShutdownTimeout, HeldWrite
<1> QED
  BY <1>3, <1>4, <1>5, <1>6, <1>7, <1>8, <1>9, <1>10 DEF TasksNext

\* What a fallback waits for, short of fairness: each task start() waits for can read,
\* reading brings it closer, nothing sets it back, and besides the tasks it waits only
\* for writers inside write_frame, none of which is added. There are finitely many of
\* both, so weak fairness of the reading branches and the end of every write do the rest.
THEOREM AcknowledgementsCome == TasksSpec => []WaitedForCanRead /\ BacklogsOnlyShrink
<1> DEFINE Known == TaskTypes /\ CleanFallback /\ PlainTypes /\ QueueTypes /\ InUse /\ Flagged
           Inv == Known /\ AllDeaf /\ HeldWrite
<1>1. TasksInit => Inv
  <2> SUFFICES ASSUME TasksInit PROVE AllDeaf /\ HeldWrite
    BY InitPlain
  <2> QED
    BY DEF TasksInit, AllDeaf, HeldWrite
<1>2. Inv /\ [TasksNext]_tasksVars => Inv'
  <2> SUFFICES ASSUME Inv, [TasksNext]_tasksVars PROVE AllDeaf' /\ HeldWrite'
    BY NextPlain
  <2>1. CASE UNCHANGED tasksVars
    BY <2>1 DEF tasksVars, linkVars, AllDeaf, Live, HeldWrite, Writing
  <2> QED
    BY <2>1, DeafSteps, HeldSteps
<1>3. Inv => WaitedForCanRead
  <2> SUFFICES ASSUME Inv, main = "acknowledging"
               PROVE  \A r \in Task : Backlog(r) # 0 => Lags(r) \/ Hears(r, {UpstreamFallback})
    BY DEF WaitedForCanRead, HeldWrite
  <2> TAKE r \in Task
  <2> HAVE Backlog(r) # 0
  <2>1. Live(r) /\ unread[r] \in {"message", "lag"}
    BY DEF TaskTypes, Backlog
  <2>2. notice = UpstreamFallback
    BY DEF CleanFallback, FallbackIsHeard
  <2> QED
    BY <2>1, <2>2 DEF Lags, Hears
<1>4. Inv /\ [TasksNext]_tasksVars => [Shrinks]_tasksVars
  BY BacklogSteps, HeldSteps DEF Shrinks
<1> HIDE DEF Inv
<1>5. TasksSpec => []WaitedForCanRead
  BY <1>1, <1>2, <1>3, PTL DEF TasksSpec
<1>6. TasksSpec => BacklogsOnlyShrink
  BY <1>1, <1>2, <1>4, PTL DEF TasksSpec, BacklogsOnlyShrink
<1> QED
  BY <1>5, <1>6

=============================================================================
