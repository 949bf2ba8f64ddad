---------------------- MODULE JdcChannelManagerProofs ----------------------
(***************************************************************************)
(* Proofs about JdcChannelManager, for any number of miners, channels,     *)
(* templates, requests, prefixes, fallbacks and pools.                     *)
(***************************************************************************)
EXTENDS JdcChannelManager, FiniteSetTheorems, SequenceTheorems, WellFoundedInduction, TLAPS

PoolRequest ==
  [type : {"open"}, for : 0..MaxPool, answered : BOOLEAN]
    \cup [type : {"custom"}, for : 0..MaxPool, answered : BOOLEAN, request_id : RequestId,
          template : Template, prev_hash : Template \cup {NoTemplate}]
JdsRequest ==
  [type : {"allocate"}, for : 0..MaxPool, answered : BOOLEAN]
    \cup [type : {"declare"}, for : 0..MaxPool, answered : BOOLEAN, request_id : RequestId,
          template : Template]

\* What the types leave out: reports are bounded together with those acted upon, and
\* a connection whose channel id factory is at 0 is not in the map.
Ranges ==
  /\ fallbacks + report <= MaxReport
  /\ built_on \in Seq(Template)
  /\ \A d \in DownstreamId : downstream[d].next = 0 => downstream[d] = NoData

\* Answers that outlive their pool are there only between the manager's fallback
\* and the next pool.
Idle(p, m) == p = Solo /\ m # "serving"

\* How the main loop, the pool and the manager's state go together.
Phases ==
  /\ main = "falling_back" <=> unacked # {}
  /\ pool # Solo => /\ main # "initializing"
                    /\ main = "falling_back" => "channel_manager" \in unacked
                    /\ pool <= used
  /\ pool = Solo \/ main # "serving" => jd_mode = "SoloMining"
  /\ pool = Solo /\ main = "serving" => upstream_state = "SoloMining"

\* Requests that may be in a queue: made for a pool already tried, and answered
\* only in the time for it.
Asked(S, u, idle) == {r \in S : r.for <= u /\ (r.answered => idle)}

Queues ==
  /\ to_pool \in Seq(Asked(PoolRequest, used, Idle(pool, main)))
  /\ to_jds \in Seq(Asked(JdsRequest, used, Idle(pool, main)))

\* Without a pool nothing is stored that an answer could find, and a template whose
\* transactions were asked for is not stored any more.
NothingStored ==
  /\ \A t \in template_store : t <= Len(built_on)
  /\ \A i \in DOMAIN tx_requests : tx_requests[i] <= Len(built_on)
  /\ pool = Solo =>
       /\ last_declare_job_store = {}
       /\ \A t \in Template : template_id_to_upstream_job_id[t] = NoJob
       /\ \A i \in DOMAIN tx_requests : tx_requests[i] \notin template_store

\* A request id names one template, in the store and in the requests to the pool
\* in use.
Matches(p, n, jobs) ==
  {r \in PoolRequest : r.type = "custom" /\ r.for = p /\ p # Solo =>
     /\ r.request_id < n
     /\ \A j \in jobs : j.request_id = r.request_id => j.template = r.template}
Identified ==
  /\ \A j \in last_declare_job_store : j.request_id < request_id_factory
  /\ \A j, k \in last_declare_job_store :
       j.request_id = k.request_id => j.template = k.template
  /\ to_pool \in Seq(Matches(pool, request_id_factory, last_declare_job_store))

\* The pool in use knows the jobs the manager has ids for.
Exact ==
  pool # Solo =>
    \A t \in Template :
      template_id_to_upstream_job_id[t] # NoJob =>
        /\ template_id_to_upstream_job_id[t] \in DOMAIN pool_jobs
        /\ pool_jobs[template_id_to_upstream_job_id[t]] = t

\* The last future template is the last template while its prevhash is due, and the
\* one of the tip otherwise.
Announced ==
  /\ last_future_template <= Len(built_on) /\ last_new_prev_hash <= Len(built_on)
  /\ IF prev_hash_due
     THEN /\ last_future_template = Len(built_on) /\ last_future_template # NoTemplate
          /\ last_new_prev_hash # last_future_template
     ELSE last_future_template = last_new_prev_hash

\* The channels of one miner: each waits for the prevhash that is due, or is on the tip.
OnTip(data, due, future, tip) ==
  \A c \in OpenChannels(data) :
    IF due THEN data.channels[c].future = future ELSE data.channels[c].tip = tip

\* The jobs of one miner's channels are in the table.
Entered(d, data, jobs) ==
  \A c \in OpenChannels(data) :
    LET channel == data.channels[c] IN
      ~(channel.kind = "standard" /\ data.group) =>
        /\ channel.active \in Template /\ <<d, c, channel.active>> \in jobs
        /\ channel.future # NoTemplate => <<d, c, channel.future>> \in jobs

Channels ==
  \A d \in DownstreamId :
    /\ OnTip(downstream[d], prev_hash_due, last_future_template, last_new_prev_hash)
    /\ Entered(d, downstream[d], job_to_template)

\* The inductive invariant.
IInv ==
  /\ TypeOK /\ Ranges /\ Phases /\ Queues /\ NothingStored /\ Identified /\ Exact
  /\ Announced /\ Channels

-----------------------------------------------------------------------------
(* Opening channels.                                                        *)

\* A connection while requests are processed; the channel id factory is checked
\* against its bound at the end.
WideData == [next : Nat, require_std_job : BOOLEAN, group : BOOLEAN,
             channels : [ChannelId -> Channel]]
Table == [downstream : [DownstreamId -> WideData],
          job_to_template : SUBSET (DownstreamId \X Nat \X Template),
          prefix : Prefix \cup {OwnPrefix}, result : {"ok", "failed", "prevhash"}]
Request == [downstream_id : DownstreamId, kind : {"standard", "extended"}, granted : BOOLEAN]

\* What holds of the tables after every request.
Sound(s) ==
  /\ s \in Table
  /\ \A d \in DownstreamId : s.downstream[d].next = 0 => s.downstream[d] = NoData
  /\ \A e \in s.job_to_template :
       e[2] \in ChannelId \/ s.downstream[e[1]].next > MaxChannelId + 1
  /\ \A d \in DownstreamId :
       /\ OnTip(s.downstream[d], prev_hash_due, last_future_template, last_new_prev_hash)
       /\ Entered(d, s.downstream[d], s.job_to_template)

LEMMA NoDataWide == NoData \in WideData /\ Closed \in Channel
BY DEF NoData, WideData, Closed, Channel

LEMMA WithGroupWide ==
  ASSUME NEW data \in WideData, NEW kind \in {"standard", "extended"}
  PROVE  LET with == WithGroup(data, kind) IN
           /\ with \in WideData /\ with.channels = data.channels
           /\ with.next >= data.next /\ (data.group => with.group)
           /\ kind = "standard" /\ ~data.require_std_job => with.group
<1>1. /\ data.next \in Nat /\ data.require_std_job \in BOOLEAN /\ data.group \in BOOLEAN
      /\ data.channels \in [ChannelId -> Channel]
  BY DEF WideData
<1>2. CASE kind = "standard" /\ ~data.require_std_job /\ ~data.group
  <2>1. WithGroup(data, kind) = [data EXCEPT !.group = TRUE, !.next = @ + 1]
    BY <1>2 DEF WithGroup
  <2>4. [data EXCEPT !.group = TRUE] \in WideData
    BY <1>1 DEF WideData
  <2>5. [data EXCEPT !.group = TRUE].next = data.next
    BY <1>1 DEF WideData
  <2>6. \A w \in WideData : [w EXCEPT !.next = @ + 1] \in WideData
    BY DEF WideData
  <2>2. [data EXCEPT !.group = TRUE, !.next = @ + 1] \in WideData
    BY <2>4, <2>6, Zenon
  <2>3. LET with == [data EXCEPT !.group = TRUE, !.next = @ + 1] IN
          with.channels = data.channels /\ with.next = data.next + 1 /\ with.group
    BY <1>1 DEF WideData
  <2> QED
    BY <1>1, <2>1, <2>2, <2>3
<1>3. CASE ~(kind = "standard" /\ ~data.require_std_job /\ ~data.group)
  BY <1>1, <1>3 DEF WithGroup
<1> QED
  BY <1>2, <1>3

\* One more channel in a connection, on the tip and with its job in the table.
LEMMA ChannelEntered ==
  ASSUME NEW d, NEW data \in WideData, NEW old \in WideData, NEW c \in ChannelId,
         NEW jobs, NEW opened \in Channel, NEW due \in BOOLEAN, NEW future, NEW tip,
         Entered(d, old, jobs), OnTip(old, due, future, tip),
         old.group => data.group,
         data.channels = [old.channels EXCEPT ![c] = opened],
         opened.future = NoTemplate, opened.active \in Template,
         <<d, c, opened.active>> \in jobs, ~due, opened.tip = tip
  PROVE  Entered(d, data, jobs) /\ OnTip(data, due, future, tip)
<1>1. /\ old.channels \in [ChannelId -> Channel] /\ data.channels \in [ChannelId -> Channel]
      /\ old.group \in BOOLEAN /\ data.group \in BOOLEAN
  BY DEF WideData
<1>2. \A k \in ChannelId : data.channels[k] = IF k = c THEN opened ELSE old.channels[k]
  BY <1>1
<1>3. Entered(d, data, jobs)
  <2> SUFFICES ASSUME NEW k \in OpenChannels(data),
                      ~(data.channels[k].kind = "standard" /\ data.group)
               PROVE  /\ data.channels[k].active \in Template
                      /\ <<d, k, data.channels[k].active>> \in jobs
                      /\ data.channels[k].future # NoTemplate
                           => <<d, k, data.channels[k].future>> \in jobs
    BY DEF Entered
  <2>1. CASE k = c
    BY <1>2, <2>1 DEF OpenChannels
  <2>2. CASE k # c
    <3>1. data.channels[k] = old.channels[k] /\ k \in OpenChannels(old)
      BY <1>2, <2>2 DEF OpenChannels
    <3> QED
      BY <1>1, <3>1 DEF Entered
  <2> QED
    BY <2>1, <2>2
<1>4. OnTip(data, due, future, tip)
  BY <1>2 DEF OnTip, OpenChannels
<1> QED
  BY <1>3, <1>4

\* Tables change without a new channel.
LEMMA StillEntered ==
  ASSUME NEW d, NEW data \in WideData, NEW old \in WideData, NEW jobs, NEW more,
         NEW due \in BOOLEAN, NEW future, NEW tip,
         Entered(d, old, jobs), OnTip(old, due, future, tip), jobs \subseteq more,
         old.group => data.group, data.channels = old.channels
  PROVE  Entered(d, data, more) /\ OnTip(data, due, future, tip)
<1>1. old.group \in BOOLEAN /\ data.group \in BOOLEAN
  BY DEF WideData
<1>2. OpenChannels(data) = OpenChannels(old)
  BY DEF OpenChannels
<1>3. Entered(d, data, more)
  BY <1>1, <1>2 DEF Entered
<1>4. OnTip(data, due, future, tip)
  BY <1>2 DEF OnTip
<1> QED
  BY <1>3, <1>4

\* A channel opens only on the tip, with its job in the table.
LEMMA OpenedSound ==
  ASSUME TypeOK, Announced, NEW s, Sound(s), NEW r \in Request
  PROVE  Sound(OpenChannel(s, r))
<1> USE JdcBounds
<1> DEFINE d == r.downstream_id
           old == s.downstream[d]
           data == WithGroup(old, r.kind)
           c == data.next
           next == [data EXCEPT !.next = c + 1]
           spent == [s EXCEPT !.downstream[d] = next]
           opened == OpenedChannel(r.kind, s.prefix)
           with == [next EXCEPT !.channels[c] = opened]
           granted == [spent EXCEPT
                         !.downstream[d].channels[c] = opened,
                         !.job_to_template = @ \cup {<<d, c, last_future_template>>}]
<1>1. /\ s \in Table /\ d \in DownstreamId /\ old \in WideData
      /\ r.kind \in {"standard", "extended"} /\ r.granted \in BOOLEAN
      /\ s.downstream \in [DownstreamId -> WideData] /\ s.prefix \in Prefix \cup {OwnPrefix}
      /\ s.job_to_template \in SUBSET (DownstreamId \X Nat \X Template)
      /\ prev_hash_due \in BOOLEAN
  BY DEF Sound, Table, Request, TypeOK
<1>2. /\ data \in WideData /\ data.channels = old.channels
      /\ data.next >= old.next /\ (old.group => data.group)
  BY <1>1, WithGroupWide
<1>3. next \in WideData /\ next.channels = old.channels /\ next.next = c + 1
      /\ next.group = data.group /\ c \in Nat /\ next.next > old.next
      /\ old.next \in Nat
  <2> HIDE DEF data, old
  <2> QED
    BY <1>1, <1>2 DEF WideData
<1> HIDE DEF data, old, d
<1>5. ASSUME NEW x \in {"failed", "prevhash"}
      PROVE  Sound([s EXCEPT !.result = x])
  BY <1>1 DEF Sound, Table
<1>6. ASSUME old # NoData
      PROVE  Sound(spent)
  <2>1. spent \in Table /\ spent.job_to_template = s.job_to_template
        /\ spent.downstream = [s.downstream EXCEPT ![d] = next]
    <3> HIDE DEF next
    <3> QED
      BY <1>1, <1>3 DEF Table
  <2> HIDE DEF next, spent
  <2>2. \A k \in DownstreamId : spent.downstream[k] = IF k = d THEN next ELSE s.downstream[k]
    BY <1>1, <2>1
  <2>3. old = s.downstream[d]
    BY DEF old
  <2>4. \A k \in DownstreamId : spent.downstream[k].next = 0 => spent.downstream[k] = NoData
    BY <1>1, <1>3, <2>2 DEF Sound
  <2>5. \A e \in spent.job_to_template :
          e[2] \in ChannelId \/ spent.downstream[e[1]].next > MaxChannelId + 1
    BY <1>1, <1>3, <2>1, <2>2, <2>3 DEF Sound
  <2>6. ASSUME NEW k \in DownstreamId
        PROVE  /\ Entered(k, spent.downstream[k], spent.job_to_template)
               /\ OnTip(spent.downstream[k], prev_hash_due, last_future_template,
                        last_new_prev_hash)
    <3>1. CASE k = d
      <4>1. Entered(d, old, s.job_to_template)
            /\ OnTip(old, prev_hash_due, last_future_template, last_new_prev_hash)
        BY <1>1, <2>3 DEF Sound
      <4>2. old.group => next.group
        BY <1>2, <1>3
      <4>3. /\ Entered(d, next, s.job_to_template)
            /\ OnTip(next, prev_hash_due, last_future_template, last_new_prev_hash)
        BY <1>1, <1>2, <1>3, <4>1, <4>2, StillEntered
      <4> QED
        BY <2>1, <2>2, <3>1, <4>3
    <3>2. CASE k # d
      BY <2>1, <2>2, <3>2 DEF Sound
    <3> QED
      BY <3>1, <3>2
  <2> QED
    BY <2>1, <2>4, <2>5, <2>6 DEF Sound
<1>7. ASSUME last_future_template # NoTemplate, old # NoData, ~prev_hash_due
      PROVE  Sound(granted)
  <2>1. Sound(spent)
    BY <1>6, <1>7
  <2>2. /\ opened \in Channel /\ opened.kind = r.kind /\ opened.future = NoTemplate
        /\ opened.active = last_future_template /\ last_future_template \in Template
        /\ opened.tip = last_new_prev_hash
    <3>1. /\ last_future_template \in Template \cup {NoTemplate}
          /\ last_new_prev_hash \in Template \cup {NoTemplate}
      BY DEF TypeOK
    <3> QED
      BY <1>1, <1>7, <3>1 DEF OpenedChannel, Channel
  <2> HIDE DEF next, opened
  <2>3. /\ with \in WideData /\ with.next = c + 1 /\ with.group = next.group
        /\ c \in ChannelId => with.channels = [next.channels EXCEPT ![c] = opened]
        /\ c \notin ChannelId => with.channels = next.channels
    BY <1>3, <2>2 DEF WideData
  <2>4. /\ granted \in Table /\ granted.downstream = [s.downstream EXCEPT ![d] = with]
        /\ granted.job_to_template = s.job_to_template \cup {<<d, c, last_future_template>>}
    <3>1. /\ spent \in Table /\ spent.downstream = [s.downstream EXCEPT ![d] = next]
          /\ spent.job_to_template = s.job_to_template
      BY <1>1, <1>3 DEF Table
    <3>2. <<d, c, last_future_template>> \in DownstreamId \X Nat \X Template
      BY <1>1, <1>3, <2>2
    <3>3. [spent.downstream EXCEPT ![d].channels[c] = opened]
            = [s.downstream EXCEPT ![d] = with]
      BY <1>1, <3>1
    <3> HIDE DEF spent, with
    <3>4. /\ [spent EXCEPT !.downstream[d].channels[c] = opened].downstream
               = [s.downstream EXCEPT ![d] = with]
          /\ [spent EXCEPT !.downstream[d].channels[c] = opened] \in Table
          /\ [spent EXCEPT !.downstream[d].channels[c] = opened].job_to_template
               = s.job_to_template
      BY <1>1, <2>3, <3>1, <3>3 DEF Table
    <3>5. \A u \in Table : LET v == [u EXCEPT !.job_to_template =
                                        @ \cup {<<d, c, last_future_template>>}] IN
            /\ v \in Table /\ v.downstream = u.downstream
            /\ v.job_to_template = u.job_to_template \cup {<<d, c, last_future_template>>}
      BY <3>2 DEF Table
    <3> DEFINE u == [spent EXCEPT !.downstream[d].channels[c] = opened]
    <3>6. granted = [u EXCEPT !.job_to_template = @ \cup {<<d, c, last_future_template>>}]
      OBVIOUS
    <3>7. /\ u \in Table /\ u.downstream = [s.downstream EXCEPT ![d] = with]
          /\ u.job_to_template = s.job_to_template
      BY <3>4
    <3> HIDE DEF granted, u
    <3> QED
      BY <3>5, <3>6, <3>7
  <2> HIDE DEF with, granted, c
  <2>5. \A k \in DownstreamId : granted.downstream[k] = IF k = d THEN with ELSE s.downstream[k]
    BY <1>1, <2>4
  <2>6. old = s.downstream[d] /\ old.next # 0 /\ c >= old.next /\ c # 0
    <3>1. old = s.downstream[d] /\ c >= old.next
      BY <1>2 DEF old, c
    <3> QED
      BY <1>1, <1>3, <1>7, <3>1 DEF Sound
  <2>7. \A k \in DownstreamId : granted.downstream[k].next = 0 => granted.downstream[k] = NoData
    BY <1>3, <2>3, <2>5 DEF Sound
  <2>8. ASSUME NEW e \in granted.job_to_template
        PROVE  e[2] \in ChannelId \/ granted.downstream[e[1]].next > MaxChannelId + 1
    <3>1. CASE e = <<d, c, last_future_template>>
      <4>1. e[1] = d /\ e[2] = c
        BY <3>1
      <4>2. granted.downstream[e[1]].next = c + 1
        BY <1>1, <2>3, <2>5, <4>1
      <4> QED
        BY <1>3, <2>6, <4>1, <4>2 DEF ChannelId
    <3>2. CASE e \in s.job_to_template
      <4>1. e[1] \in DownstreamId
        BY <1>1, <3>2
      <4>2. e[2] \in ChannelId \/ s.downstream[e[1]].next > MaxChannelId + 1
        BY <3>2 DEF Sound
      <4> QED
        BY <1>1, <1>3, <2>3, <2>5, <2>6, <4>1, <4>2
    <3> QED
      BY <2>4, <3>1, <3>2
  <2>9. ASSUME NEW k \in DownstreamId
        PROVE  /\ Entered(k, granted.downstream[k], granted.job_to_template)
               /\ OnTip(granted.downstream[k], prev_hash_due, last_future_template,
                        last_new_prev_hash)
    <3>1. /\ Entered(k, s.downstream[k], s.job_to_template)
          /\ OnTip(s.downstream[k], prev_hash_due, last_future_template, last_new_prev_hash)
          /\ s.downstream[k] \in WideData
      BY <1>1 DEF Sound
    <3>2. CASE k # d
      BY <1>1, <2>4, <2>5, <3>1, <3>2, StillEntered
    <3>5. /\ Entered(d, old, s.job_to_template)
          /\ OnTip(old, prev_hash_due, last_future_template, last_new_prev_hash)
      BY <1>1, <2>6 DEF Sound
    <3>6. s.job_to_template \subseteq granted.job_to_template
      BY <2>4
    <3>3. CASE k = d /\ c \notin ChannelId
      <4>1. with.channels = old.channels /\ (old.group => with.group)
        BY <1>2, <1>3, <2>3, <3>3
      <4>2. /\ Entered(d, with, granted.job_to_template)
            /\ OnTip(with, prev_hash_due, last_future_template, last_new_prev_hash)
        <5>1. with \in WideData
          BY <2>3
        <5>2. old \in WideData /\ prev_hash_due \in BOOLEAN
          BY <1>1
        <5>3. OnTip(with, prev_hash_due, last_future_template, last_new_prev_hash)
          BY <3>5, <3>6, <4>1, <5>1, <5>2, StillEntered
        <5>4. Entered(d, with, granted.job_to_template)
          BY <3>5, <3>6, <4>1, <5>1, <5>2, StillEntered
        <5> QED
          BY <5>3, <5>4
      <4> QED
        BY <2>5, <3>3, <4>2
    <3>4. CASE k = d /\ c \in ChannelId
      <4>1. with.channels = [old.channels EXCEPT ![c] = opened] /\ (old.group => with.group)
        BY <1>2, <1>3, <2>3, <3>4
      <4>3. Entered(d, old, granted.job_to_template)
            /\ OnTip(old, prev_hash_due, last_future_template, last_new_prev_hash)
        BY <1>1, <3>5, <3>6, StillEntered
      <4>4. <<d, c, opened.active>> \in granted.job_to_template
        BY <2>2, <2>4
      <4>2. /\ Entered(d, with, granted.job_to_template)
            /\ OnTip(with, prev_hash_due, last_future_template, last_new_prev_hash)
        <5>1. /\ opened \in Channel /\ opened.future = NoTemplate /\ opened.active \in Template
              /\ opened.tip = last_new_prev_hash
          BY <2>2
        <5>2. c \in ChannelId /\ ~prev_hash_due
          BY <1>7, <3>4
        <5> QED
          <6>1. with \in WideData
            BY <2>3
          <6>2. old \in WideData /\ prev_hash_due \in BOOLEAN
            BY <1>1
          <6> QED
            BY <4>1, <4>3, <4>4, <5>1, <5>2, <6>1, <6>2, ChannelEntered
      <4> QED
        BY <2>5, <3>4, <4>2
    <3> QED
      BY <3>2, <3>3, <3>4
  <2> QED
    BY <2>4, <2>7, <2>8, <2>9 DEF Sound
<1>8. CASE s.result # "ok"
  BY <1>8 DEF OpenChannel
<1>9. CASE s.result = "ok"
  <2>1. \/ OpenChannel(s, r) = [s EXCEPT !.result = "failed"]
        \/ OpenChannel(s, r) = [s EXCEPT !.result = "prevhash"]
        \/ /\ last_future_template # NoTemplate /\ old # NoData
           /\ r.granted => last_future_template = last_new_prev_hash
           /\ OpenChannel(s, r) = IF r.granted THEN granted ELSE spent
    BY <1>9, Zenon DEF OpenChannel, PrevHashFails, old, data, d
  <2>2. last_future_template = last_new_prev_hash => ~prev_hash_due
    BY DEF Announced
  <2> HIDE DEF granted, spent
  <2> QED
    BY <1>5, <1>6, <1>7, <2>1, <2>2
<1> QED
  BY <1>8, <1>9

LEMMA LeastNumber ==
  ASSUME NEW T \in SUBSET Nat, T # {}
  PROVE  \E n \in T : \A k \in T : n <= k
<1> DEFINE less == {pair \in Nat \X Nat : pair[1] < pair[2]}
<1>1. IsWellFoundedOn(less, Nat)
  BY NatLessThanWellFounded, Zenon DEF OpToRel
<1>2. PICK n \in T : \A k \in T : <<k, n>> \notin less
  <2> HIDE DEF less
  <2> QED
    BY <1>1, WFMin
<1>3. \A k \in T : ~(k < n)
  BY <1>2
<1> QED
  BY <1>2, <1>3

\* Induction over an initial segment, by the least number left out.
LEMMA Segment ==
  ASSUME NEW n \in Nat, NEW T, 0 \in T, \A i \in 0..n : i # n /\ i \in T => i + 1 \in T
  PROVE  \A i \in 0..n : i \in T
<1> DEFINE left == (0..n) \ T
<1> SUFFICES ASSUME left # {} PROVE FALSE
  OBVIOUS
<1>1. PICK k \in left : \A i \in left : k <= i
  <2>1. left \in SUBSET Nat
    OBVIOUS
  <2> HIDE DEF left
  <2> QED
    BY <2>1, LeastNumber
<1>2. k \in 0..n /\ k # 0 /\ k \notin T
  BY <1>1
<1>3. k - 1 \in 0..n /\ k - 1 # n /\ k - 1 \in T
  BY <1>1, <1>2
<1> QED
  BY <1>2, <1>3

\* The tables after i of the waiting requests.
Waiting(f, n, prefix, granted) ==
  f = [i \in 0..n |->
         IF i = 0 THEN Tables(prefix)
         ELSE OpenChannel(f[i - 1], Judged(pending_downstream_requests[i], granted[i]))]

LEMMA WaitingExists ==
  ASSUME NEW n \in Nat, NEW prefix, NEW granted
  PROVE  \E f : Waiting(f, n, prefix, granted)
<1> DEFINE done == {i \in 0..n : \E f : Waiting(f, i, prefix, granted)}
<1>1. 0 \in done
  <2> DEFINE f == [i \in 0..0 |-> Tables(prefix)]
  <2>1. Waiting(f, 0, prefix, granted)
    BY DEF Waiting
  <2> QED
    BY <2>1
<1>2. ASSUME NEW m \in 0..n, m # n, m \in done
      PROVE  m + 1 \in done
  <2>1. PICK f : Waiting(f, m, prefix, granted)
    BY <1>2
  <2> DEFINE g == [i \in 0..(m + 1) |->
                     IF i = 0 THEN Tables(prefix)
                     ELSE OpenChannel(f[i - 1],
                                      Judged(pending_downstream_requests[i], granted[i]))]
  <2>2. \A i \in 0..m : g[i] = f[i]
    BY <2>1 DEF Waiting
  <2>3. \A i \in 0..(m + 1) : i # 0 => g[i - 1] = f[i - 1]
    <3> HIDE DEF g
    <3> QED
      BY <2>2
  <2>4. Waiting(g, m + 1, prefix, granted)
    BY <2>3 DEF Waiting
  <2> QED
    BY <1>2, <2>4
<1>3. \A i \in 0..n : i \in done
  <2> HIDE DEF done
  <2> QED
    BY <1>1, <1>2, Segment
<1> QED
  BY <1>3

\* The requests that wait for the upstream channel open channels on the tip, too.
LEMMA WaitingSound ==
  ASSUME TypeOK, Announced, NEW prefix, Sound(Tables(prefix)),
         NEW granted \in [DOMAIN pending_downstream_requests -> BOOLEAN]
  PROVE  Sound(OpenWaiting(prefix, granted))
<1> DEFINE n == Len(pending_downstream_requests)
           after == CHOOSE f : Waiting(f, n, prefix, granted)
           sound == {i \in 0..n : Sound(after[i])}
<1>1. /\ n \in Nat /\ DOMAIN pending_downstream_requests = 1..n
      /\ \A i \in 1..n : pending_downstream_requests[i] \in OpenRequest
  BY DEF TypeOK
<1>2. OpenWaiting(prefix, granted) = after[n]
  BY DEF OpenWaiting, Waiting
<1> HIDE DEF n
<1>3. Waiting(after, n, prefix, granted)
  BY <1>1, WaitingExists
<1> HIDE DEF after
<1>4. 0 \in sound
  BY <1>1, <1>3 DEF Waiting
<1>5. ASSUME NEW i \in 0..n, i # n, i \in sound
      PROVE  i + 1 \in sound
  <2> DEFINE r == Judged(pending_downstream_requests[i + 1], granted[i + 1])
  <2>1. i + 1 \in 1..n /\ i + 1 \in 0..n /\ i + 1 # 0 /\ (i + 1) - 1 = i
    BY <1>1, <1>5
  <2>2. r \in Request
    BY <1>1, <2>1 DEF Judged, Request, OpenRequest
  <2>3. after[i + 1] = OpenChannel(after[i], r)
    BY <1>3, <2>1 DEF Waiting
  <2> HIDE DEF r
  <2>4. Sound(after[i + 1])
    BY <1>5, <2>2, <2>3, OpenedSound
  <2> QED
    BY <2>1, <2>4
<1>6. \A i \in 0..n : i \in sound
  <2> HIDE DEF sound
  <2> QED
    BY <1>1, <1>4, <1>5, Segment
<1> QED
  BY <1>1, <1>2, <1>6

-----------------------------------------------------------------------------
(* What a message of the pool or of the template provider does to the        *)
(* channels of one miner.                                                    *)

LEMMA ChannelsSet ==
  ASSUME NEW data \in DownstreamData, NEW f \in [ChannelId -> Channel]
  PROVE  LET with == [data EXCEPT !.channels = f] IN
           /\ with \in DownstreamData /\ with.channels = f
           /\ with.next = data.next /\ with.group = data.group
           /\ data = NoData /\ f = NoData.channels => with = NoData
BY DEF DownstreamData, NoData

\* A new extranonce prefix changes neither jobs nor tips.
LEMMA PrefixChannels ==
  ASSUME NEW data \in DownstreamData, NEW prefix \in Prefix,
         NEW d, NEW jobs, NEW due \in BOOLEAN, NEW future, NEW tip
  PROVE  LET with == Reprefixed(data, prefix) IN
           /\ with \in DownstreamData /\ with.next = data.next
           /\ data = NoData => with = NoData
           /\ OnTip(data, due, future, tip) => OnTip(with, due, future, tip)
           /\ Entered(d, data, jobs) => Entered(d, with, jobs)
<1> DEFINE f == [c \in ChannelId |-> IF data.channels[c].kind = "none" THEN data.channels[c]
                                     ELSE [data.channels[c] EXCEPT !.prefix = prefix]]
           with == [data EXCEPT !.channels = f]
<1>1. Reprefixed(data, prefix) = with
  BY DEF Reprefixed
<1>2. data.channels \in [ChannelId -> Channel] /\ data.group \in BOOLEAN
  BY DEF DownstreamData
<1>3. /\ f \in [ChannelId -> Channel]
      /\ \A c \in ChannelId :
           /\ f[c].kind = data.channels[c].kind /\ f[c].future = data.channels[c].future
           /\ f[c].active = data.channels[c].active /\ f[c].tip = data.channels[c].tip
  BY <1>2 DEF Channel
<1>4. data = NoData => f = NoData.channels
  BY DEF NoData, Closed
<1> HIDE DEF f
<1>5. /\ with \in DownstreamData /\ with.next = data.next /\ with.group = data.group
      /\ with.channels = f /\ (data = NoData => with = NoData)
  BY <1>3, <1>4, ChannelsSet
<1> HIDE DEF with
<1>6. OpenChannels(with) = OpenChannels(data)
  BY <1>3, <1>5 DEF OpenChannels
<1>7. \A c \in OpenChannels(data) : c \in ChannelId
  BY DEF OpenChannels
<1>8. OnTip(data, due, future, tip) => OnTip(with, due, future, tip)
  BY <1>3, <1>5, <1>6, <1>7 DEF OnTip
<1>9. Entered(d, data, jobs) => Entered(d, with, jobs)
  BY <1>3, <1>5, <1>6, <1>7 DEF Entered
<1> QED
  BY <1>1, <1>5, <1>8, <1>9

\* A template: as the future job of every channel, or as the active one on the tip.
LEMMA TemplateChannels ==
  ASSUME NEW data \in DownstreamData, NEW t \in Template, NEW future \in BOOLEAN,
         NEW d, NEW jobs, NEW more, NEW last, NEW tip,
         OnTip(data, FALSE, last, tip), Entered(d, data, jobs), jobs \subseteq more,
         \A c \in OpenChannels(data) :
           ~(data.channels[c].kind = "standard" /\ data.group) => <<d, c, t>> \in more
  PROVE  LET with == WithTemplate(data, t, future) IN
           /\ with \in DownstreamData /\ with.next = data.next
           /\ data = NoData => with = NoData
           /\ OnTip(with, future, IF future THEN t ELSE last, tip)
           /\ Entered(d, with, more)
<1> DEFINE f == [c \in ChannelId |->
                   IF data.channels[c].kind = "none" THEN data.channels[c]
                   ELSE IF future THEN [data.channels[c] EXCEPT !.future = t]
                        ELSE [data.channels[c] EXCEPT !.active = t]]
           with == [data EXCEPT !.channels = f]
<1>1. WithTemplate(data, t, future) = with
  BY DEF WithTemplate
<1>2. data.channels \in [ChannelId -> Channel] /\ data.group \in BOOLEAN
  BY DEF DownstreamData
<1>3. /\ f \in [ChannelId -> Channel]
      /\ \A c \in ChannelId :
           /\ f[c].kind = data.channels[c].kind /\ f[c].tip = data.channels[c].tip
           /\ f[c].kind # "none" =>
                IF future THEN f[c].future = t /\ f[c].active = data.channels[c].active
                ELSE f[c].active = t /\ f[c].future = data.channels[c].future
  BY <1>2 DEF Channel
<1>4. data = NoData => f = NoData.channels
  BY DEF NoData, Closed
<1> HIDE DEF f
<1>5. /\ with \in DownstreamData /\ with.next = data.next /\ with.group = data.group
      /\ with.channels = f /\ (data = NoData => with = NoData)
  BY <1>3, <1>4, ChannelsSet
<1> HIDE DEF with
<1>6. /\ OpenChannels(with) = OpenChannels(data)
      /\ \A c \in OpenChannels(data) : c \in ChannelId /\ f[c].kind # "none"
  BY <1>3, <1>5 DEF OpenChannels
<1>7. OnTip(with, future, IF future THEN t ELSE last, tip)
  BY <1>3, <1>5, <1>6 DEF OnTip
<1>8. Entered(d, with, more)
  BY <1>2, <1>3, <1>5, <1>6 DEF Entered
<1> QED
  BY <1>1, <1>5, <1>7, <1>8

\* The prevhash that was due: every channel of the miner works on the new tip.
LEMMA PrevHashChannels ==
  ASSUME NEW data \in DownstreamData, NEW t \in Template,
         NEW d, NEW jobs, NEW tip,
         OnTip(data, TRUE, t, tip), Entered(d, data, jobs)
  PROVE  LET with == WithPrevHash(data, t) IN
           /\ with \in DownstreamData /\ with.next = data.next
           /\ data = NoData => with = NoData
           /\ OnTip(with, FALSE, t, t)
           /\ Entered(d, with, jobs)
<1> DEFINE f == [c \in ChannelId |->
                   IF data.channels[c].kind # "none" /\ data.channels[c].future = t
                   THEN [data.channels[c] EXCEPT !.active = t, !.tip = t, !.future = NoTemplate]
                   ELSE data.channels[c]]
           with == [data EXCEPT !.channels = f]
<1>1. WithPrevHash(data, t) = with
  BY DEF WithPrevHash
<1>2. data.channels \in [ChannelId -> Channel] /\ data.group \in BOOLEAN
  BY DEF DownstreamData
<1>3. /\ f \in [ChannelId -> Channel]
      /\ \A c \in ChannelId :
           /\ f[c].kind = data.channels[c].kind
           /\ f[c].kind # "none" /\ data.channels[c].future = t =>
                f[c].active = t /\ f[c].tip = t /\ f[c].future = NoTemplate
  BY <1>2 DEF Channel
<1>4. data = NoData => f = NoData.channels
  BY DEF NoData, Closed
<1> HIDE DEF f
<1>5. /\ with \in DownstreamData /\ with.next = data.next /\ with.group = data.group
      /\ with.channels = f /\ (data = NoData => with = NoData)
  BY <1>3, <1>4, ChannelsSet
<1> HIDE DEF with
<1>6. /\ OpenChannels(with) = OpenChannels(data)
      /\ \A c \in OpenChannels(data) : /\ c \in ChannelId /\ f[c].kind # "none"
                                       /\ data.channels[c].future = t
  BY <1>3, <1>5 DEF OpenChannels, OnTip
<1>7. OnTip(with, FALSE, t, t)
  BY <1>3, <1>5, <1>6 DEF OnTip
<1>9. t # NoTemplate
  BY JdcBounds DEF Template, NoTemplate
<1>8. Entered(d, with, jobs)
  <2>1. \A c \in OpenChannels(data) :
          ~(data.channels[c].kind = "standard" /\ data.group) => <<d, c, t>> \in jobs
    BY <1>6, <1>9 DEF Entered
  <2> QED
    BY <1>3, <1>5, <1>6, <2>1 DEF Entered
<1> QED
  BY <1>1, <1>5, <1>7, <1>8

-----------------------------------------------------------------------------
(* The connections of miners: types and channels.                           *)

Connected ==
  /\ downstream \in [DownstreamId -> DownstreamData]
  /\ job_to_template \subseteq DownstreamId \X ChannelId \X Template
  /\ \A d \in DownstreamId : downstream[d].next = 0 => downstream[d] = NoData
  /\ Channels

connectedVars == <<downstream, job_to_template, prev_hash_due, last_future_template,
                   last_new_prev_hash>>

LEMMA TablesSound ==
  ASSUME Connected, NEW prefix \in Prefix \cup {OwnPrefix}
  PROVE  Sound(Tables(prefix))
<1> DEFINE s == Tables(prefix)
<1>1. s.downstream = downstream /\ s.job_to_template = job_to_template
  BY DEF Tables
<1>2. s \in Table
  <2>1. DownstreamData \subseteq WideData
    BY JdcBounds DEF DownstreamData, WideData
  <2>2. downstream \in [DownstreamId -> WideData]
    BY <2>1 DEF Connected
  <2>3. job_to_template \in SUBSET (DownstreamId \X Nat \X Template)
    BY JdcBounds DEF Connected, ChannelId
  <2> QED
    BY <2>2, <2>3 DEF Table, Tables
<1>3. \A e \in job_to_template : e[2] \in ChannelId
  BY DEF Connected
<1> QED
  BY <1>1, <1>2, <1>3 DEF Sound, Connected, Channels

\* A handler ends with the tables of its last request.
LEMMA AppliedConnected ==
  ASSUME NEW s, Sound(s), Apply(s),
         UNCHANGED <<prev_hash_due, last_future_template, last_new_prev_hash>>
  PROVE  Connected'
<1>1. downstream' = s.downstream /\ job_to_template' = s.job_to_template
  BY DEF Apply
<1>2. /\ s.downstream \in [DownstreamId -> WideData]
      /\ s.job_to_template \in SUBSET (DownstreamId \X Nat \X Template)
      /\ \A d \in DownstreamId : s.downstream[d].next <= MaxChannelId + 1
  BY DEF Sound, Table, Apply
<1>3. \A data \in WideData : data.next <= MaxChannelId + 1 => data \in DownstreamData
  BY JdcBounds DEF WideData, DownstreamData
<1>4. s.downstream \in [DownstreamId -> DownstreamData]
  BY <1>2, <1>3
<1>5. \A e \in s.job_to_template : e[2] \in ChannelId
  <2> SUFFICES ASSUME NEW e \in s.job_to_template PROVE e[2] \in ChannelId
    OBVIOUS
  <2>1. e[1] \in DownstreamId /\ s.downstream[e[1]].next \in Nat
    BY <1>2 DEF WideData
  <2>2. e[2] \in ChannelId \/ s.downstream[e[1]].next > MaxChannelId + 1
    BY DEF Sound
  <2> QED
    BY <1>2, <2>1, <2>2, JdcBounds
<1>6. s.job_to_template \subseteq DownstreamId \X ChannelId \X Template
  BY <1>2, <1>5
<1>7. \A d \in DownstreamId :
        /\ s.downstream[d].next = 0 => s.downstream[d] = NoData
        /\ OnTip(s.downstream[d], prev_hash_due', last_future_template', last_new_prev_hash')
        /\ Entered(d, s.downstream[d], s.job_to_template)
  BY DEF Sound
<1> QED
  BY <1>1, <1>4, <1>6, <1>7 DEF Connected, Channels

\* Both handlers that open channels.
LEMMA TablesApplied ==
  ASSUME TypeOK, Announced, Connected,
         \/ \E r \in OpenRequest : HandleOpenDirect(r)
         \/ HandleOpenExtendedMiningChannelSuccess
  PROVE  \E s : Sound(s) /\ Apply(s)
<1>1. ASSUME NEW r \in OpenRequest, HandleOpenDirect(r)
      PROVE  \E s : Sound(s) /\ Apply(s)
  <2>1. PICK granted \in BOOLEAN :
          Apply(OpenChannel(Tables(extranonce_prefix_factory), Judged(r, granted)))
    BY <1>1 DEF HandleOpenDirect
  <2>2. Judged(r, granted) \in Request
    BY DEF Judged, Request, OpenRequest
  <2>3. extranonce_prefix_factory \in Prefix \cup {OwnPrefix}
    BY DEF TypeOK
  <2>4. Sound(OpenChannel(Tables(extranonce_prefix_factory), Judged(r, granted)))
    BY <2>2, <2>3, TablesSound, OpenedSound
  <2> QED
    BY <2>1, <2>4
<1>2. CASE HandleOpenExtendedMiningChannelSuccess
  <2>1. PICK granted \in [DOMAIN pending_downstream_requests -> BOOLEAN] :
          Apply(OpenWaiting(next_prefix, granted))
    BY <1>2 DEF HandleOpenExtendedMiningChannelSuccess
  <2>2. Sound(Tables(next_prefix))
    BY <1>2, TablesSound DEF HandleOpenExtendedMiningChannelSuccess
  <2>3. Sound(OpenWaiting(next_prefix, granted))
    BY <2>2, WaitingSound
  <2> QED
    BY <2>1, <2>3
<1> QED
  BY <1>1, <1>2

\* A connection with no channels.
LEMMA Unopened ==
  ASSUME NEW data, data.channels = [c \in ChannelId |-> Closed],
         NEW d, NEW jobs, NEW due, NEW future, NEW tip
  PROVE  OnTip(data, due, future, tip) /\ Entered(d, data, jobs)
BY DEF OnTip, Entered, OpenChannels, Closed

LEMMA NoDataIs ==
  NoData \in DownstreamData /\ NoData.next = 0 /\ NoData.channels = [c \in ChannelId |-> Closed]
BY JdcBounds DEF NoData, DownstreamData, Channel, Closed

LEMMA ConnectedInit == Init => Connected
<1> SUFFICES ASSUME Init PROVE Connected
  OBVIOUS
<1>1. \A d \in DownstreamId : downstream[d] = NoData
  BY DEF Init
<1>2. downstream \in [DownstreamId -> DownstreamData] /\ job_to_template = {}
  BY NoDataIs DEF Init
<1>3. Channels
  BY <1>1, NoDataIs, Unopened DEF Channels
<1> QED
  BY <1>1, <1>2, <1>3 DEF Connected

\* Changes of one connection at a time.
LEMMA OneConnection ==
  ASSUME Connected, NEW d \in DownstreamId, NEW data \in DownstreamData, NEW jobs,
         downstream' = [downstream EXCEPT ![d] = data], job_to_template' = jobs,
         jobs \subseteq job_to_template,
         \A e \in job_to_template : e[1] # d => e \in jobs,
         data.next = 0 => data = NoData,
         OnTip(data, prev_hash_due, last_future_template, last_new_prev_hash),
         Entered(d, data, jobs),
         UNCHANGED <<prev_hash_due, last_future_template, last_new_prev_hash>>
  PROVE  Connected'
<1>1. /\ downstream \in [DownstreamId -> DownstreamData]
      /\ job_to_template \subseteq DownstreamId \X ChannelId \X Template
  BY DEF Connected
<1>2. downstream' \in [DownstreamId -> DownstreamData]
  BY <1>1
<1>3. \A k \in DownstreamId : downstream'[k] = IF k = d THEN data ELSE downstream[k]
  BY <1>1
<1>4. \A k \in DownstreamId : downstream'[k].next = 0 => downstream'[k] = NoData
  BY <1>3 DEF Connected
<1>5. ASSUME NEW k \in DownstreamId
      PROVE  /\ OnTip(downstream'[k], prev_hash_due, last_future_template, last_new_prev_hash)
             /\ Entered(k, downstream'[k], jobs)
  <2>1. CASE k = d
    BY <1>3, <2>1
  <2>2. CASE k # d
    <3>1. \A c \in ChannelId : \A t : <<k, c, t>> \in job_to_template => <<k, c, t>> \in jobs
      BY <2>2
    <3>2. Entered(k, downstream[k], jobs)
      BY <3>1 DEF Connected, Channels, Entered, OpenChannels
    <3> QED
      BY <1>3, <2>2, <3>2 DEF Connected, Channels
  <2> QED
    BY <2>1, <2>2
<1>6. Channels'
  BY <1>5 DEF Channels
<1> QED
  BY <1>1, <1>2, <1>4, <1>6 DEF Connected

\* A new template is appended to the templates, and nothing else.
LEMMA OneTemplate ==
  ASSUME TypeOK, Ranges, NEW future \in BOOLEAN, HandleNewTemplate(future)
  PROVE  /\ Len(built_on) \in Nat /\ Len(built_on) + 1 \in Template
         /\ built_on' \in Seq(Template) /\ Len(built_on') = Len(built_on) + 1
<1>1. built_on \in Seq(Template) /\ Len(built_on) < MaxTemplate
  BY DEF Ranges, HandleNewTemplate
<1>2. Len(built_on) \in Nat /\ Len(built_on) + 1 \in Template
  BY <1>1, LenProperties, JdcBounds DEF Template
<1>3. PICK e : /\ built_on' = Append(built_on, e)
               /\ e = IF future THEN Len(built_on) + 1 ELSE built_on[Len(built_on) + 1 - 1]
  BY DEF HandleNewTemplate
<1>4. future \/ Len(built_on) # 0
  BY <1>1, EmptySeq DEF HandleNewTemplate
<1>5. e \in Template
  <2>1. CASE future
    BY <1>2, <1>3, <2>1
  <2>2. CASE ~future
    <3>1. Len(built_on) + 1 - 1 \in 1..Len(built_on)
      BY <1>2, <1>4, <2>2
    <3> QED
      BY <1>1, <1>3, <2>2, <3>1, ElementOfSeq
  <2> QED
    BY <2>1, <2>2
<1> QED
  BY <1>1, <1>2, <1>3, <1>5, AppendProperties

LEMMA AnnouncedNext ==
  ASSUME TypeOK, Ranges, Announced, [Next]_vars
  PROVE  Announced'
<1>0. /\ last_future_template \in Nat /\ last_new_prev_hash \in Nat /\ Len(built_on) \in Nat
  BY JdcBounds, LenProperties DEF TypeOK, Ranges, Template, NoTemplate
<1>1. ASSUME NEW future \in BOOLEAN, HandleNewTemplate(future)
      PROVE  Announced'
  <2>1. /\ Len(built_on') = Len(built_on) + 1 /\ ~prev_hash_due
        /\ prev_hash_due' = future /\ last_new_prev_hash' = last_new_prev_hash
        /\ last_future_template' = IF future THEN Len(built_on) + 1 ELSE last_future_template
    BY <1>1, OneTemplate DEF HandleNewTemplate
  <2> QED
    BY <1>0, <1>1, <2>1 DEF Announced, NoTemplate
<1>2. CASE HandleSetNewPrevHash
  BY <1>0, <1>2 DEF HandleSetNewPrevHash, Announced
<1>3. ASSUME UNCHANGED <<built_on, prev_hash_due, last_future_template, last_new_prev_hash>>
      PROVE  Announced'
  BY <1>3 DEF Announced
<1>4. CASE MainStep
  BY <1>3, <1>4 DEF MainStep, InitializeJd, InitializeSolo, LoseUpstream, MainFallback,
     ListenerStops, CmFallback, streamVars, templateVars
<1>5. CASE DownstreamStep
  BY <1>3, <1>5 DEF DownstreamStep, AcceptDownstream, RemoveDownstream,
     HandleSubmitSharesExtended, HandleCloseChannel, HandleOpenFirst, HandleOpenPending,
     HandleOpenDirect, streamVars, templateVars
<1>6. CASE PoolStep
  BY <1>3, <1>6 DEF PoolStep, HandleOpenUnusable, HandleOpenExtendedMiningChannelSuccess,
     HandlePoolError, HandleCloseChannelUpstream, HandleSetExtranoncePrefix,
     HandleSetCustomMiningJobSuccess, streamVars, templateVars
<1>7. CASE JdsStep
  BY <1>3, <1>7 DEF JdsStep, HandleAllocateMiningJobTokenSuccess,
     HandleDeclareMiningJobSuccess, HandleDeclareMiningJobError, streamVars, templateVars
<1>8. CASE HandleRequestTxDataSuccess \/ HandleRequestTxDataError
  BY <1>3, <1>8 DEF HandleRequestTxDataSuccess, HandleRequestTxDataError, streamVars,
     templateVars
<1>9. CASE UNCHANGED vars
  BY <1>3, <1>9 DEF vars, streamVars, templateVars
<1> QED
  BY <1>1, <1>2, <1>4, <1>5, <1>6, <1>7, <1>8, <1>9 DEF Next, TemplateStep

LEMMA ConnectedNext ==
  ASSUME TypeOK, Ranges, Announced, Connected, [Next]_vars
  PROVE  Connected'
<1> USE JdcBounds
<1>0. /\ downstream \in [DownstreamId -> DownstreamData]
      /\ job_to_template \subseteq DownstreamId \X ChannelId \X Template
      /\ prev_hash_due \in BOOLEAN
      /\ \A d \in DownstreamId :
           /\ OnTip(downstream[d], prev_hash_due, last_future_template, last_new_prev_hash)
           /\ Entered(d, downstream[d], job_to_template)
           /\ downstream[d].next = 0 => downstream[d] = NoData
  BY DEF Connected, Channels, TypeOK
<1>1. CASE CmFallback
  <2>1. /\ downstream' = [d \in DownstreamId |-> NoData] /\ job_to_template' = {}
    BY <1>1 DEF CmFallback, ResetDownstream
  <2>2. \A d \in DownstreamId : downstream'[d] = NoData
    BY <2>1
  <2>3. downstream' \in [DownstreamId -> DownstreamData]
    BY <2>1, NoDataIs
  <2>4. Channels'
    BY <2>2, NoDataIs, Unopened DEF Channels
  <2> QED
    BY <2>1, <2>2, <2>3, <2>4 DEF Connected
<1>2. CASE AcceptDownstream
  <2> DEFINE d == downstream_id_factory
  <2>1. PICK std \in BOOLEAN :
          downstream' = [downstream EXCEPT
                           ![d] = [NoData EXCEPT !.next = 1, !.require_std_job = std]]
    BY <1>2 DEF AcceptDownstream
  <2> DEFINE data == [NoData EXCEPT !.next = 1, !.require_std_job = std]
  <2>2. /\ data \in DownstreamData /\ data.next = 1
        /\ data.channels = [c \in ChannelId |-> Closed]
    <3> DEFINE first == [NoData EXCEPT !.next = 1]
    <3>1. first \in DownstreamData /\ first.next = 1 /\ first.channels = NoData.channels
      BY NoDataIs DEF DownstreamData
    <3>2. \A w \in DownstreamData : LET v == [w EXCEPT !.require_std_job = std] IN
            v \in DownstreamData /\ v.next = w.next /\ v.channels = w.channels
      BY DEF DownstreamData
    <3>3. data = [first EXCEPT !.require_std_job = std]
      OBVIOUS
    <3> HIDE DEF data, first
    <3> QED
      BY <3>1, <3>2, <3>3, NoDataIs
  <2> HIDE DEF data
  <2>3. d \in DownstreamId /\ downstream' = [downstream EXCEPT ![d] = data]
    BY <1>2, <2>1 DEF AcceptDownstream, data
  <2>4. OnTip(data, prev_hash_due, last_future_template, last_new_prev_hash)
        /\ Entered(d, data, job_to_template)
    BY <2>2, Unopened
  <2>5. UNCHANGED <<job_to_template, prev_hash_due, last_future_template, last_new_prev_hash>>
    BY <1>2 DEF AcceptDownstream, streamVars, templateVars
  <2> HIDE DEF d
  <2>6. data.next = 0 => data = NoData
    BY <2>2
  <2> QED
    BY <2>2, <2>3, <2>4, <2>5, <2>6, OneConnection
<1>3. ASSUME NEW d \in DownstreamId, RemoveDownstream(d)
      PROVE  Connected'
  <2> DEFINE jobs == {e \in job_to_template : e[1] # d}
  <2>1. /\ downstream' = [downstream EXCEPT ![d] = NoData] /\ job_to_template' = jobs
        /\ UNCHANGED <<prev_hash_due, last_future_template, last_new_prev_hash>>
    BY <1>3 DEF RemoveDownstream, streamVars, templateVars
  <2>2. OnTip(NoData, prev_hash_due, last_future_template, last_new_prev_hash)
        /\ Entered(d, NoData, jobs)
    BY NoDataIs, Unopened
  <2>3. jobs \subseteq job_to_template /\ \A e \in job_to_template : e[1] # d => e \in jobs
    OBVIOUS
  <2> HIDE DEF jobs
  <2> QED
    BY <2>1, <2>2, <2>3, NoDataIs, OneConnection
<1>4. ASSUME NEW d \in DownstreamId, NEW c \in ChannelId, HandleCloseChannel(d, c)
      PROVE  Connected'
  <2> DEFINE data == [downstream[d] EXCEPT !.channels[c] = Closed]
  <2>1. /\ downstream' = [downstream EXCEPT ![d] = data] /\ downstream[d] # NoData
        /\ UNCHANGED <<job_to_template, prev_hash_due, last_future_template,
                       last_new_prev_hash>>
    BY <1>0, <1>4 DEF HandleCloseChannel, streamVars, templateVars, Known
  <2>2. downstream[d] \in DownstreamData
    BY <1>0
  <2>3. /\ data \in DownstreamData /\ data.next = downstream[d].next
        /\ data.group = downstream[d].group
        /\ data.channels = [downstream[d].channels EXCEPT ![c] = Closed]
        /\ downstream[d].channels \in [ChannelId -> Channel]
    BY <2>2, NoDataWide DEF DownstreamData
  <2> HIDE DEF data
  <2>4. \A k \in ChannelId : data.channels[k] = IF k = c THEN Closed ELSE downstream[d].channels[k]
    BY <2>3
  <2>5. OpenChannels(data) \subseteq OpenChannels(downstream[d]) \ {c}
    BY <2>4 DEF OpenChannels, Closed
  <2>6. \A k \in OpenChannels(data) : data.channels[k] = downstream[d].channels[k]
    BY <2>4, <2>5 DEF OpenChannels
  <2>7. OnTip(data, prev_hash_due, last_future_template, last_new_prev_hash)
    BY <1>0, <2>5, <2>6 DEF OnTip
  <2>8. Entered(d, data, job_to_template)
    BY <1>0, <2>3, <2>5, <2>6 DEF Entered
  <2>9. data.next # 0
    BY <1>0, <2>1, <2>3
  <2> QED
    BY <2>1, <2>3, <2>7, <2>8, <2>9, OneConnection
<1>5. ASSUME NEW r \in OpenRequest, HandleOpenDirect(r)
      PROVE  Connected'
  <2>1. PICK s : Sound(s) /\ Apply(s)
    BY <1>5, TablesApplied
  <2>2. UNCHANGED <<prev_hash_due, last_future_template, last_new_prev_hash>>
    BY <1>5 DEF HandleOpenDirect, streamVars, templateVars
  <2> QED
    BY <2>1, <2>2, AppliedConnected
<1>6. CASE HandleOpenExtendedMiningChannelSuccess
  <2>1. PICK s : Sound(s) /\ Apply(s)
    BY <1>6, TablesApplied
  <2>2. UNCHANGED <<prev_hash_due, last_future_template, last_new_prev_hash>>
    BY <1>6 DEF HandleOpenExtendedMiningChannelSuccess, streamVars, templateVars
  <2> QED
    BY <2>1, <2>2, AppliedConnected
<1>7. CASE HandleSetExtranoncePrefix
  <2>1. /\ downstream' = [d \in DownstreamId |-> Reprefixed(downstream[d], next_prefix)]
        /\ next_prefix \in Prefix
        /\ UNCHANGED <<job_to_template, prev_hash_due, last_future_template,
                       last_new_prev_hash>>
    BY <1>7 DEF HandleSetExtranoncePrefix, streamVars, templateVars
  <2>2. ASSUME NEW d \in DownstreamId
        PROVE  /\ downstream'[d] \in DownstreamData
               /\ downstream'[d].next = 0 => downstream'[d] = NoData
               /\ OnTip(downstream'[d], prev_hash_due, last_future_template, last_new_prev_hash)
               /\ Entered(d, downstream'[d], job_to_template)
    <3>1. downstream'[d] = Reprefixed(downstream[d], next_prefix)
      BY <2>1
    <3>2. downstream[d] \in DownstreamData
      BY <1>0
    <3> QED
      BY <1>0, <2>1, <3>1, <3>2, PrefixChannels
  <2>3. downstream' \in [DownstreamId -> DownstreamData]
    BY <2>1, <2>2
  <2>4. Channels'
    BY <2>1, <2>2 DEF Channels
  <2> QED
    BY <1>0, <2>1, <2>2, <2>3, <2>4 DEF Connected
<1>8. ASSUME NEW future \in BOOLEAN, HandleNewTemplate(future)
      PROVE  Connected'
  <2> DEFINE t == Len(built_on) + 1
             more == job_to_template \cup NewJobs(t)
  <2>1. /\ downstream' = [d \in DownstreamId |-> WithTemplate(downstream[d], t, future)]
        /\ job_to_template' = more /\ ~prev_hash_due /\ prev_hash_due' = future
        /\ last_future_template' = IF future THEN t ELSE last_future_template
        /\ UNCHANGED last_new_prev_hash
    BY <1>8 DEF HandleNewTemplate
  <2>2. t \in Template
    BY <1>8, OneTemplate
  <2>3. more \subseteq DownstreamId \X ChannelId \X Template
    BY <1>0, <2>2 DEF NewJobs
  <2>4. \A d \in DownstreamId : \A c \in OpenChannels(downstream[d]) :
          ~(downstream[d].channels[c].kind = "standard" /\ downstream[d].group)
            => <<d, c, t>> \in more
    <3> SUFFICES ASSUME NEW d \in DownstreamId, NEW c \in OpenChannels(downstream[d]),
                        ~(downstream[d].channels[c].kind = "standard" /\ downstream[d].group)
                 PROVE  <<d, c, t>> \in NewJobs(t)
      OBVIOUS
    <3>1. c \in ChannelId /\ downstream[d].channels[c].kind \in {"standard", "extended"}
      BY <1>0 DEF OpenChannels, DownstreamData, Channel
    <3>2. <<d, c, t>> \in DownstreamId \X ChannelId \X {t}
      BY <3>1
    <3> QED
      BY <3>1, <3>2 DEF NewJobs
  <2> HIDE DEF t
  <2>5. job_to_template \subseteq more
    OBVIOUS
  <2> HIDE DEF more
  <2>6. ASSUME NEW d \in DownstreamId
        PROVE  /\ downstream'[d] \in DownstreamData
               /\ downstream'[d].next = 0 => downstream'[d] = NoData
               /\ OnTip(downstream'[d], prev_hash_due', last_future_template',
                        last_new_prev_hash)
               /\ Entered(d, downstream'[d], more)
    <3>1. downstream'[d] = WithTemplate(downstream[d], t, future)
      BY <2>1
    <3>2. /\ downstream[d] \in DownstreamData /\ Entered(d, downstream[d], job_to_template)
          /\ OnTip(downstream[d], FALSE, last_future_template, last_new_prev_hash)
      BY <1>0, <2>1
    <3>4. \A c \in OpenChannels(downstream[d]) :
            ~(downstream[d].channels[c].kind = "standard" /\ downstream[d].group)
              => <<d, c, t>> \in more
      BY <2>4
    <3> DEFINE with == WithTemplate(downstream[d], t, future)
    <3>5. /\ with \in DownstreamData /\ with.next = downstream[d].next
          /\ downstream[d] = NoData => with = NoData
          /\ OnTip(with, future, IF future THEN t ELSE last_future_template,
                   last_new_prev_hash)
          /\ Entered(d, with, more)
      BY <2>2, <2>5, <3>2, <3>4, TemplateChannels
    <3>3. /\ downstream'[d] \in DownstreamData /\ downstream'[d].next = downstream[d].next
          /\ downstream[d] = NoData => downstream'[d] = NoData
          /\ OnTip(downstream'[d], future, IF future THEN t ELSE last_future_template,
                   last_new_prev_hash)
          /\ Entered(d, downstream'[d], more)
      BY <3>1, <3>5
    <3> QED
      BY <1>0, <2>1, <3>3
  <2>7. downstream' \in [DownstreamId -> DownstreamData]
    BY <2>1, <2>6
  <2>8. Channels'
    BY <2>1, <2>6 DEF Channels
  <2> QED
    BY <2>1, <2>3, <2>6, <2>7, <2>8 DEF Connected
<1>9. CASE HandleSetNewPrevHash
  <2> DEFINE t == last_future_template
  <2>1. /\ downstream' = [d \in DownstreamId |-> WithPrevHash(downstream[d], t)]
        /\ prev_hash_due /\ ~prev_hash_due' /\ last_new_prev_hash' = t
        /\ UNCHANGED <<job_to_template, last_future_template>>
    BY <1>9 DEF HandleSetNewPrevHash, Announced
  <2>2. t \in Template
    BY <2>1 DEF Announced, TypeOK
  <2>3. ASSUME NEW d \in DownstreamId
        PROVE  /\ downstream'[d] \in DownstreamData
               /\ downstream'[d].next = 0 => downstream'[d] = NoData
               /\ OnTip(downstream'[d], FALSE, t, t)
               /\ Entered(d, downstream'[d], job_to_template)
    <3>1. downstream'[d] = WithPrevHash(downstream[d], t)
      BY <2>1
    <3>2. /\ downstream[d] \in DownstreamData /\ Entered(d, downstream[d], job_to_template)
          /\ OnTip(downstream[d], TRUE, t, last_new_prev_hash)
      BY <1>0, <2>1
    <3>3. /\ downstream'[d] \in DownstreamData /\ downstream'[d].next = downstream[d].next
          /\ downstream[d] = NoData => downstream'[d] = NoData
          /\ OnTip(downstream'[d], FALSE, t, t)
          /\ Entered(d, downstream'[d], job_to_template)
      BY <2>2, <3>1, <3>2, PrevHashChannels
    <3> QED
      BY <1>0, <3>3
  <2>4. downstream' \in [DownstreamId -> DownstreamData]
    BY <2>1, <2>3
  <2>5. prev_hash_due' = FALSE
    BY <1>9 DEF HandleSetNewPrevHash
  <2>6. Channels'
    BY <2>1, <2>3, <2>5 DEF Channels
  <2> QED
    BY <1>0, <2>1, <2>3, <2>4, <2>6 DEF Connected
<1>10. ASSUME UNCHANGED connectedVars
       PROVE  Connected'
  BY <1>10 DEF connectedVars, Connected, Channels
<1>11. CASE MainStep
  BY <1>1, <1>10, <1>11 DEF MainStep, InitializeJd, InitializeSolo, LoseUpstream, MainFallback,
     ListenerStops, connectedVars, downstreamVars, streamVars, templateVars
<1>12. CASE DownstreamStep
  BY <1>2, <1>3, <1>4, <1>5, <1>10, <1>12 DEF DownstreamStep, HandleSubmitSharesExtended,
     HandleOpenFirst, HandleOpenPending, connectedVars, downstreamVars, streamVars, templateVars
<1>13. CASE PoolStep
  BY <1>6, <1>7, <1>10, <1>13 DEF PoolStep, HandleOpenUnusable, HandlePoolError,
     HandleCloseChannelUpstream, HandleSetCustomMiningJobSuccess, connectedVars,
     downstreamVars, streamVars, templateVars
<1>14. CASE JdsStep
  BY <1>10, <1>14 DEF JdsStep, HandleAllocateMiningJobTokenSuccess,
     HandleDeclareMiningJobSuccess, HandleDeclareMiningJobError, connectedVars,
     downstreamVars, streamVars, templateVars
<1>15. CASE HandleRequestTxDataSuccess \/ HandleRequestTxDataError
  BY <1>10, <1>15 DEF HandleRequestTxDataSuccess, HandleRequestTxDataError, connectedVars,
     downstreamVars, streamVars, templateVars
<1>16. CASE UNCHANGED vars
  BY <1>10, <1>16 DEF vars, connectedVars, downstreamVars, streamVars, templateVars
<1> QED
  BY <1>8, <1>9, <1>11, <1>12, <1>13, <1>14, <1>15, <1>16 DEF Next, TemplateStep

-----------------------------------------------------------------------------
(* The queues of requests.                                                  *)

\* What Answer says of the request at the head.
LEMMA PoolHead ==
  ASSUME Queues, NEW type, Answer(to_pool, type)
  PROVE  /\ Head(to_pool) \in PoolRequest /\ Head(to_pool).type = type
         /\ Head(to_pool).for <= used
         /\ Head(to_pool).answered <=> pool = Solo
         /\ pool # Solo \/ main # "serving"
         /\ Tail(to_pool) \in Seq(Asked(PoolRequest, used, Idle(pool, main)))
<1>1. /\ Head(to_pool) \in Asked(PoolRequest, used, Idle(pool, main))
      /\ Tail(to_pool) \in Seq(Asked(PoolRequest, used, Idle(pool, main)))
  BY HeadTailProperties DEF Queues, Answer
<1> QED
  BY <1>1 DEF Answer, Asked, Idle

LEMMA JdsHead ==
  ASSUME Queues, NEW type, Answer(to_jds, type)
  PROVE  /\ Head(to_jds) \in JdsRequest /\ Head(to_jds).type = type
         /\ Head(to_jds).for <= used
         /\ Head(to_jds).answered <=> pool = Solo
         /\ Tail(to_jds) \in Seq(Asked(JdsRequest, used, Idle(pool, main)))
<1>1. /\ Head(to_jds) \in Asked(JdsRequest, used, Idle(pool, main))
      /\ Tail(to_jds) \in Seq(Asked(JdsRequest, used, Idle(pool, main)))
  BY HeadTailProperties DEF Queues, Answer
<1> QED
  BY <1>1 DEF Answer, Asked, Idle

-----------------------------------------------------------------------------
(* The main loop.                                                           *)

MainTypes ==
  /\ main \in {"initializing", "serving", "falling_back"}
  /\ unacked \subseteq {"channel_manager", "listener"}
  /\ pool \in Pool \cup {Solo} /\ used \in 0..MaxPool /\ report \in 0..MaxReport
  /\ fallbacks \in 0..MaxReport
  /\ jd_mode \in {"SoloMining", "CoinbaseOnly", "FullTemplate"}
  /\ upstream_state \in {"NoChannel", "Pending", "Connected", "SoloMining"}
  /\ cm_exit \in {"running", "prevhash", "panic"}
  /\ fallbacks + report <= MaxReport
  /\ Phases

LEMMA MainInit == Init => MainTypes
BY JdcBounds DEF Init, MainTypes, Phases, Solo

LEMMA MainNext ==
  ASSUME MainTypes, TypeOK, Announced, Connected, Queues, [Next]_vars
  PROVE  MainTypes'
<1> USE JdcBounds
<1> DEFINE mains == <<main, unacked, pool, used, report, fallbacks, jd_mode>>
<1>1. CASE InitializeJd
  BY <1>1 DEF InitializeJd, MainTypes, Phases, ModeOf, Pool, Solo
<1>2. CASE InitializeSolo
  BY <1>2 DEF InitializeSolo, MainTypes, Phases, SetSoloMining, Pool, Solo
<1>3. ASSUME Reports, UNCHANGED <<upstream_state, cm_exit>>
      PROVE  MainTypes'
  BY <1>3 DEF Reports, MainTypes, Phases
<1>4. CASE MainFallback
  BY <1>4 DEF MainFallback, MainTypes, Phases, upstreamVars
<1>5. CASE ListenerStops
  <2>1. /\ main = "falling_back" /\ unacked' = unacked \ {"listener"}
        /\ main' = IF unacked' = {} THEN "initializing" ELSE main
        /\ UNCHANGED <<used, report, fallbacks, jd_mode, pool, upstream_state, cm_exit>>
    BY <1>5 DEF ListenerStops, Acknowledge, upstreamVars
  <2>2. unacked' = {} => pool = Solo
    BY <2>1 DEF MainTypes, Phases
  <2> QED
    BY <2>1, <2>2 DEF MainTypes, Phases
<1>6. CASE CmFallback
  BY <1>6 DEF CmFallback, Acknowledge, MainTypes, Phases, Pool, Solo
<1>7. CASE MainStep
  BY <1>1, <1>2, <1>3, <1>4, <1>5, <1>6, <1>7 DEF MainStep, LoseUpstream, upstreamVars
<1>8. ASSUME UNCHANGED mains,
             \/ UNCHANGED upstream_state
             \/ /\ upstream_state' \in {"NoChannel", "Pending", "Connected", "SoloMining"}
                /\ pool # Solo \/ main # "serving",
             cm_exit' \in {"running", "prevhash", "panic"}
      PROVE  MainTypes'
  BY <1>8 DEF MainTypes, Phases
<1>9. CASE \E r \in OpenRequest : HandleOpenFirst(r)
  BY <1>8, <1>9 DEF HandleOpenFirst, mainVars, MainTypes, Phases
<1>10. ASSUME \/ \E r \in OpenRequest : HandleOpenDirect(r)
              \/ HandleOpenExtendedMiningChannelSuccess
       PROVE  cm_exit' \in {"running", "prevhash", "panic"}
  <2>1. PICK s : Sound(s) /\ Apply(s)
    BY <1>10, TablesApplied
  <2> QED
    BY <2>1 DEF Sound, Table, Apply, Exit
<1>11. CASE \E r \in OpenRequest : HandleOpenDirect(r)
  BY <1>8, <1>10, <1>11 DEF HandleOpenDirect, mainVars, upstreamVars
<1>12. CASE HandleOpenExtendedMiningChannelSuccess
  BY <1>8, <1>10, <1>12, PoolHead DEF HandleOpenExtendedMiningChannelSuccess, mainVars
<1>13. CASE HandleOpenUnusable
  <2>1. pool # Solo \/ main # "serving"
    BY <1>13, PoolHead DEF HandleOpenUnusable
  <2> QED
    BY <1>8, <1>13, <2>1 DEF HandleOpenUnusable, mainVars, MainTypes
<1>14. CASE DownstreamStep
  BY <1>8, <1>9, <1>11, <1>14 DEF DownstreamStep, AcceptDownstream, RemoveDownstream,
     HandleSubmitSharesExtended, HandleCloseChannel, HandleOpenPending, mainVars,
     upstreamVars, MainTypes
<1>15. CASE PoolStep
  BY <1>3, <1>8, <1>12, <1>13, <1>15 DEF PoolStep, HandlePoolError,
     HandleCloseChannelUpstream, HandleSetExtranoncePrefix, HandleSetCustomMiningJobSuccess,
     mainVars, upstreamVars, MainTypes
<1>16. CASE JdsStep
  BY <1>3, <1>8, <1>16 DEF JdsStep, HandleAllocateMiningJobTokenSuccess,
     HandleDeclareMiningJobSuccess, HandleDeclareMiningJobError, mainVars, upstreamVars,
     MainTypes
<1>17. CASE TemplateStep
  BY <1>8, <1>17 DEF TemplateStep, HandleNewTemplate, HandleRequestTxDataSuccess,
     HandleRequestTxDataError, HandleSetNewPrevHash, mainVars, upstreamVars, MainTypes
<1>18. CASE UNCHANGED vars
  BY <1>8, <1>18 DEF vars, mainVars, upstreamVars, MainTypes
<1> QED
  BY <1>7, <1>14, <1>15, <1>16, <1>17, <1>18 DEF Next

-----------------------------------------------------------------------------
(* Requests, and the jobs they are about.                                   *)

\* The pool is one of those tried.
LEMMA PoolTried == MainTypes => pool \in 0..MaxPool /\ used \in 0..MaxPool /\ pool <= used
BY JdcBounds DEF MainTypes, Phases, Pool, Solo

LEMMA RequestsAsked ==
  ASSUME MainTypes
  PROVE  /\ OpenUpstream \in Asked(PoolRequest, used, Idle(pool, main))
         /\ \A job \in DeclaredJob : CustomJob(job) \in Asked(PoolRequest, used, Idle(pool, main))
         /\ AllocateToken \in Asked(JdsRequest, used, Idle(pool, main))
         /\ \A req \in RequestId, t \in Template :
              DeclareMiningJob(req, t) \in Asked(JdsRequest, used, Idle(pool, main))
<1>1. pool \in 0..MaxPool /\ pool <= used
  BY PoolTried
<1>2. OpenUpstream \in Asked(PoolRequest, used, Idle(pool, main))
  BY <1>1 DEF OpenUpstream, PoolRequest, Asked
<1>3. \A job \in DeclaredJob : CustomJob(job) \in Asked(PoolRequest, used, Idle(pool, main))
  BY <1>1 DEF CustomJob, PoolRequest, Asked, DeclaredJob
<1>4. AllocateToken \in Asked(JdsRequest, used, Idle(pool, main))
  BY <1>1 DEF AllocateToken, JdsRequest, Asked
<1>5. \A req \in RequestId, t \in Template :
        DeclareMiningJob(req, t) \in Asked(JdsRequest, used, Idle(pool, main))
  BY <1>1 DEF DeclareMiningJob, JdsRequest, Asked
<1> QED
  BY <1>2, <1>3, <1>4, <1>5

\* The jobs proposed for a template, with an id each.
LEMMA TemplateJobs ==
  ASSUME TypeOK, NEW t \in Template
  PROVE  LET jobs == JobsForTemplate(t) IN
           /\ Len(jobs) \in Nat /\ DOMAIN jobs = 1..Len(jobs)
           /\ \A i \in 1..Len(jobs) : /\ jobs[i].request_id = request_id_factory + i - 1
                                      /\ jobs[i].template = t
           /\ request_id_factory + Len(jobs) <= MaxRequest =>
                \A i \in 1..Len(jobs) : jobs[i] \in DeclaredJob
           /\ jobs # <<>> => jd_mode = "CoinbaseOnly"
<1> USE JdcBounds
<1> DEFINE n == Cardinality({d \in DownstreamId : Known(d)})
           f == [i \in 1..n |-> [request_id |-> request_id_factory + i - 1, template |-> t,
                                 future |-> FALSE, prev_hash |-> last_new_prev_hash]]
<1>1. n \in Nat
  <2>1. IsFiniteSet(DownstreamId)
    BY FS_Interval DEF DownstreamId
  <2>2. IsFiniteSet({d \in DownstreamId : Known(d)})
    BY <2>1, FS_Subset
  <2> QED
    BY <2>2, FS_CardinalityType
<1> HIDE DEF n
<1>2. request_id_factory \in Nat /\ last_new_prev_hash \in Template \cup {NoTemplate}
  BY DEF TypeOK, RequestId
<1>3. CASE JobsForTemplate(t) = <<>>
  BY <1>3, EmptySeq
<1>4. CASE JobsForTemplate(t) # <<>>
  <2>1. JobsForTemplate(t) = f /\ jd_mode = "CoinbaseOnly"
    BY <1>4 DEF JobsForTemplate, n
  <2>2. Len(f) = n /\ DOMAIN f = 1..n
    <3>1. f \in Seq({f[i] : i \in 1..n})
      <4> DEFINE S == {f[i] : i \in 1..n}
      <4>1. f \in [1..n -> S]
        OBVIOUS
      <4> HIDE DEF S, f
      <4> QED
        BY <1>1, <4>1, SeqDef
    <3> QED
      BY <1>1, <3>1, LenProperties
  <2>3. request_id_factory + n <= MaxRequest =>
          \A i \in 1..n : request_id_factory + i - 1 \in RequestId
    BY <1>1, <1>2 DEF RequestId
  <2>4. request_id_factory + n <= MaxRequest => \A i \in 1..n : f[i] \in DeclaredJob
    BY <1>2, <2>3 DEF DeclaredJob
  <2> QED
    BY <1>1, <2>1, <2>2, <2>4
<1> QED
  BY <1>3, <1>4

\* The jobs proposed when the upstream channel opens and when a prevhash comes.
JobForPrevHash ==
  [request_id |-> request_id_factory, template |-> last_future_template,
   future |-> TRUE, prev_hash |-> Len(built_on)]

LEMMA ProposedJobs ==
  ASSUME TypeOK, Announced
  PROVE  /\ CustomJobAtOpen => JobForOpen \in DeclaredJob
         /\ prev_hash_due => JobForPrevHash \in DeclaredJob
<1>1. request_id_factory \in RequestId /\ last_new_prev_hash \in Template \cup {NoTemplate}
      /\ last_future_template \in Template \cup {NoTemplate}
  BY DEF TypeOK
<1>2. CustomJobAtOpen => JobForOpen \in DeclaredJob
  BY <1>1 DEF CustomJobAtOpen, JobForOpen, DeclaredJob, IsFuture
<1>3. prev_hash_due => JobForPrevHash \in DeclaredJob
  BY <1>1 DEF Announced, JobForPrevHash, DeclaredJob
<1> QED
  BY <1>2, <1>3

LEMMA AskedMore ==
  ASSUME NEW S, \A r \in S : r.for \in Nat, NEW u \in Nat, NEW v \in Nat, u <= v,
         NEW idle \in BOOLEAN, NEW more \in BOOLEAN,
         NEW queue \in Seq(Asked(S, u, idle)),
         (idle => more) \/ Drained(queue)
  PROVE  queue \in Seq(Asked(S, v, more))
<1>1. /\ Len(queue) \in Nat /\ DOMAIN queue = 1..Len(queue)
      /\ queue \in [1..Len(queue) -> Asked(S, u, idle)]
  BY LenProperties
<1>2. \A i \in 1..Len(queue) : queue[i] \in Asked(S, v, more)
  BY <1>1 DEF Asked, Drained
<1>3. queue \in [1..Len(queue) -> Asked(S, v, more)]
  BY <1>1, <1>2
<1> QED
  BY <1>1, <1>3, SeqDef

\* What survives a pool.
LEMMA SurvivorsAsked ==
  ASSUME NEW S, NEW u \in Nat, NEW idle \in BOOLEAN, NEW queue \in Seq(Asked(S, u, idle)),
         \A r \in S : /\ [r EXCEPT !.answered = TRUE] \in S
                      /\ [r EXCEPT !.answered = TRUE].for = r.for,
         NEW a \in 0..Len(queue), NEW b \in 0..Len(queue)
  PROVE  Survivors(queue, a, b) \in Seq(Asked(S, u, TRUE))
<1> DEFINE T == Asked(S, u, TRUE)
           first == [i \in 1..a |-> [queue[i] EXCEPT !.answered = TRUE]]
           rest == SubSeq(queue, b + 1, Len(queue))
<1>1. Len(queue) \in Nat /\ \A i \in 1..Len(queue) : queue[i] \in Asked(S, u, idle)
  BY LenProperties, ElementOfSeq
<1>2. \A i \in 1..Len(queue) : queue[i] \in T /\ [queue[i] EXCEPT !.answered = TRUE] \in T
  BY <1>1 DEF Asked
<1> HIDE DEF T
<1>3. first \in Seq(T)
  <2>1. first \in [1..a -> T]
    BY <1>1, <1>2
  <2> HIDE DEF first
  <2> QED
    BY <1>1, <2>1, SeqDef
<1>4. rest \in Seq(T)
  <2>2. b \in Nat /\ b + 1 \in Int /\ \A i \in (b + 1)..Len(queue) : i \in 1..Len(queue)
    BY <1>1
  <2>1. \A i \in (b + 1)..Len(queue) : queue[i] \in T
    BY <1>2, <2>2
  <2> QED
    BY <1>1, <2>1, SubSeqProperties
<1>5. Survivors(queue, a, b) = first \o rest
  BY DEF Survivors
<1> HIDE DEF first, rest
<1>6. Survivors(queue, a, b) \in Seq(T)
  BY <1>3, <1>4, <1>5, ConcatProperties
<1> QED
  BY <1>6 DEF T

\* What a new template makes the manager propose.
LEMMA TemplateProposed ==
  ASSUME TypeOK, Ranges, NEW future \in BOOLEAN, HandleNewTemplate(future)
  PROVE  LET t == Len(built_on) + 1
             jobs == IF future THEN <<>> ELSE JobsForTemplate(t)
         IN /\ Len(jobs) \in Nat /\ DOMAIN jobs = 1..Len(jobs)
            /\ \A i \in 1..Len(jobs) : /\ jobs[i] \in DeclaredJob /\ jobs[i].template = t
                                       /\ jobs[i].request_id = request_id_factory + i - 1
            /\ jobs # <<>> => jd_mode = "CoinbaseOnly"
            /\ request_id_factory' \in RequestId
            /\ request_id_factory' >= request_id_factory + Len(jobs)
            /\ last_declare_job_store' =
                 last_declare_job_store \cup {jobs[i] : i \in 1..Len(jobs)}
            /\ to_pool' = to_pool \o [i \in DOMAIN jobs |-> CustomJob(jobs[i])]
<1> USE JdcBounds
<1> DEFINE t == Len(built_on) + 1
           jobs == IF future THEN <<>> ELSE JobsForTemplate(t)
           allocates == jd_mode = "CoinbaseOnly" /\ ~future
           n == Len(jobs)
           x == IF allocates THEN 1 ELSE 0
<1>1. /\ to_pool' = to_pool \o [i \in DOMAIN jobs |-> CustomJob(jobs[i])]
      /\ last_declare_job_store' = last_declare_job_store \cup Range(jobs)
      /\ Draws(n + x)
  BY DEF HandleNewTemplate
<1>2. t \in Template /\ request_id_factory \in Nat
  BY OneTemplate DEF TypeOK, RequestId
<1>3. /\ n \in Nat /\ DOMAIN jobs = 1..n
      /\ jobs # <<>> => jd_mode = "CoinbaseOnly"
      /\ \A i \in 1..n : /\ jobs[i].template = t
                         /\ jobs[i].request_id = request_id_factory + i - 1
      /\ request_id_factory + n <= MaxRequest => \A i \in 1..n : jobs[i] \in DeclaredJob
  <2>1. CASE future
    BY <2>1
  <2>2. CASE ~future
    <3>1. jobs = JobsForTemplate(t)
      BY <2>2
    <3> HIDE DEF jobs
    <3> QED
      BY <1>2, <3>1, TemplateJobs
  <2> QED
    BY <2>1, <2>2
<1>4. Range(jobs) = {jobs[i] : i \in 1..n}
  <2> HIDE DEF jobs, n
  <2> QED
    BY <1>3 DEF Range
<1> HIDE DEF jobs, n
<1>5. x \in {0, 1}
  OBVIOUS
<1> HIDE DEF x
<1>6. request_id_factory + (n + x) <= MaxRequest
      /\ request_id_factory' = request_id_factory + (n + x)
  BY <1>1 DEF Draws
<1>7. /\ request_id_factory + n <= MaxRequest /\ request_id_factory' \in RequestId
      /\ request_id_factory' >= request_id_factory + n
  BY <1>2, <1>3, <1>5, <1>6 DEF RequestId
<1> QED
  BY <1>1, <1>3, <1>4, <1>7 DEF n, jobs

LEMMA QueuesInit == Init => Queues
BY DEF Init, Queues

LEMMA QueuesNext ==
  ASSUME TypeOK, Ranges, MainTypes, MainTypes', Announced, Queues, [Next]_vars
  PROVE  Queues'
<1> USE JdcBounds
<1> DEFINE P == Asked(PoolRequest, used, Idle(pool, main))
           J == Asked(JdsRequest, used, Idle(pool, main))
           mains == <<main, pool, used>>
<1>0. /\ to_pool \in Seq(P) /\ to_jds \in Seq(J)
      /\ OpenUpstream \in P /\ AllocateToken \in J
      /\ \A job \in DeclaredJob : CustomJob(job) \in P
      /\ \A req \in RequestId, t \in Template : DeclareMiningJob(req, t) \in J
  BY RequestsAsked DEF Queues
<1>1. ASSUME UNCHANGED mains, to_pool' \in Seq(P), to_jds' \in Seq(J)
      PROVE  Queues'
  BY <1>1 DEF Queues
<1>2. /\ used \in Nat /\ used' \in Nat /\ pool \in 0..MaxPool /\ pool' \in 0..MaxPool
      /\ pool' <= used' /\ Idle(pool, main) \in BOOLEAN /\ Idle(pool', main') \in BOOLEAN
      /\ used' \in 0..MaxPool
      /\ \A r \in PoolRequest \cup JdsRequest : r.for \in Nat
  <2>1. \A r \in PoolRequest \cup JdsRequest : r.for \in Nat
    BY DEF PoolRequest, JdsRequest
  <2> QED
    BY <2>1 DEF MainTypes, Phases, Idle, Pool, Solo
<1>3. ASSUME used <= used',
             (Idle(pool, main) => Idle(pool', main')) \/ (Drained(to_pool) /\ Drained(to_jds))
      PROVE  /\ to_pool \in Seq(Asked(PoolRequest, used', Idle(pool', main')))
             /\ to_jds \in Seq(Asked(JdsRequest, used', Idle(pool', main')))
  BY <1>0, <1>2, <1>3, AskedMore
<1>4. CASE InitializeJd
  <2>1. /\ used <= used' /\ Drained(to_pool) /\ Drained(to_jds) /\ UNCHANGED to_pool
        /\ to_jds' = Append(to_jds, [AllocateToken EXCEPT !.for = pool'])
    BY <1>2, <1>4 DEF InitializeJd, Pool
  <2>2. [AllocateToken EXCEPT !.for = pool'] \in Asked(JdsRequest, used', Idle(pool', main'))
    BY <1>2 DEF AllocateToken, Asked, JdsRequest
  <2>3. to_jds' \in Seq(Asked(JdsRequest, used', Idle(pool', main')))
    BY <1>3, <2>1, <2>2, AppendProperties
  <2> QED
    BY <1>3, <2>1, <2>3 DEF Queues
<1>5. CASE InitializeSolo \/ MainFallback \/ ListenerStops
  <2>1. /\ used <= used' /\ UNCHANGED <<to_pool, to_jds>>
        /\ (Idle(pool, main) => Idle(pool', main')) \/ (Drained(to_pool) /\ Drained(to_jds))
    BY <1>5 DEF InitializeSolo, MainFallback, ListenerStops, Acknowledge, Idle, MainTypes
  <2> QED
    BY <1>3, <2>1 DEF Queues
<1>6. CASE CmFallback
  <2>1. /\ pool' = Solo /\ main' # "serving" /\ used' = used
    BY <1>6 DEF CmFallback, Acknowledge
  <2>2. PICK a \in 0..Len(to_pool), b \in 0..Len(to_pool) : to_pool' = Survivors(to_pool, a, b)
    BY <1>6 DEF CmFallback
  <2>3. PICK c \in 0..Len(to_jds), d \in 0..Len(to_jds) : to_jds' = Survivors(to_jds, c, d)
    BY <1>6 DEF CmFallback
  <2>4. \A r \in PoolRequest : /\ [r EXCEPT !.answered = TRUE] \in PoolRequest
                               /\ [r EXCEPT !.answered = TRUE].for = r.for
    BY DEF PoolRequest
  <2>5. \A r \in JdsRequest : /\ [r EXCEPT !.answered = TRUE] \in JdsRequest
                              /\ [r EXCEPT !.answered = TRUE].for = r.for
    BY DEF JdsRequest
  <2>6. to_pool' \in Seq(Asked(PoolRequest, used, TRUE))
    BY <1>0, <1>2, <2>2, <2>4, SurvivorsAsked
  <2>7. to_jds' \in Seq(Asked(JdsRequest, used, TRUE))
    BY <1>0, <1>2, <2>3, <2>5, SurvivorsAsked
  <2>8. Idle(pool', main')
    BY <2>1 DEF Idle
  <2>9. Asked(PoolRequest, used', Idle(pool', main')) = Asked(PoolRequest, used, TRUE)
        /\ Asked(JdsRequest, used', Idle(pool', main')) = Asked(JdsRequest, used, TRUE)
    BY <2>1, <2>8 DEF Asked
  <2> QED
    BY <2>6, <2>7, <2>9 DEF Queues
<1> HIDE DEF P, J
<1>7. CASE LoseUpstream
  BY <1>0, <1>1, <1>7 DEF LoseUpstream, Reports
<1>8. CASE MainStep
  BY <1>4, <1>5, <1>6, <1>7, <1>8 DEF MainStep
<1>9. CASE DownstreamStep
  <2>1. ASSUME NEW r \in OpenRequest, HandleOpenFirst(r)
        PROVE  Queues'
    <3>1. to_pool' \in Seq(P)
      BY <1>0, <2>1, AppendProperties DEF HandleOpenFirst
    <3> QED
      BY <1>0, <1>1, <2>1, <3>1 DEF HandleOpenFirst, mainVars
  <2> QED
    BY <1>0, <1>1, <1>9, <2>1 DEF DownstreamStep, AcceptDownstream, RemoveDownstream,
       HandleSubmitSharesExtended, HandleCloseChannel, HandleOpenPending, HandleOpenDirect,
       mainVars
<1>10. ASSUME NEW type, Answer(to_pool, type)
       PROVE  Tail(to_pool) \in Seq(P)
  BY <1>10, PoolHead DEF P
<1>11. ASSUME NEW type, Answer(to_jds, type)
       PROVE  Tail(to_jds) \in Seq(J)
  BY <1>11, JdsHead DEF J
<1>12. CASE HandleOpenUnusable
  <2>1. to_jds' \in Seq(J)
    BY <1>0, <1>12, AppendProperties DEF HandleOpenUnusable
  <2> QED
    BY <1>1, <1>10, <1>12, <2>1 DEF HandleOpenUnusable, mainVars
<1>13. CASE HandleOpenExtendedMiningChannelSuccess
  <2>1. Tail(to_pool) \in Seq(P)
    BY <1>10, <1>13 DEF HandleOpenExtendedMiningChannelSuccess
  <2>2. CustomJobAtOpen => CustomJob(JobForOpen) \in P
    BY <1>0, ProposedJobs
  <2>3. to_pool' \in Seq(P) /\ to_jds' \in Seq(J)
    <3>1. CASE CustomJobAtOpen
      <4>1. /\ to_pool' = Append(Tail(to_pool), CustomJob(JobForOpen))
            /\ to_jds' = Append(to_jds, AllocateToken)
        BY <1>13, <3>1 DEF HandleOpenExtendedMiningChannelSuccess
      <4>2. to_pool' \in Seq(P)
        BY <2>1, <2>2, <3>1, <4>1, AppendProperties
      <4> QED
        BY <1>0, <4>1, <4>2, AppendProperties
    <3>2. CASE ~CustomJobAtOpen
      BY <1>0, <1>13, <2>1, <3>2 DEF HandleOpenExtendedMiningChannelSuccess
    <3> QED
      BY <3>1, <3>2
  <2> QED
    BY <1>1, <1>13, <2>3 DEF HandleOpenExtendedMiningChannelSuccess, mainVars
<1>14. CASE HandlePoolError
  BY <1>0, <1>1, <1>10, <1>14 DEF HandlePoolError, Reports
<1>15. CASE HandleSetCustomMiningJobSuccess
  BY <1>0, <1>1, <1>10, <1>15 DEF HandleSetCustomMiningJobSuccess, mainVars
<1>16. CASE PoolStep
  BY <1>0, <1>1, <1>12, <1>13, <1>14, <1>15, <1>16 DEF PoolStep, HandleCloseChannelUpstream,
     HandleSetExtranoncePrefix, Reports, mainVars
<1>17. CASE HandleAllocateMiningJobTokenSuccess \/ HandleDeclareMiningJobError
  BY <1>0, <1>1, <1>11, <1>17 DEF HandleAllocateMiningJobTokenSuccess,
     HandleDeclareMiningJobError, Reports, mainVars
<1>18. CASE HandleDeclareMiningJobSuccess
  <2>1. \A j \in last_declare_job_store : CustomJob(j) \in P
    BY <1>0 DEF TypeOK
  <2>2. to_pool' \in Seq(P)
    BY <1>0, <1>18, <2>1, AppendProperties DEF HandleDeclareMiningJobSuccess
  <2> QED
    BY <1>1, <1>11, <1>18, <2>2 DEF HandleDeclareMiningJobSuccess, mainVars
<1>19. ASSUME NEW future \in BOOLEAN, HandleNewTemplate(future)
       PROVE  Queues'
  <2> DEFINE t == Len(built_on) + 1
             jobs == IF future THEN <<>> ELSE JobsForTemplate(t)
             allocates == jd_mode = "CoinbaseOnly" /\ ~future
             made == [i \in DOMAIN jobs |-> CustomJob(jobs[i])]
  <2>1. /\ to_pool' = to_pool \o made
        /\ Draws(Len(jobs) + IF allocates THEN 1 ELSE 0)
        /\ to_jds' = IF allocates THEN Append(to_jds, AllocateToken) ELSE to_jds
        /\ UNCHANGED mains
    BY <1>19 DEF HandleNewTemplate, mainVars
  <2>2. t \in Template
    BY <1>19, OneTemplate
  <2>3. made \in Seq(P)
    <3>1. /\ Len(jobs) \in Nat /\ DOMAIN jobs = 1..Len(jobs)
          /\ \A i \in 1..Len(jobs) : jobs[i] \in DeclaredJob
      BY <1>19, TemplateProposed
    <3> HIDE DEF jobs
    <3>2. made \in [1..Len(jobs) -> P]
      BY <1>0, <3>1
    <3> HIDE DEF made
    <3> QED
      BY <3>1, <3>2, SeqDef
  <2> HIDE DEF made
  <2>4. to_pool' \in Seq(P)
    BY <1>0, <2>1, <2>3, ConcatProperties
  <2>5. to_jds' \in Seq(J)
    BY <1>0, <2>1, AppendProperties
  <2> QED
    BY <1>1, <2>1, <2>4, <2>5
<1>20. CASE HandleRequestTxDataSuccess
  <2> DEFINE t == Head(tx_requests)
  <2>1. t \in Template /\ request_id_factory \in RequestId
    BY <1>20, HeadTailProperties DEF HandleRequestTxDataSuccess, TypeOK
  <2>2. DeclareMiningJob(request_id_factory, t) \in J
    BY <1>0, <2>1
  <2>3. PICK more \in {<<>>, <<DeclareMiningJob(request_id_factory, t)>>} :
          to_jds' = Append(to_jds, AllocateToken) \o more
    BY <1>20 DEF HandleRequestTxDataSuccess
  <2>6. \A e \in J : <<e>> \in Seq(J)
    OBVIOUS
  <2>7. more \in Seq(J)
    BY <2>2, <2>3, <2>6, EmptySeq
  <2>4. more \in Seq(J) /\ Append(to_jds, AllocateToken) \in Seq(J)
    BY <1>0, <2>7, AppendProperties
  <2>5. to_jds' \in Seq(J)
    BY <2>3, <2>4, ConcatProperties
  <2> QED
    BY <1>0, <1>1, <1>20, <2>5 DEF HandleRequestTxDataSuccess, mainVars
<1>21. CASE HandleSetNewPrevHash
  <2>1. CustomJob(JobForPrevHash) \in P
    BY <1>0, <1>21, ProposedJobs DEF HandleSetNewPrevHash
  <2>2. to_pool' \in Seq(P)
    BY <1>0, <1>21, <2>1, AppendProperties DEF HandleSetNewPrevHash, JobForPrevHash
  <2>3. /\ prev_hash_due
        /\ \/ to_jds' = Append(to_jds, AllocateToken)
           \/ \E j \in last_declare_job_store :
                to_jds' = Append(to_jds, DeclareMiningJob(j.request_id, Len(built_on)))
           \/ to_jds' = to_jds
    BY <1>21 DEF HandleSetNewPrevHash
  <2>4. \A j \in last_declare_job_store : DeclareMiningJob(j.request_id, Len(built_on)) \in J
    <3>1. Len(built_on) \in Template
      BY <2>3 DEF Announced, TypeOK
    <3> QED
      BY <1>0, <3>1 DEF TypeOK, DeclaredJob
  <2>6. \A e \in J : Append(to_jds, e) \in Seq(J)
    BY <1>0, AppendProperties
  <2>5. to_jds' \in Seq(J)
    BY <1>0, <2>3, <2>4, <2>6
  <2> QED
    BY <1>1, <1>21, <2>2, <2>5 DEF HandleSetNewPrevHash, mainVars
<1>22. CASE HandleRequestTxDataError
  BY <1>0, <1>1, <1>22 DEF HandleRequestTxDataError, mainVars
<1>23. CASE UNCHANGED vars
  BY <1>0, <1>1, <1>23 DEF vars, mainVars
<1> QED
  BY <1>8, <1>9, <1>16, <1>17, <1>18, <1>19, <1>20, <1>21, <1>22, <1>23
     DEF Next, JdsStep, TemplateStep

-----------------------------------------------------------------------------
(* The other types.                                                         *)

DownTypes ==
  /\ accepted \subseteq DownstreamId /\ downstream_id_factory \in 0..MaxDownstream
  /\ pending_downstream_requests \in Seq(OpenRequest)

TemplateTypes ==
  /\ Len(built_on) <= MaxTemplate /\ built_on \in Seq(Template)
  /\ prev_hash_due \in BOOLEAN
  /\ last_future_template \in Template \cup {NoTemplate}
  /\ last_new_prev_hash \in Template \cup {NoTemplate}
  /\ template_store \subseteq Template /\ tx_requests \in Seq(Template)

UpstreamTypes ==
  /\ allocate_tokens \in Pool \cup {Solo} /\ coinbase_outputs \in Pool \cup {Solo}
  /\ request_id_factory \in RequestId /\ last_declare_job_store \subseteq DeclaredJob
  /\ upstream_channel \in BOOLEAN /\ job_factory \in BOOLEAN
  /\ extranonce_prefix_factory \in Prefix \cup {OwnPrefix}
  /\ template_id_to_upstream_job_id \in [Template -> Nat]
  /\ pool_jobs \in Seq(Template) /\ next_prefix \in 1..(MaxPrefix + 1)

\* The types of the module, part by part.
LEMMA TypesAre ==
  TypeOK /\ Ranges /\ Phases /\ Channels
    <=> MainTypes /\ DownTypes /\ TemplateTypes /\ UpstreamTypes /\ Connected
<1>1. ASSUME TypeOK, Ranges, Phases, Channels
      PROVE  MainTypes /\ DownTypes /\ TemplateTypes /\ UpstreamTypes /\ Connected
  BY <1>1 DEF TypeOK, Ranges, MainTypes, DownTypes, TemplateTypes, UpstreamTypes, Connected
<1>2. ASSUME MainTypes, DownTypes, TemplateTypes, UpstreamTypes, Connected
      PROVE  TypeOK /\ Ranges /\ Phases /\ Channels
  <2>1. Phases /\ Channels
    BY <1>2 DEF MainTypes, Connected
  <2>2. Ranges
    BY <1>2 DEF MainTypes, Connected, Ranges, TemplateTypes
  <2>3. main = "falling_back" <=> unacked # {}
    BY <2>1 DEF Phases
  <2>4. TypeOK
    BY <1>2, <2>3 DEF TypeOK, MainTypes, DownTypes, TemplateTypes, UpstreamTypes, Connected
  <2> QED
    BY <2>1, <2>2, <2>4
<1> QED
  BY <1>1, <1>2

LEMMA DownInit == Init => DownTypes
BY JdcBounds DEF Init, DownTypes

LEMMA DownNext ==
  ASSUME DownTypes, [Next]_vars
  PROVE  DownTypes'
<1> USE JdcBounds
<1>1. ASSUME UNCHANGED <<accepted, downstream_id_factory, pending_downstream_requests>>
      PROVE  DownTypes'
  BY <1>1 DEF DownTypes
<1>2. CASE CmFallback
  BY <1>2 DEF CmFallback, ResetDownstream, DownTypes
<1>3. CASE AcceptDownstream
  BY <1>3 DEF AcceptDownstream, DownTypes, DownstreamId
<1>4. ASSUME NEW r \in OpenRequest, HandleOpenFirst(r)
      PROVE  DownTypes'
  <2>1. <<r>> \in Seq(OpenRequest)
    OBVIOUS
  <2>2. <<r>> \o pending_downstream_requests \in Seq(OpenRequest)
    BY <2>1, ConcatProperties DEF DownTypes
  <2> QED
    BY <1>4, <2>2 DEF HandleOpenFirst, DownTypes, downstreamVars
<1>5. ASSUME NEW r \in OpenRequest, HandleOpenPending(r)
      PROVE  DownTypes'
  <2>1. Append(pending_downstream_requests, r) \in Seq(OpenRequest)
    BY AppendProperties DEF DownTypes
  <2> QED
    BY <1>5, <2>1 DEF HandleOpenPending, DownTypes, downstreamVars
<1>6. CASE HandleOpenExtendedMiningChannelSuccess
  BY <1>6 DEF HandleOpenExtendedMiningChannelSuccess, DownTypes
<1>7. CASE MainStep
  BY <1>1, <1>2, <1>7 DEF MainStep, InitializeJd, InitializeSolo, LoseUpstream, MainFallback,
     ListenerStops, downstreamVars
<1>8. CASE DownstreamStep
  BY <1>1, <1>3, <1>4, <1>5, <1>8 DEF DownstreamStep, RemoveDownstream,
     HandleSubmitSharesExtended, HandleCloseChannel, HandleOpenDirect, downstreamVars
<1>9. CASE PoolStep
  BY <1>1, <1>6, <1>9 DEF PoolStep, HandleOpenUnusable, HandlePoolError,
     HandleCloseChannelUpstream, HandleSetExtranoncePrefix, HandleSetCustomMiningJobSuccess,
     downstreamVars
<1>10. CASE JdsStep
  BY <1>1, <1>10 DEF JdsStep, HandleAllocateMiningJobTokenSuccess,
     HandleDeclareMiningJobSuccess, HandleDeclareMiningJobError, downstreamVars
<1>11. CASE TemplateStep
  BY <1>1, <1>11 DEF TemplateStep, HandleNewTemplate, HandleRequestTxDataSuccess,
     HandleRequestTxDataError, HandleSetNewPrevHash, downstreamVars
<1>12. CASE UNCHANGED vars
  BY <1>1, <1>12 DEF vars, downstreamVars
<1> QED
  BY <1>7, <1>8, <1>9, <1>10, <1>11, <1>12 DEF Next

LEMMA TemplateInit == Init => TemplateTypes
<1> SUFFICES ASSUME Init PROVE TemplateTypes
  OBVIOUS
<1>1. built_on = <<>> /\ tx_requests = <<>> /\ prev_hash_due = FALSE /\ template_store = {}
      /\ last_future_template = NoTemplate /\ last_new_prev_hash = NoTemplate
  BY DEF Init
<1>2. built_on \in Seq(Template) /\ tx_requests \in Seq(Template) /\ Len(built_on) = 0
  BY <1>1, EmptySeq
<1>3. prev_hash_due \in BOOLEAN
  BY <1>1
<1>4. Len(built_on) <= MaxTemplate
  BY <1>2, JdcBounds
<1> QED
  BY <1>1, <1>2, <1>3, <1>4 DEF TemplateTypes

LEMMA TemplateNext ==
  ASSUME TypeOK, Ranges, TemplateTypes, Announced, [Next]_vars
  PROVE  TemplateTypes'
<1> USE JdcBounds
<1>1. ASSUME UNCHANGED <<built_on, prev_hash_due, last_future_template, last_new_prev_hash>>,
             template_store' \subseteq Template, tx_requests' \in Seq(Template)
      PROVE  TemplateTypes'
  BY <1>1 DEF TemplateTypes
<1>2. ASSUME UNCHANGED <<streamVars, templateVars, tx_requests>>
      PROVE  TemplateTypes'
  BY <1>1, <1>2 DEF streamVars, templateVars, TemplateTypes
<1>3. CASE CmFallback
  BY <1>1, <1>3 DEF CmFallback, ResetUpstream, streamVars, TemplateTypes
<1>4. CASE HandleOpenExtendedMiningChannelSuccess
  <2>1. last_future_template # NoTemplate => last_future_template \in Template
    BY DEF TemplateTypes
  <2>2. \A t \in Template : Append(tx_requests, t) \in Seq(Template)
    BY AppendProperties DEF TemplateTypes
  <2>3. tx_requests' \in Seq(Template)
    BY <1>4, <2>1, <2>2 DEF HandleOpenExtendedMiningChannelSuccess, TemplateTypes
  <2> QED
    BY <1>1, <1>4, <2>3 DEF HandleOpenExtendedMiningChannelSuccess, streamVars, templateVars,
       TemplateTypes
<1>5. ASSUME NEW future \in BOOLEAN, HandleNewTemplate(future)
      PROVE  TemplateTypes'
  <2> DEFINE t == Len(built_on) + 1
  <2>1. /\ t \in Template /\ built_on' \in Seq(Template) /\ Len(built_on') = t
        /\ t <= MaxTemplate
    BY <1>5, OneTemplate DEF Template
  <2>2. /\ prev_hash_due' = future /\ template_store' = template_store \cup {t}
        /\ last_future_template' = IF future THEN t ELSE last_future_template
        /\ last_new_prev_hash' = last_new_prev_hash
        /\ tx_requests' \in {tx_requests, Append(tx_requests, t)}
    BY <1>5 DEF HandleNewTemplate
  <2> HIDE DEF t
  <2>4. \A e \in Template : Append(tx_requests, e) \in Seq(Template)
    BY AppendProperties DEF TemplateTypes
  <2>3. tx_requests' \in Seq(Template)
    BY <2>1, <2>2, <2>4 DEF TemplateTypes
  <2> QED
    BY <2>1, <2>2, <2>3 DEF TemplateTypes
<1>6. CASE HandleRequestTxDataSuccess \/ HandleRequestTxDataError
  <2>1. Tail(tx_requests) \in Seq(Template)
    BY <1>6, HeadTailProperties
       DEF HandleRequestTxDataSuccess, HandleRequestTxDataError, TemplateTypes
  <2> QED
    BY <1>1, <1>6, <2>1 DEF HandleRequestTxDataSuccess, HandleRequestTxDataError, streamVars,
       templateVars, TemplateTypes
<1>7. CASE HandleSetNewPrevHash
  <2>1. /\ last_new_prev_hash' = last_future_template /\ prev_hash_due' = FALSE
        /\ UNCHANGED <<built_on, last_future_template, template_store, tx_requests>>
    BY <1>7 DEF HandleSetNewPrevHash, Announced
  <2> QED
    BY <2>1 DEF TemplateTypes
<1>8. CASE MainStep
  BY <1>2, <1>3, <1>8 DEF MainStep, InitializeJd, InitializeSolo, LoseUpstream, MainFallback,
     ListenerStops
<1>9. CASE DownstreamStep
  BY <1>2, <1>9 DEF DownstreamStep, AcceptDownstream, RemoveDownstream,
     HandleSubmitSharesExtended, HandleCloseChannel, HandleOpenFirst, HandleOpenPending,
     HandleOpenDirect
<1>10. CASE PoolStep
  BY <1>2, <1>4, <1>10 DEF PoolStep, HandleOpenUnusable, HandlePoolError,
     HandleCloseChannelUpstream, HandleSetExtranoncePrefix, HandleSetCustomMiningJobSuccess
<1>11. CASE JdsStep
  BY <1>2, <1>11 DEF JdsStep, HandleAllocateMiningJobTokenSuccess,
     HandleDeclareMiningJobSuccess, HandleDeclareMiningJobError
<1>12. CASE UNCHANGED vars
  BY <1>2, <1>12 DEF vars
<1> QED
  BY <1>5, <1>6, <1>7, <1>8, <1>9, <1>10, <1>11, <1>12 DEF Next, TemplateStep

LEMMA UpstreamInit == Init => UpstreamTypes
<1> SUFFICES ASSUME Init PROVE UpstreamTypes
  OBVIOUS
<1>1. /\ request_id_factory = 0 /\ pool_jobs = <<>> /\ next_prefix = 1
      /\ upstream_channel = FALSE /\ job_factory = FALSE
      /\ template_id_to_upstream_job_id = [t \in Template |-> NoJob]
  BY DEF Init
<1>2. request_id_factory \in RequestId /\ pool_jobs \in Seq(Template)
      /\ next_prefix \in 1..(MaxPrefix + 1)
  BY <1>1, JdcBounds DEF RequestId
<1>3. upstream_channel \in BOOLEAN /\ job_factory \in BOOLEAN
  BY <1>1
<1>4. template_id_to_upstream_job_id \in [Template -> Nat]
  BY <1>1 DEF NoJob
<1> QED
  BY <1>2, <1>3, <1>4 DEF UpstreamTypes, Init

LEMMA Drawn ==
  ASSUME request_id_factory \in RequestId, NEW n \in Nat, Draws(n)
  PROVE  /\ request_id_factory' \in RequestId
         /\ request_id_factory' = request_id_factory + n
BY JdcBounds DEF RequestId, Draws

LEMMA UpstreamNext ==
  ASSUME TypeOK, Ranges, MainTypes, Announced, Queues, UpstreamTypes, [Next]_vars
  PROVE  UpstreamTypes'
<1> USE JdcBounds
<1> DEFINE rest == <<channelVars, template_id_to_upstream_job_id, poolVars>>
<1>0. request_id_factory \in RequestId /\ last_declare_job_store \subseteq DeclaredJob
  BY DEF UpstreamTypes
<1>1. ASSUME UNCHANGED rest, UNCHANGED tokenVars,
             request_id_factory' \in RequestId, last_declare_job_store' \subseteq DeclaredJob
      PROVE  UpstreamTypes'
  BY <1>1 DEF UpstreamTypes, channelVars, poolVars, tokenVars
<1>2. ASSUME UNCHANGED <<rest, tokenVars, declareVars>>
      PROVE  UpstreamTypes'
  BY <1>0, <1>1, <1>2 DEF declareVars
<1>3. CASE InitializeJd
  <2>1. request_id_factory' \in RequestId
    BY <1>0, <1>3, Drawn DEF InitializeJd
  <2> QED
    BY <1>0, <1>1, <1>3, <2>1 DEF InitializeJd
<1>4. CASE CmFallback
  <2>1. /\ upstream_channel' = FALSE /\ extranonce_prefix_factory' = OwnPrefix
        /\ template_id_to_upstream_job_id' = [t \in Template |-> NoJob]
        /\ last_declare_job_store' = {} /\ request_id_factory' = 0
        /\ allocate_tokens' = Solo /\ coinbase_outputs' = Solo
        /\ pool_jobs' = <<>> /\ UNCHANGED <<job_factory, next_prefix>>
    BY <1>4 DEF CmFallback, ResetUpstream
  <2>2. 0 \in RequestId /\ <<>> \in Seq(Template) /\ NoJob \in Nat
    BY DEF RequestId, NoJob
  <2>3. template_id_to_upstream_job_id' \in [Template -> Nat]
    BY <2>1, <2>2
  <2>4. upstream_channel' \in BOOLEAN
    BY <2>1
  <2> QED
    BY <2>1, <2>2, <2>3, <2>4 DEF UpstreamTypes
<1>5. CASE HandleOpenUnusable
  <2>1. request_id_factory' \in RequestId
    BY <1>0, <1>5, Drawn DEF HandleOpenUnusable
  <2> QED
    BY <1>0, <1>1, <1>5, <2>1 DEF HandleOpenUnusable
<1>6. CASE HandleOpenExtendedMiningChannelSuccess
  <2>1. request_id_factory' \in RequestId /\ last_declare_job_store' \subseteq DeclaredJob
    <3>1. CASE CustomJobAtOpen
      <4>1. /\ last_declare_job_store' = last_declare_job_store \cup {JobForOpen} /\ Draws(2)
        BY <1>6, <3>1 DEF HandleOpenExtendedMiningChannelSuccess
      <4>2. JobForOpen \in DeclaredJob
        BY <3>1, ProposedJobs
      <4> QED
        BY <1>0, <4>1, <4>2, Drawn
    <3>2. CASE ~CustomJobAtOpen
      BY <1>0, <1>6, <3>2 DEF HandleOpenExtendedMiningChannelSuccess, declareVars
    <3> QED
      BY <3>1, <3>2
  <2>2. /\ next_prefix \in Prefix /\ next_prefix' = next_prefix + 1
        /\ upstream_channel' = TRUE /\ job_factory' = TRUE
        /\ extranonce_prefix_factory' = next_prefix
        /\ UNCHANGED <<tokenVars, template_id_to_upstream_job_id, pool_jobs>>
    BY <1>6 DEF HandleOpenExtendedMiningChannelSuccess
  <2>3. next_prefix' \in 1..(MaxPrefix + 1)
    BY <2>2 DEF Prefix
  <2>4. upstream_channel' \in BOOLEAN /\ job_factory' \in BOOLEAN
    BY <2>2
  <2> QED
    BY <2>1, <2>2, <2>3, <2>4 DEF UpstreamTypes, tokenVars
<1>7. CASE HandleCloseChannelUpstream
  <2>1. upstream_channel' = FALSE
    BY <1>7 DEF HandleCloseChannelUpstream
  <2>2. upstream_channel' \in BOOLEAN
    BY <2>1
  <2> QED
    BY <1>7, <2>2 DEF HandleCloseChannelUpstream, UpstreamTypes, tokenVars, declareVars, poolVars
<1>8. CASE HandleSetExtranoncePrefix
  <2>1. next_prefix \in Prefix /\ next_prefix' = next_prefix + 1
    BY <1>8 DEF HandleSetExtranoncePrefix
  <2>2. next_prefix' \in 1..(MaxPrefix + 1)
    BY <2>1 DEF Prefix
  <2> QED
    BY <1>8, <2>1, <2>2 DEF HandleSetExtranoncePrefix, UpstreamTypes, tokenVars, declareVars
<1>9. CASE HandleSetCustomMiningJobSuccess
  <2> DEFINE r == Head(to_pool)
             job == Len(pool_jobs) + 1
  <2>1. r.template \in Template
    BY <1>9, PoolHead DEF HandleSetCustomMiningJobSuccess, PoolRequest
  <2>2. pool_jobs \in Seq(Template) /\ job \in Nat
    BY LenProperties DEF UpstreamTypes
  <2>3. pool_jobs' \in Seq(Template)
    <3>1. pool_jobs' \in {pool_jobs, Append(pool_jobs, r.template)}
      BY <1>9 DEF HandleSetCustomMiningJobSuccess
    <3>2. Append(pool_jobs, r.template) \in Seq(Template)
      BY <2>1, <2>2, AppendProperties
    <3> QED
      BY <2>2, <3>1, <3>2
  <2>4. /\ last_declare_job_store' \subseteq DeclaredJob
        /\ template_id_to_upstream_job_id' \in [Template -> Nat]
    <3> HIDE DEF job
    <3>1. \/ UNCHANGED <<last_declare_job_store, template_id_to_upstream_job_id>>
          \/ \E j \in last_declare_job_store :
               /\ last_declare_job_store' =
                    {k \in last_declare_job_store : k.template # j.template}
               /\ template_id_to_upstream_job_id' =
                    [template_id_to_upstream_job_id EXCEPT ![j.template] = job]
      BY <1>9 DEF HandleSetCustomMiningJobSuccess, job
    <3> QED
      BY <2>2, <3>1 DEF UpstreamTypes
  <2> QED
    BY <1>9, <2>3, <2>4 DEF HandleSetCustomMiningJobSuccess, UpstreamTypes, tokenVars,
       channelVars
<1>10. CASE HandleAllocateMiningJobTokenSuccess
  <2>1. PICK from \in 0..MaxPool : allocate_tokens' = from /\ coinbase_outputs' = from
    <3>1. Head(to_jds) \in JdsRequest
      BY <1>10, JdsHead DEF HandleAllocateMiningJobTokenSuccess
    <3>2. Head(to_jds).for \in 0..MaxPool
      BY <3>1 DEF JdsRequest
    <3>3. pool \in 0..MaxPool
      BY PoolTried
    <3> QED
      BY <1>10, <3>2, <3>3 DEF HandleAllocateMiningJobTokenSuccess
  <2>2. from \in Pool \cup {Solo}
    BY DEF Pool, Solo
  <2> QED
    BY <1>10, <2>1, <2>2 DEF HandleAllocateMiningJobTokenSuccess, UpstreamTypes, declareVars,
       upstreamVars, channelVars, poolVars
<1>11. ASSUME NEW future \in BOOLEAN, HandleNewTemplate(future)
       PROVE  UpstreamTypes'
  <2>1. request_id_factory' \in RequestId /\ last_declare_job_store' \subseteq DeclaredJob
    <3> DEFINE jobs == IF future THEN <<>> ELSE JobsForTemplate(Len(built_on) + 1)
    <3>1. /\ request_id_factory' \in RequestId
          /\ \A i \in 1..Len(jobs) : jobs[i] \in DeclaredJob
          /\ last_declare_job_store' =
               last_declare_job_store \cup {jobs[i] : i \in 1..Len(jobs)}
      BY <1>11, TemplateProposed
    <3> HIDE DEF jobs
    <3> QED
      BY <1>0, <3>1
  <2> QED
    BY <1>1, <1>11, <2>1 DEF HandleNewTemplate, upstreamVars
<1>12. CASE HandleRequestTxDataSuccess
  <2> DEFINE t == Head(tx_requests)
             job == [request_id |-> request_id_factory, template |-> t,
                     future |-> IsFuture(t), prev_hash |-> last_new_prev_hash]
  <2>1. t \in Template
    BY <1>12, HeadTailProperties DEF HandleRequestTxDataSuccess, TypeOK
  <2>2. job \in DeclaredJob
    BY <1>0, <2>1 DEF DeclaredJob, TypeOK, IsFuture
  <2>3. last_declare_job_store' \in {last_declare_job_store, last_declare_job_store \cup {job}}
    BY <1>12 DEF HandleRequestTxDataSuccess
  <2>4. request_id_factory' \in RequestId
    BY <1>0, <1>12, Drawn DEF HandleRequestTxDataSuccess
  <2> HIDE DEF job
  <2>5. last_declare_job_store' \subseteq DeclaredJob
    BY <1>0, <2>2, <2>3
  <2> QED
    BY <1>1, <1>12, <2>4, <2>5 DEF HandleRequestTxDataSuccess, upstreamVars
<1>13. CASE HandleSetNewPrevHash
  <2> DEFINE proposes == jd_mode = "CoinbaseOnly" /\ upstream_channel /\ job_factory
                           /\ allocate_tokens # Solo
             n == (IF proposes THEN 1 ELSE 0) + (IF jd_mode = "CoinbaseOnly" THEN 1 ELSE 0)
  <2>1. /\ prev_hash_due /\ Draws(n)
        /\ last_declare_job_store' = Activated(last_declare_job_store, Len(built_on)) \cup
                                       IF proposes THEN {JobForPrevHash} ELSE {}
    BY <1>13 DEF HandleSetNewPrevHash, JobForPrevHash
  <2>2. JobForPrevHash \in DeclaredJob /\ Len(built_on) \in Template
    BY <2>1, ProposedJobs DEF Announced, TypeOK
  <2>3. Activated(last_declare_job_store, Len(built_on)) \subseteq DeclaredJob
    BY <1>0, <2>2 DEF Activated, DeclaredJob
  <2>4. last_declare_job_store' \subseteq DeclaredJob
    BY <2>1, <2>2, <2>3
  <2>5. n \in Nat
    OBVIOUS
  <2> HIDE DEF n
  <2>6. request_id_factory' \in RequestId
    BY <1>0, <2>1, <2>5, Drawn
  <2> QED
    BY <1>1, <1>13, <2>4, <2>6 DEF HandleSetNewPrevHash, upstreamVars
<1>14. CASE MainStep
  BY <1>2, <1>3, <1>4, <1>14 DEF MainStep, InitializeSolo, LoseUpstream, MainFallback,
     ListenerStops, upstreamVars
<1>15. CASE DownstreamStep
  BY <1>2, <1>15 DEF DownstreamStep, AcceptDownstream, RemoveDownstream,
     HandleSubmitSharesExtended, HandleCloseChannel, HandleOpenFirst, HandleOpenPending,
     HandleOpenDirect, upstreamVars
<1>16. CASE PoolStep
  BY <1>2, <1>5, <1>6, <1>7, <1>8, <1>9, <1>16 DEF PoolStep, HandlePoolError, upstreamVars
<1>17. CASE JdsStep
  BY <1>2, <1>10, <1>17 DEF JdsStep, HandleDeclareMiningJobSuccess,
     HandleDeclareMiningJobError, upstreamVars
<1>18. CASE HandleRequestTxDataError
  BY <1>2, <1>18 DEF HandleRequestTxDataError, upstreamVars
<1>19. CASE UNCHANGED vars
  BY <1>2, <1>19 DEF vars, upstreamVars
<1> QED
  BY <1>11, <1>12, <1>13, <1>14, <1>15, <1>16, <1>17, <1>18, <1>19 DEF Next, TemplateStep

-----------------------------------------------------------------------------
(* Declared jobs and the ids of the pool's jobs.                            *)

LEMMA StoredInit == Init => NothingStored
BY EmptySeq DEF Init, NothingStored

\* The head of tx_requests is taken.
LEMMA TxTaken ==
  ASSUME TypeOK, NothingStored, tx_requests # <<>>,
         tx_requests' = Tail(tx_requests), UNCHANGED built_on
  PROVE  /\ \A i \in DOMAIN tx_requests' : tx_requests'[i] <= Len(built_on')
         /\ pool = Solo => /\ Head(tx_requests) \notin template_store
                           /\ \A i \in DOMAIN tx_requests' : tx_requests'[i] \notin template_store
<1>1. /\ tx_requests \in Seq(Template) /\ Len(tx_requests) \in Nat \ {0}
      /\ DOMAIN tx_requests = 1..Len(tx_requests)
  BY EmptySeq, LenProperties DEF TypeOK
<1>2. /\ tx_requests' \in Seq(Template) /\ Len(tx_requests') = Len(tx_requests) - 1
      /\ \A i \in 1..Len(tx_requests') : tx_requests'[i] = tx_requests[i + 1]
  BY <1>1, HeadTailProperties
<1>3. DOMAIN tx_requests' = 1..Len(tx_requests')
  BY <1>2, LenProperties
<1>4. \A i \in DOMAIN tx_requests' : \E k \in DOMAIN tx_requests : tx_requests'[i] = tx_requests[k]
  <2> SUFFICES ASSUME NEW i \in DOMAIN tx_requests'
               PROVE  i + 1 \in DOMAIN tx_requests
    BY <1>2, <1>3
  <2> QED
    BY <1>1, <1>2, <1>3
<1>5. 1 \in DOMAIN tx_requests /\ Head(tx_requests) = tx_requests[1]
  BY <1>1
<1> QED
  BY <1>4, <1>5 DEF NothingStored

\* The transactions of a template are asked for.
LEMMA TxAsked ==
  ASSUME TypeOK, NothingStored, NEW t \in Template, t <= Len(built_on'),
         Len(built_on) \in Nat, Len(built_on') \in Nat, Len(built_on) <= Len(built_on'),
         tx_requests' \in {tx_requests, Append(tx_requests, t)}
  PROVE  \A i \in DOMAIN tx_requests' : tx_requests'[i] <= Len(built_on')
<1> USE JdcBounds
<1>1. /\ tx_requests \in Seq(Template) /\ Len(tx_requests) \in Nat
      /\ DOMAIN tx_requests = 1..Len(tx_requests)
      /\ \A i \in 1..Len(tx_requests) : tx_requests[i] \in Nat
  <2>1. tx_requests \in Seq(Template)
    BY DEF TypeOK
  <2>2. \A i \in 1..Len(tx_requests) : tx_requests[i] \in Template
    BY <2>1, ElementOfSeq
  <2>3. Template \subseteq Nat
    BY JdcBounds DEF Template
  <2> QED
    BY <2>1, <2>2, <2>3, LenProperties
<1>2. \A i \in DOMAIN tx_requests : tx_requests[i] <= Len(built_on')
  BY <1>1 DEF NothingStored
<1>3. CASE tx_requests' = tx_requests
  BY <1>2, <1>3
<1>4. CASE tx_requests' = Append(tx_requests, t)
  <2>1. /\ Append(tx_requests, t) \in Seq(Template)
        /\ Len(Append(tx_requests, t)) = Len(tx_requests) + 1
        /\ \A i \in 1..Len(tx_requests) : Append(tx_requests, t)[i] = tx_requests[i]
        /\ Append(tx_requests, t)[Len(tx_requests) + 1] = t
    BY <1>1, AppendProperties
  <2>2. DOMAIN Append(tx_requests, t) = 1..(Len(tx_requests) + 1)
    BY <2>1, LenProperties
  <2>3. \A i \in 1..(Len(tx_requests) + 1) : Append(tx_requests, t)[i] <= Len(built_on')
    BY <1>1, <1>2, <2>1
  <2> QED
    BY <1>4, <2>2, <2>3
<1> QED
  BY <1>3, <1>4

LEMMA StoredNext ==
  ASSUME TypeOK, Ranges, Phases, Announced, Queues, NothingStored, [Next]_vars
  PROVE  NothingStored'
<1> USE JdcBounds
<1> DEFINE rest == <<pool, built_on, template_store, tx_requests, last_declare_job_store,
                     template_id_to_upstream_job_id>>
<1>0. Len(built_on) \in Nat /\ template_store \subseteq Nat
      /\ last_future_template \in Template \cup {NoTemplate}
  BY LenProperties DEF Ranges, TypeOK, Template
<1>1. ASSUME UNCHANGED rest
      PROVE  NothingStored'
  BY <1>1 DEF NothingStored
<1>2. CASE InitializeJd
  <2>1. pool' # Solo /\ UNCHANGED <<built_on, template_store, tx_requests>>
    BY <1>2 DEF InitializeJd, streamVars, templateVars, Pool, Solo
  <2> QED
    BY <2>1 DEF NothingStored
<1>3. CASE CmFallback
  <2>1. /\ template_store' = {} /\ last_declare_job_store' = {}
        /\ template_id_to_upstream_job_id' = [t \in Template |-> NoJob]
        /\ UNCHANGED <<built_on, tx_requests>>
    BY <1>3 DEF CmFallback, ResetUpstream, streamVars
  <2>2. \A t \in Template : template_id_to_upstream_job_id'[t] = NoJob
    BY <2>1
  <2> QED
    BY <2>1, <2>2 DEF NothingStored
<1>4. CASE HandleOpenExtendedMiningChannelSuccess
  <2>1. UNCHANGED <<pool, built_on, template_store, template_id_to_upstream_job_id>>
    BY <1>4 DEF HandleOpenExtendedMiningChannelSuccess, mainVars, streamVars, templateVars
  <2>2. pool = Solo => UNCHANGED <<last_declare_job_store, tx_requests>>
    BY <1>4 DEF HandleOpenExtendedMiningChannelSuccess, declareVars, CustomJobAtOpen, Phases
  <2>3. \A i \in DOMAIN tx_requests' : tx_requests'[i] <= Len(built_on')
    <3>1. CASE tx_requests' = tx_requests
      BY <2>1, <3>1 DEF NothingStored
    <3>2. CASE tx_requests' # tx_requests
      <4>1. /\ tx_requests' = Append(tx_requests, last_future_template)
            /\ last_future_template # NoTemplate
        BY <1>4, <3>2 DEF HandleOpenExtendedMiningChannelSuccess
      <4>2. last_future_template \in Template /\ last_future_template <= Len(built_on')
        BY <1>0, <2>1, <4>1 DEF Announced
      <4> QED
        BY <1>0, <2>1, <4>1, <4>2, TxAsked
    <3> QED
      BY <3>1, <3>2
  <2> QED
    BY <2>1, <2>2, <2>3 DEF NothingStored
<1>5. CASE HandleSetCustomMiningJobSuccess
  <2>1. UNCHANGED <<pool, built_on, template_store, tx_requests>>
    BY <1>5 DEF HandleSetCustomMiningJobSuccess, mainVars, streamVars, templateVars
  <2>2. last_declare_job_store = {} =>
          UNCHANGED <<last_declare_job_store, template_id_to_upstream_job_id>>
    BY <1>5 DEF HandleSetCustomMiningJobSuccess
  <2> QED
    BY <2>1, <2>2 DEF NothingStored
<1>6. ASSUME NEW future \in BOOLEAN, HandleNewTemplate(future)
      PROVE  NothingStored'
  <2> DEFINE t == Len(built_on) + 1
             jobs == IF future THEN <<>> ELSE JobsForTemplate(t)
  <2>1. /\ t \in Template /\ Len(built_on') = t
    BY <1>6, OneTemplate
  <2>2. /\ template_store' = template_store \cup {t}
        /\ tx_requests' \in {tx_requests, Append(tx_requests, t)}
        /\ jd_mode # "FullTemplate" => tx_requests' = tx_requests
        /\ UNCHANGED <<pool, template_id_to_upstream_job_id>>
    BY <1>6 DEF HandleNewTemplate, mainVars, upstreamVars
  <2>3. /\ last_declare_job_store' =
             last_declare_job_store \cup {jobs[i] : i \in 1..Len(jobs)}
        /\ jobs # <<>> => jd_mode = "CoinbaseOnly"
    BY <1>6, TemplateProposed
  <2>4. Len(<<>>) = 0
    BY EmptySeq
  <2> HIDE DEF jobs
  <2>5. pool = Solo => last_declare_job_store' = {}
    BY <2>3, <2>4 DEF Phases, NothingStored
  <2>6. \A i \in DOMAIN tx_requests' : tx_requests'[i] <= Len(built_on')
    <3>1. Len(built_on') \in Nat /\ Len(built_on) <= Len(built_on') /\ t <= Len(built_on')
      BY <1>0, <2>1
    <3> HIDE DEF t
    <3> QED
      BY <1>0, <2>1, <2>2, <3>1, TxAsked
  <2>7. pool = Solo => \A i \in DOMAIN tx_requests' : tx_requests'[i] \notin template_store'
    <3>1. pool = Solo => tx_requests' = tx_requests
      BY <2>2 DEF Phases
    <3> SUFFICES ASSUME pool = Solo, NEW i \in DOMAIN tx_requests
                 PROVE  tx_requests[i] \notin template_store'
      BY <3>1
    <3>2. tx_requests[i] <= Len(built_on) /\ tx_requests[i] \notin template_store
      BY DEF NothingStored
    <3>3. tx_requests[i] # t
      BY <1>0, <3>2
    <3> QED
      BY <2>2, <3>2, <3>3
  <2>8. \A k \in template_store' : k <= Len(built_on')
    BY <1>0, <2>1, <2>2 DEF NothingStored
  <2> QED
    BY <2>2, <2>5, <2>6, <2>7, <2>8 DEF NothingStored
<1>7. CASE HandleRequestTxDataSuccess
  <2>1. /\ tx_requests # <<>> /\ tx_requests' = Tail(tx_requests)
        /\ template_store' = template_store \ {Head(tx_requests)}
        /\ Head(tx_requests) \notin template_store => UNCHANGED last_declare_job_store
        /\ UNCHANGED <<pool, built_on, template_id_to_upstream_job_id>>
    BY <1>7 DEF HandleRequestTxDataSuccess, mainVars, streamVars, upstreamVars
  <2> QED
    BY <2>1, TxTaken DEF NothingStored
<1>8. CASE HandleRequestTxDataError
  <2>1. /\ tx_requests # <<>> /\ tx_requests' = Tail(tx_requests)
        /\ UNCHANGED <<pool, built_on, template_store, last_declare_job_store,
                       template_id_to_upstream_job_id>>
    BY <1>8 DEF HandleRequestTxDataError, mainVars, streamVars, templateVars, declareVars,
       upstreamVars
  <2> QED
    BY <2>1, TxTaken DEF NothingStored
<1>9. CASE HandleSetNewPrevHash
  <2>1. UNCHANGED <<pool, built_on, template_store, tx_requests, template_id_to_upstream_job_id>>
    BY <1>9 DEF HandleSetNewPrevHash, mainVars, upstreamVars
  <2>2. jd_mode # "CoinbaseOnly" =>
          last_declare_job_store' = Activated(last_declare_job_store, Len(built_on))
    BY <1>9 DEF HandleSetNewPrevHash
  <2>3. Activated({}, Len(built_on)) = {}
    BY DEF Activated
  <2> QED
    BY <2>1, <2>2, <2>3 DEF NothingStored, Phases
<1>10. CASE MainStep
  BY <1>1, <1>2, <1>3, <1>10 DEF MainStep, InitializeSolo, LoseUpstream, MainFallback, Reports,
     ListenerStops, streamVars, templateVars, declareVars, upstreamVars
<1>11. CASE DownstreamStep
  BY <1>1, <1>11 DEF DownstreamStep, AcceptDownstream, RemoveDownstream,
     HandleSubmitSharesExtended, HandleCloseChannel, HandleOpenFirst, HandleOpenPending,
     HandleOpenDirect, mainVars, streamVars, templateVars, declareVars, upstreamVars
<1>12. CASE PoolStep
  BY <1>1, <1>4, <1>5, <1>12 DEF PoolStep, HandleOpenUnusable, HandlePoolError,
     HandleCloseChannelUpstream, HandleSetExtranoncePrefix, Reports, mainVars, streamVars,
     templateVars, declareVars, upstreamVars
<1>13. CASE JdsStep
  BY <1>1, <1>13 DEF JdsStep, HandleAllocateMiningJobTokenSuccess,
     HandleDeclareMiningJobSuccess, HandleDeclareMiningJobError, Reports, mainVars,
     streamVars, templateVars, declareVars, upstreamVars
<1>14. CASE UNCHANGED vars
  BY <1>1, <1>14 DEF vars, mainVars, streamVars, templateVars, declareVars, upstreamVars
<1> QED
  BY <1>6, <1>7, <1>8, <1>9, <1>10, <1>11, <1>12, <1>13, <1>14 DEF Next, TemplateStep

\* The ids of a store: below the factory, and of one template each.
Ids(jobs, n) ==
  /\ \A j \in jobs : j.request_id < n
  /\ \A j, k \in jobs : j.request_id = k.request_id => j.template = k.template

\* A store whose jobs are those of another, with new ids besides.
Fresh(jobs, n, more, m) ==
  \A j \in more :
    \/ \E k \in jobs : k.request_id = j.request_id /\ k.template = j.template
    \/ n <= j.request_id /\ j.request_id < m

LEMMA MatchesMore ==
  ASSUME NEW p, NEW n \in Nat, NEW m \in Nat, n <= m,
         NEW jobs \in SUBSET DeclaredJob, NEW more \in SUBSET DeclaredJob,
         Fresh(jobs, n, more, m)
  PROVE  /\ Matches(p, n, jobs) \subseteq Matches(p, m, more)
         /\ \A queue \in Seq(Matches(p, n, jobs)) : queue \in Seq(Matches(p, m, more))
<1>1. ASSUME NEW r \in Matches(p, n, jobs)
      PROVE  r \in Matches(p, m, more)
  <2>1. r \in PoolRequest
    BY DEF Matches
  <2>2. ASSUME r.type = "custom", r.for = p, p # Solo
        PROVE  /\ r.request_id < m
               /\ \A j \in more : j.request_id = r.request_id => j.template = r.template
    <3>1. /\ r.request_id \in Nat /\ r.request_id < n
          /\ \A k \in jobs : k.request_id = r.request_id => k.template = r.template
      BY <2>2, JdcBounds DEF Matches, PoolRequest, RequestId
    <3>2. \A j \in more : j.request_id \in Nat
      BY JdcBounds DEF DeclaredJob, RequestId
    <3> QED
      BY <3>1, <3>2 DEF Fresh
  <2> QED
    BY <2>1, <2>2 DEF Matches
<1>2. Matches(p, n, jobs) \subseteq Matches(p, m, more)
  BY <1>1
<1> QED
  BY <1>2, SeqMonotonic

\* One job with a new id.
LEMMA OneFresh ==
  ASSUME NEW n \in Nat, NEW m \in Nat, n < m,
         NEW jobs \in SUBSET DeclaredJob, NEW job \in DeclaredJob, job.request_id = n,
         Ids(jobs, n)
  PROVE  Fresh(jobs, n, jobs \cup {job}, m) /\ Ids(jobs \cup {job}, m)
<1>1. \A j \in jobs \cup {job} : j.request_id \in Nat
  BY JdcBounds DEF DeclaredJob, RequestId
<1>2. Fresh(jobs, n, jobs \cup {job}, m)
  BY DEF Fresh
<1>3. Ids(jobs \cup {job}, m)
  BY <1>1 DEF Ids
<1> QED
  BY <1>2, <1>3

\* A custom job of the store agrees with it.
LEMMA CustomMatches ==
  ASSUME MainTypes, NEW n \in Nat, NEW jobs \in SUBSET DeclaredJob, Ids(jobs, n),
         NEW j \in jobs
  PROVE  CustomJob(j) \in Matches(pool, n, jobs)
<1>1. CustomJob(j) \in PoolRequest
  BY RequestsAsked DEF Asked
<1>2. CustomJob(j).request_id = j.request_id /\ CustomJob(j).template = j.template
  BY DEF CustomJob
<1> QED
  BY <1>1, <1>2 DEF Matches, Ids

LEMMA OthersMatch ==
  ASSUME MainTypes, NEW p, NEW n, NEW jobs
  PROVE  /\ OpenUpstream \in Matches(p, n, jobs)
         /\ \A r \in PoolRequest : p = Solo \/ r.for # p => r \in Matches(p, n, jobs)
<1>1. OpenUpstream \in PoolRequest /\ OpenUpstream.type = "open"
  BY RequestsAsked DEF Asked, OpenUpstream
<1> QED
  BY <1>1 DEF Matches

LEMMA ActivatedIds ==
  ASSUME NEW jobs \in SUBSET DeclaredJob, NEW n \in Nat, NEW t, Ids(jobs, n)
  PROVE  /\ Ids(Activated(jobs, t), n)
         /\ Fresh(jobs, n, Activated(jobs, t), n)
<1>1. \A j \in Activated(jobs, t) :
        \E k \in jobs : k.request_id = j.request_id /\ k.template = j.template
  <2> SUFFICES ASSUME NEW k \in jobs
               PROVE  LET j == IF k.future /\ k.template = t
                               THEN [k EXCEPT !.future = FALSE, !.prev_hash = t] ELSE k
                      IN  k.request_id = j.request_id /\ k.template = j.template
    BY DEF Activated
  <2> QED
    BY DEF DeclaredJob
<1>2. Fresh(jobs, n, Activated(jobs, t), n)
  BY <1>1 DEF Fresh
<1>3. Ids(Activated(jobs, t), n)
  BY <1>1 DEF Ids
<1> QED
  BY <1>2, <1>3

LEMMA FreshFresh ==
  ASSUME NEW a, NEW b \in SUBSET DeclaredJob, NEW c, NEW n \in Nat, NEW m \in Nat,
         Fresh(a, n, b, n), Fresh(b, n, c, m)
  PROVE  Fresh(a, n, c, m)
<1>1. \A j \in b : \E k \in a : k.request_id = j.request_id /\ k.template = j.template
  <2>1. \A j \in b : j.request_id \in Nat
    BY JdcBounds DEF DeclaredJob, RequestId
  <2> QED
    BY <2>1 DEF Fresh
<1> QED
  BY <1>1 DEF Fresh

LEMMA IdentifiedInit == Init => Identified
BY EmptySeq DEF Init, Identified

LEMMA IdentifiedNext ==
  ASSUME TypeOK, Ranges, MainTypes, MainTypes', Announced, Queues, Queues', NothingStored,
         Identified, UpstreamTypes', [Next]_vars
  PROVE  Identified'
<1> USE JdcBounds
<1> DEFINE n == request_id_factory
           jobs == last_declare_job_store
           M == Matches(pool, n, jobs)
<1>0. /\ n \in Nat /\ n' \in Nat /\ jobs \in SUBSET DeclaredJob /\ jobs' \in SUBSET DeclaredJob
      /\ Ids(jobs, n) /\ to_pool \in Seq(M)
      /\ to_pool # <<>> => Tail(to_pool) \in Seq(M)
  <2>1. to_pool \in Seq(M) /\ (to_pool # <<>> => Tail(to_pool) \in Seq(M))
    <3>1. to_pool \in Seq(M)
      BY DEF Identified
    <3> HIDE DEF M
    <3> QED
      BY <3>1, HeadTailProperties
  <2> QED
    BY <2>1 DEF TypeOK, UpstreamTypes, RequestId, Identified, Ids
<1>1. ASSUME UNCHANGED <<pool, n, jobs>>, to_pool' \in Seq(M)
      PROVE  Identified'
  BY <1>1 DEF Identified
<1>2. ASSUME UNCHANGED pool, n <= n', Fresh(jobs, n, jobs', n'), Ids(jobs', n'),
             to_pool' \in Seq(M) \/ to_pool' \in Seq(Matches(pool, n', jobs'))
      PROVE  Identified'
  <2>1. to_pool' \in Seq(Matches(pool, n', jobs'))
    BY <1>0, <1>2, MatchesMore
  <2> QED
    BY <1>2, <2>1 DEF Identified, Ids
<1>3. ASSUME UNCHANGED <<pool, jobs>>, n <= n', to_pool' \in Seq(M)
      PROVE  Identified'
  <2>1. Fresh(jobs, n, jobs', n')
    BY <1>3 DEF Fresh
  <2>2. Ids(jobs', n')
    <3>1. \A j \in jobs : j.request_id \in Nat
      BY <1>0 DEF DeclaredJob, RequestId
    <3> QED
      BY <1>0, <1>3, <3>1 DEF Ids
  <2> QED
    BY <1>2, <1>3, <2>1, <2>2
<1>4. ASSUME pool' = Solo \/ pool' > used, jobs' = {}, UNCHANGED to_pool \/ pool' = Solo
      PROVE  Identified'
  <2>1. to_pool' \in Seq(PoolRequest)
    BY SeqMonotonic DEF Queues, Asked
  <2>2. CASE pool' = Solo
    <3>1. PoolRequest \subseteq Matches(pool', n', jobs')
      BY <2>2 DEF Matches
    <3> QED
      BY <1>4, <2>1, <3>1, SeqMonotonic DEF Identified
  <2>3. CASE pool' # Solo
    <3>1. Asked(PoolRequest, used, Idle(pool, main)) \subseteq Matches(pool', n', jobs')
      <4> SUFFICES ASSUME NEW r \in PoolRequest, r.for <= used
                   PROVE  r \in Matches(pool', n', jobs')
        BY DEF Asked
      <4>1. r.for \in Nat /\ used \in Nat /\ pool' > used
        BY <1>4, <2>3 DEF PoolRequest, MainTypes
      <4>2. pool' \in Nat /\ r.for # pool'
        BY <4>1 DEF MainTypes, Pool, Solo
      <4> QED
        BY <4>2 DEF Matches
    <3> QED
      BY <1>4, <2>3, <3>1, SeqMonotonic DEF Identified, Queues
  <2> QED
    BY <2>2, <2>3
<1> HIDE DEF M
<1>5. CASE InitializeJd
  <2>1. pool = Solo /\ pool' > used /\ UNCHANGED <<to_pool, jobs>>
    BY <1>5 DEF InitializeJd, MainTypes, Phases
  <2> QED
    BY <1>4, <2>1 DEF NothingStored
<1>6. CASE CmFallback
  BY <1>4, <1>6 DEF CmFallback, ResetUpstream
<1>7. ASSUME NEW r \in OpenRequest, HandleOpenFirst(r)
      PROVE  Identified'
  <2>1. OpenUpstream \in M
    BY OthersMatch DEF M
  <2>2. to_pool' \in Seq(M)
    BY <1>0, <1>7, <2>1, AppendProperties DEF HandleOpenFirst
  <2> QED
    BY <1>1, <1>7, <2>2 DEF HandleOpenFirst, mainVars, declareVars
<1>8. CASE HandleOpenUnusable
  <2>1. n' = n + 1 /\ to_pool' \in Seq(M) /\ UNCHANGED <<pool, jobs>>
    BY <1>0, <1>8 DEF HandleOpenUnusable, Answer, Draws, mainVars
  <2> QED
    BY <1>0, <1>3, <2>1
<1>9. CASE HandleOpenExtendedMiningChannelSuccess
  <2>1. Tail(to_pool) \in Seq(M) /\ UNCHANGED pool
    BY <1>0, <1>9 DEF HandleOpenExtendedMiningChannelSuccess, Answer, mainVars
  <2>2. CASE CustomJobAtOpen
    <3>1. /\ jobs' = jobs \cup {JobForOpen} /\ n' = n + 2
          /\ to_pool' = Append(Tail(to_pool), CustomJob(JobForOpen))
      BY <1>9, <2>2 DEF HandleOpenExtendedMiningChannelSuccess, Draws
    <3>2. JobForOpen \in DeclaredJob /\ JobForOpen.request_id = n
      BY <2>2, ProposedJobs DEF JobForOpen
    <3>3. Fresh(jobs, n, jobs', n') /\ Ids(jobs', n') /\ n <= n'
      BY <1>0, <3>1, <3>2, OneFresh
    <3>4. CustomJob(JobForOpen) \in Matches(pool, n', jobs')
      BY <1>0, <3>1, <3>3, CustomMatches
    <3>5. Tail(to_pool) \in Seq(Matches(pool, n', jobs'))
      BY <1>0, <2>1, <3>3, MatchesMore DEF M
    <3>6. to_pool' \in Seq(Matches(pool, n', jobs'))
      BY <3>1, <3>4, <3>5, AppendProperties
    <3> QED
      BY <1>2, <2>1, <3>3, <3>6
  <2>3. CASE ~CustomJobAtOpen
    BY <1>1, <1>9, <2>1, <2>3 DEF HandleOpenExtendedMiningChannelSuccess, declareVars
  <2> QED
    BY <2>2, <2>3
<1>10. CASE HandlePoolError
  BY <1>0, <1>1, <1>10 DEF HandlePoolError, Answer, Reports, declareVars
<1>11. CASE HandleSetCustomMiningJobSuccess
  <2>1. /\ to_pool' \in Seq(M) /\ UNCHANGED <<pool, n>> /\ jobs' \subseteq jobs
    BY <1>0, <1>11 DEF HandleSetCustomMiningJobSuccess, Answer, mainVars
  <2>2. Fresh(jobs, n, jobs', n') /\ Ids(jobs', n')
    BY <1>0, <2>1 DEF Fresh, Ids
  <2> QED
    BY <1>0, <1>2, <2>1, <2>2
<1>12. CASE HandleDeclareMiningJobSuccess
  <2>1. UNCHANGED <<pool, n, jobs>>
    BY <1>12 DEF HandleDeclareMiningJobSuccess, mainVars, declareVars
  <2>2. \A j \in jobs : CustomJob(j) \in M
    BY <1>0, CustomMatches DEF M
  <2>3. \A e \in M : Append(to_pool, e) \in Seq(M)
    BY <1>0, AppendProperties
  <2>4. to_pool' \in Seq(M)
    BY <1>0, <1>12, <2>2, <2>3 DEF HandleDeclareMiningJobSuccess
  <2> QED
    BY <1>1, <2>1, <2>4
<1>13. ASSUME NEW future \in BOOLEAN, HandleNewTemplate(future)
       PROVE  Identified'
  <2> DEFINE t == Len(built_on) + 1
             new == IF future THEN <<>> ELSE JobsForTemplate(t)
             made == [i \in DOMAIN new |-> CustomJob(new[i])]
             set == {new[i] : i \in 1..Len(new)}
  <2>1. /\ Len(new) \in Nat /\ DOMAIN new = 1..Len(new)
        /\ \A i \in 1..Len(new) : /\ new[i] \in DeclaredJob /\ new[i].template = t
                                  /\ new[i].request_id = n + i - 1
        /\ n' >= n + Len(new) /\ jobs' = jobs \cup set /\ to_pool' = to_pool \o made
    BY <1>13, TemplateProposed
  <2>2. UNCHANGED pool
    BY <1>13 DEF HandleNewTemplate, mainVars
  <2> HIDE DEF new, t
  <2>3. n <= n' /\ \A i \in 1..Len(new) : n <= new[i].request_id /\ new[i].request_id < n'
    BY <1>0, <2>1
  <2>4. Fresh(jobs, n, jobs', n')
    BY <2>1, <2>3 DEF Fresh
  <2>5. Ids(jobs', n')
    <3>1. \A j \in jobs : j.request_id \in Nat /\ j.request_id < n
      BY <1>0 DEF Ids, DeclaredJob, RequestId
    <3>2. \A j \in set : j.template = t /\ n <= j.request_id /\ j.request_id < n'
      BY <2>1, <2>3
    <3>3. \A j \in set : j.request_id \in Nat
      BY <2>1 DEF DeclaredJob, RequestId
    <3> HIDE DEF set
    <3> QED
      BY <1>0, <2>1, <2>3, <3>1, <3>2, <3>3 DEF Ids
  <2>6. \A i \in 1..Len(new) : CustomJob(new[i]) \in Matches(pool, n', jobs')
    BY <1>0, <2>1, <2>5, CustomMatches
  <2>7. made \in Seq(Matches(pool, n', jobs'))
    <3> DEFINE S == Matches(pool, n', jobs')
    <3>1. made \in [1..Len(new) -> S]
      BY <2>1, <2>6
    <3> HIDE DEF made, S
    <3>2. made \in Seq(S)
      BY <2>1, <3>1, SeqDef
    <3> QED
      BY <3>2 DEF S
  <2>8. to_pool \in Seq(Matches(pool, n', jobs'))
    BY <1>0, <2>3, <2>4, MatchesMore DEF M
  <2> HIDE DEF made
  <2>9. to_pool' \in Seq(Matches(pool, n', jobs'))
    BY <2>1, <2>7, <2>8, ConcatProperties
  <2> QED
    BY <1>2, <2>2, <2>3, <2>4, <2>5, <2>9
<1>14. CASE HandleRequestTxDataSuccess
  <2> DEFINE t == Head(tx_requests)
             job == [request_id |-> n, template |-> t,
                     future |-> IsFuture(t), prev_hash |-> last_new_prev_hash]
  <2>1. job \in DeclaredJob /\ job.request_id = n
    <3>1. t \in Template
      BY <1>14, HeadTailProperties DEF HandleRequestTxDataSuccess, TypeOK
    <3> QED
      BY <3>1 DEF DeclaredJob, TypeOK, IsFuture
  <2>2. jobs' \in {jobs, jobs \cup {job}} /\ n' = n + 2 /\ UNCHANGED <<pool, to_pool>>
    BY <1>14 DEF HandleRequestTxDataSuccess, Draws, mainVars
  <2> HIDE DEF job
  <2>3. CASE jobs' = jobs
    BY <1>0, <1>3, <2>2, <2>3
  <2>4. CASE jobs' = jobs \cup {job}
    <3>2. n < n' /\ n <= n' /\ to_pool' \in Seq(M)
      BY <1>0, <2>2
    <3>3. Fresh(jobs, n, jobs \cup {job}, n') /\ Ids(jobs \cup {job}, n')
      BY <1>0, <2>1, <3>2, OneFresh
    <3> QED
      BY <1>2, <2>2, <2>4, <3>2, <3>3
  <2> QED
    BY <2>2, <2>3, <2>4
<1>15. CASE HandleSetNewPrevHash
  <2> DEFINE proposes == jd_mode = "CoinbaseOnly" /\ upstream_channel /\ job_factory
                           /\ allocate_tokens # Solo
             active == Activated(jobs, Len(built_on))
             y == IF jd_mode = "CoinbaseOnly" THEN 1 ELSE 0
  <2>1. /\ prev_hash_due /\ Draws((IF proposes THEN 1 ELSE 0) + y) /\ UNCHANGED pool
        /\ jobs' = active \cup IF proposes THEN {JobForPrevHash} ELSE {}
        /\ to_pool' = IF proposes THEN Append(to_pool, CustomJob(JobForPrevHash)) ELSE to_pool
    BY <1>15 DEF HandleSetNewPrevHash, JobForPrevHash, mainVars
  <2>2. JobForPrevHash \in DeclaredJob /\ JobForPrevHash.request_id = n
        /\ Len(built_on) \in Template
    BY <2>1, ProposedJobs DEF Announced, TypeOK, JobForPrevHash
  <2>3. active \in SUBSET DeclaredJob
    BY <1>0, <2>2 DEF Activated, DeclaredJob
  <2>4. Ids(active, n) /\ Fresh(jobs, n, active, n)
    BY <1>0, ActivatedIds
  <2> HIDE DEF active
  <2>5. CASE ~proposes
    <3>1. jobs' = active /\ to_pool' = to_pool /\ Draws(0 + y)
      BY <2>1, <2>5
    <3>2. n <= n'
      BY <1>0, <3>1 DEF Draws
    <3>3. Fresh(jobs, n, jobs', n') /\ Ids(jobs', n')
      <4>1. \A j \in active : j.request_id \in Nat
        BY <2>3 DEF DeclaredJob, RequestId
      <4> QED
        BY <1>0, <2>4, <3>1, <3>2, <4>1 DEF Fresh, Ids
    <3> QED
      BY <1>0, <1>2, <2>1, <3>1, <3>2, <3>3
  <2>6. CASE proposes
    <3>1. /\ jobs' = active \cup {JobForPrevHash} /\ Draws(1 + y)
          /\ to_pool' = Append(to_pool, CustomJob(JobForPrevHash))
      BY <2>1, <2>6
    <3>2. n < n'
      BY <1>0, <3>1 DEF Draws
    <3>3. Fresh(active, n, jobs', n') /\ Ids(jobs', n')
      BY <1>0, <2>2, <2>3, <2>4, <3>1, <3>2, OneFresh
    <3>4. Fresh(jobs, n, jobs', n')
      BY <1>0, <2>3, <2>4, <3>3, FreshFresh
    <3>5. CustomJob(JobForPrevHash) \in Matches(pool, n', jobs')
      BY <1>0, <3>1, <3>3, CustomMatches
    <3>6. to_pool \in Seq(Matches(pool, n', jobs'))
      BY <1>0, <3>2, <3>4, MatchesMore DEF M
    <3>7. to_pool' \in Seq(Matches(pool, n', jobs'))
      BY <3>1, <3>5, <3>6, AppendProperties
    <3> QED
      BY <1>0, <1>2, <2>1, <3>2, <3>3, <3>4, <3>7
  <2> QED
    BY <2>5, <2>6
<1>16. CASE MainStep
  BY <1>0, <1>1, <1>5, <1>6, <1>16 DEF MainStep, InitializeSolo, LoseUpstream, MainFallback,
     ListenerStops, Reports, declareVars
<1>17. CASE DownstreamStep
  BY <1>0, <1>1, <1>7, <1>17 DEF DownstreamStep, AcceptDownstream, RemoveDownstream,
     HandleSubmitSharesExtended, HandleCloseChannel, HandleOpenPending, HandleOpenDirect,
     mainVars, declareVars
<1>18. CASE PoolStep
  BY <1>0, <1>1, <1>8, <1>9, <1>10, <1>11, <1>18 DEF PoolStep, HandleCloseChannelUpstream,
     HandleSetExtranoncePrefix, Reports, mainVars, declareVars
<1>19. CASE JdsStep
  BY <1>0, <1>1, <1>12, <1>19 DEF JdsStep, HandleAllocateMiningJobTokenSuccess,
     HandleDeclareMiningJobError, Reports, mainVars, declareVars
<1>20. CASE HandleRequestTxDataError
  BY <1>0, <1>1, <1>20 DEF HandleRequestTxDataError, mainVars, declareVars
<1>21. CASE UNCHANGED vars
  BY <1>0, <1>1, <1>21 DEF vars, mainVars, declareVars
<1> QED
  BY <1>13, <1>14, <1>15, <1>16, <1>17, <1>18, <1>19, <1>20, <1>21 DEF Next, TemplateStep

LEMMA ExactNext ==
  ASSUME TypeOK, MainTypes, MainTypes', Queues, NothingStored, Identified, Exact, [Next]_vars
  PROVE  Exact'
<1> USE JdcBounds
<1> DEFINE ids == template_id_to_upstream_job_id
<1>1. ASSUME UNCHANGED <<pool, template_id_to_upstream_job_id, pool_jobs>>
      PROVE  Exact'
  BY <1>1 DEF Exact
<1>2. CASE InitializeJd
  BY <1>2 DEF InitializeJd, NothingStored, MainTypes, Phases, Exact
<1>3. CASE CmFallback
  BY <1>3 DEF CmFallback, Exact
<1>4. CASE HandleSetCustomMiningJobSuccess
  <2> DEFINE r == Head(to_pool)
             job == Len(pool_jobs) + 1
  <2>1. UNCHANGED pool
    BY <1>4 DEF HandleSetCustomMiningJobSuccess, mainVars
  <2> SUFFICES ASSUME pool # Solo, NEW t \in Template, ids'[t] # NoJob
               PROVE  ids'[t] \in DOMAIN pool_jobs' /\ pool_jobs'[ids'[t]] = t
    BY <2>1 DEF Exact
  <2>2. /\ to_pool # <<>> /\ r \in PoolRequest /\ r.type = "custom" /\ ~r.answered
        /\ r.for = pool /\ r.template \in Template
    <3>1. r \in PoolRequest /\ r.type = "custom" /\ ~r.answered /\ to_pool # <<>>
      BY <1>4, PoolHead DEF HandleSetCustomMiningJobSuccess, Answer
    <3>2. r.for = pool
      BY <1>4, <3>1 DEF HandleSetCustomMiningJobSuccess, Accepts
    <3> QED
      BY <3>1, <3>2 DEF PoolRequest
  <2>3. r \in Matches(pool, request_id_factory, last_declare_job_store)
    BY <2>2, HeadTailProperties DEF Identified
  <2>4. \A j \in last_declare_job_store :
          j.request_id = r.request_id => j.template = r.template
    BY <2>2, <2>3 DEF Matches
  <2>5. /\ pool_jobs \in Seq(Template) /\ Len(pool_jobs) \in Nat
        /\ DOMAIN pool_jobs = 1..Len(pool_jobs)
    BY LenProperties DEF TypeOK
  <2>6. pool_jobs' = Append(pool_jobs, r.template)
    BY <1>4, <2>2 DEF HandleSetCustomMiningJobSuccess
  <2>7. /\ DOMAIN pool_jobs' = 1..job /\ pool_jobs'[job] = r.template
        /\ \A i \in DOMAIN pool_jobs : i \in DOMAIN pool_jobs' /\ pool_jobs'[i] = pool_jobs[i]
    <3>1. /\ pool_jobs' \in Seq(Template) /\ Len(pool_jobs') = job
          /\ \A i \in 1..Len(pool_jobs) : pool_jobs'[i] = pool_jobs[i]
          /\ pool_jobs'[job] = r.template
      BY <2>2, <2>5, <2>6, AppendProperties
    <3>2. DOMAIN pool_jobs' = 1..job
      BY <3>1, LenProperties
    <3> QED
      BY <2>5, <3>1, <3>2
  <2> HIDE DEF job
  <2>8. \/ ids' = ids
        \/ \E j \in last_declare_job_store :
             j.request_id = r.request_id /\ ids' = [ids EXCEPT ![j.template] = job]
    BY <1>4 DEF HandleSetCustomMiningJobSuccess, job
  <2>9. \/ ids'[t] = ids[t]
        \/ t = r.template /\ ids'[t] = job
    <3>1. ids \in [Template -> Nat]
      BY DEF TypeOK
    <3> QED
      BY <2>4, <2>8, <3>1
  <2>10. CASE ids'[t] = ids[t]
    <3>1. ids[t] \in DOMAIN pool_jobs /\ pool_jobs[ids[t]] = t
      BY <2>10 DEF Exact
    <3> QED
      BY <2>7, <2>10, <3>1
  <2>11. CASE t = r.template /\ ids'[t] = job
    <3>1. job \in 1..job
      BY <2>5 DEF job
    <3> QED
      BY <2>7, <2>11, <3>1
  <2> QED
    BY <2>9, <2>10, <2>11
<1>5. CASE MainStep
  BY <1>1, <1>2, <1>3, <1>5 DEF MainStep, InitializeSolo, LoseUpstream, MainFallback,
     ListenerStops, Reports, upstreamVars, poolVars
<1>6. CASE DownstreamStep
  BY <1>1, <1>6 DEF DownstreamStep, AcceptDownstream, RemoveDownstream,
     HandleSubmitSharesExtended, HandleCloseChannel, HandleOpenFirst, HandleOpenPending,
     HandleOpenDirect, mainVars, upstreamVars, poolVars
<1>7. CASE PoolStep
  BY <1>1, <1>4, <1>7 DEF PoolStep, HandleOpenUnusable, HandlePoolError,
     HandleOpenExtendedMiningChannelSuccess, HandleCloseChannelUpstream,
     HandleSetExtranoncePrefix, Reports, mainVars, upstreamVars, poolVars
<1>8. CASE JdsStep
  BY <1>1, <1>8 DEF JdsStep, HandleAllocateMiningJobTokenSuccess,
     HandleDeclareMiningJobSuccess, HandleDeclareMiningJobError, Reports, mainVars,
     upstreamVars, poolVars
<1>9. CASE TemplateStep
  BY <1>1, <1>9 DEF TemplateStep, HandleNewTemplate, HandleRequestTxDataSuccess,
     HandleRequestTxDataError, HandleSetNewPrevHash, mainVars, upstreamVars, poolVars
<1>10. CASE UNCHANGED vars
  BY <1>1, <1>10 DEF vars, mainVars, upstreamVars, poolVars
<1> QED
  BY <1>5, <1>6, <1>7, <1>8, <1>9, <1>10 DEF Next

-----------------------------------------------------------------------------
(* The results.                                                             *)

\* The manager starts with nothing stored, no pool and no channels.
THEOREM InitInv == Init => IInv
<1> SUFFICES ASSUME Init PROVE IInv
  OBVIOUS
<1>1. TypeOK /\ Ranges /\ Phases /\ Channels
  BY MainInit, DownInit, TemplateInit, UpstreamInit, ConnectedInit, TypesAre
<1>2. Announced
  <2>1. /\ built_on = <<>> /\ ~prev_hash_due
        /\ last_future_template = 0 /\ last_new_prev_hash = 0
    BY DEF Init, NoTemplate
  <2>2. Len(built_on) = 0
    BY <2>1, EmptySeq
  <2> QED
    BY <2>1, <2>2 DEF Announced
<1>3. Exact
  BY DEF Init, Exact
<1> QED
  BY <1>1, <1>2, <1>3, QueuesInit, StoredInit, IdentifiedInit DEF IInv

\* Every message, notice and connection keeps the invariant: a handler that runs late,
\* after the main loop changed the mode or the manager its pool, too.
THEOREM NextInv == IInv /\ [Next]_vars => IInv'
<1> SUFFICES ASSUME IInv, [Next]_vars PROVE IInv'
  OBVIOUS
<1>1. /\ TypeOK /\ Ranges /\ Phases /\ Channels /\ Queues /\ NothingStored /\ Identified
      /\ Exact /\ Announced
      /\ MainTypes /\ DownTypes /\ TemplateTypes /\ UpstreamTypes /\ Connected
  BY TypesAre DEF IInv
<1>2. MainTypes'
  BY <1>1, MainNext
<1>3. DownTypes' /\ TemplateTypes' /\ UpstreamTypes'
  BY <1>1, DownNext, TemplateNext, UpstreamNext
<1>4. Announced' /\ Connected'
  BY <1>1, AnnouncedNext, ConnectedNext
<1>5. Queues'
  BY <1>1, <1>2, QueuesNext
<1>6. NothingStored'
  BY <1>1, StoredNext
<1>7. Identified'
  BY <1>1, <1>2, <1>3, <1>5, IdentifiedNext
<1>8. Exact'
  BY <1>1, <1>2, ExactNext
<1>9. Phases' /\ Channels'
  BY <1>2, <1>4 DEF MainTypes, Connected
<1>10. Ranges'
  BY <1>2, <1>3, <1>4 DEF Ranges, MainTypes, Connected, TemplateTypes
<1>11. TypeOK'
  <2>1. (main = "falling_back" <=> unacked # {})'
    BY <1>9 DEF Phases
  <2> QED
    BY <1>2, <1>3, <1>4, <2>1 DEF TypeOK, MainTypes, DownTypes, TemplateTypes, UpstreamTypes,
       Connected
<1> QED
  BY <1>4, <1>5, <1>6, <1>7, <1>8, <1>9, <1>10, <1>11 DEF IInv

THEOREM Invariance == Spec => []IInv
BY InitInv, NextInv, PTL DEF Spec

\* The types of the manager's tables, and of its main loop.
THEOREM JdcTypes == Spec => []TypeOK
<1>1. IInv => TypeOK
  BY DEF IInv
<1> QED
  BY <1>1, Invariance, PTL

\* Shares are forwarded under the right job (handle_set_custom_mining_job_success):
\* the id kept for a template is one the pool in use gave to that template's job,
\* also after answers of the pool before were served late.
THEOREM ForwardsExactly == Spec => []ForwardingIsExact
<1>1. IInv => ForwardingIsExact
  BY DEF IInv, NothingStored, Exact, ForwardingIsExact
<1> QED
  BY <1>1, Invariance, PTL

\* Every channel is on the tip the manager knows, however it was opened.
THEOREM TipsAgree == Spec => []TipAgreement
<1>1. IInv => TipAgreement
  BY DEF IInv, Channels, OnTip, TipAgreement
<1> QED
  BY <1>1, Invariance, PTL

\* A share on a job whose template the pool knows is forwarded: no handler leaves a
\* channel with a job that is not in the table (handle_submit_shares_*).
THEOREM SharesReach == Spec => []SharesReachThePool
<1>1. IInv => SharesReachThePool
  <2> SUFFICES ASSUME IInv, NEW d \in DownstreamId, NEW c \in OpenChannels(downstream[d]),
                      upstream_channel,
                      template_id_to_upstream_job_id[downstream[d].channels[c].active] # NoJob,
                      ~(downstream[d].channels[c].kind = "standard" /\ downstream[d].group)
               PROVE  UpstreamJobs(d, c, downstream[d].channels[c].active) # {}
    BY DEF SharesReachThePool
  <2>1. <<d, c, downstream[d].channels[c].active>> \in job_to_template
    BY DEF IInv, Channels, Entered
  <2> QED
    BY <2>1 DEF UpstreamJobs
<1> QED
  BY <1>1, Invariance, PTL

\* Without a pool the manager serves the miners by itself (main loop, last fallback).
THEOREM ServesAlone == Spec => []SoloServes
<1>1. IInv => SoloServes
  BY DEF IInv, Phases, SoloServes
<1> QED
  BY <1>1, Invariance, PTL

=============================================================================
