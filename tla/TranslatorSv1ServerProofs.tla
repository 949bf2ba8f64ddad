--------------------- MODULE TranslatorSv1ServerProofs ---------------------
(***************************************************************************)
(* Proofs about TranslatorSv1Server, for any set of miners and of targets, *)
(* both kinds of channels, with and without vardiff.                       *)
(***************************************************************************)
EXTENDS TranslatorSv1Server, FiniteSetTheorems, SequenceTheorems, WellFoundedInduction, TLAPS

-----------------------------------------------------------------------------
(* What is on its way to a miner. *)

\* A message of one kind that the task of a miner with channel c does not drop.
Counts(x, kind, c) == x.kind = kind /\ (x.channel = All \/ x.channel = c)

\* v is what the miner will hold when all of its inbox is delivered, if it holds
\* or has cached `now` at present.
Latest(box, kind, c, now, v) ==
  \/ \E k \in DOMAIN box :
       /\ Counts(box[k], kind, c) /\ box[k].value = v
       /\ \A j \in DOMAIN box : j > k => ~Counts(box[j], kind, c)
  \/ v = now /\ \A k \in DOMAIN box : ~Counts(box[k], kind, c)

\* A set_difficulty comes before the first notify.
DifficultyFirst(box, c) ==
  \E k \in DOMAIN box :
    /\ Counts(box[k], "difficulty", c)
    /\ \A j \in DOMAIN box : j < k => ~Counts(box[j], "notify", c)

JobSent(d, h) == IF d.cached_notify = None THEN h.job ELSE d.cached_notify

-----------------------------------------------------------------------------
(* The inductive invariant. *)

\* The channel that is being set up; All stands for none.
SetupChannel == IF server.pc = "setup" THEN server.channel ELSE All

\* It is the newest, and it has had no message yet.
SentUpTo(o, setup) == IF setup = All THEN Len(o) ELSE setup - 1

Server ==
  /\ server.pc = "setup" =>
       server.channel = Len(opened) /\ server.channel # All /\ server.miner \in Miner
  /\ \A i \in DOMAIN updates : Aggregated => updates[i].channel = All

JobLists ==
  /\ \A c \in Channel : \A j \in jobs[c] : j <= last.job
  /\ last.follows # None =>
       last.job # 0 /\ last.follows <= Len(opened) /\ (Aggregated \/ last.follows # All)
  /\ Aggregated /\ last.job # 0 /\ last.follows # All => last.job \in jobs[All]
  /\ ~Aggregated => \A c \in Channel : c > Len(opened) => jobs[c] = {}

\* Messages name channels up to n; only the jobs of aggregated mode are for all.
Sendable(n, agg) ==
  {x \in Message : x.channel <= n /\ (x.channel = All => agg /\ x.kind = "notify")}

\* Before the first set_difficulty nothing is cached, wanted or waiting.
Untold(d, h, w) ==
  /\ d.cached_difficulty = None /\ h.difficulty = 0 /\ w = <<>>
  /\ d.pending = None /\ d.target = FirstTarget

\* The updates for channel c, of which there is one, ask for no more than t.
Covered(u, c, t) ==
  /\ \E i \in DOMAIN u : u[i].channel = c
  /\ \A i \in DOMAIN u : u[i].channel = c => u[i].target <= t

UpdatesOf(mo, c) == IF mo.aggregated THEN All ELSE c

\* What the translator wants of a miner is what the miner is told last, or waits for
\* the answer to an UpdateChannel that will release it.
InStep(mo, d, h, box, w, u) ==
  \/ w = <<>> /\ Latest(box, "difficulty", d.channel_id, DifficultySent(d, h), Wants(d))
  \/ w = <<Wants(d)>> /\ mo.vardiff /\ Covered(u, UpdatesOf(mo, d.channel_id), Wants(d))

\* A job that was sent or is cached had its difficulty.
Preceded(d, h) ==
  /\ h.job # 0 => h.difficulty # 0
  /\ d.cached_notify # None => DifficultySent(d, h) # 0

\* A job that is on its way will have it.
WillPrecede(d, h, box) ==
  DifficultySent(d, h) # 0 \/ DifficultyFirst(box, d.channel_id)

\* The newest of the valid jobs is what the miner is told last.
Current(valid, d, h, box) ==
  \E v \in valid :
    /\ \A j \in valid : j <= v
    /\ Latest(box, "notify", d.channel_id, JobSent(d, h), v)

Twice(o, m) == \E i, j \in DOMAIN o : i # j /\ o[i] = m /\ o[j] = m

\* The state of miner m, in mode mo with the channels o opened: its connection is cn,
\* its data d, it holds h, box is on its way to it, the targets w wait for one of
\* the updates u, and its shares are validated against the jobs `valid`.
Sound(mo, o, setup, m, cn, d, h, box, w, u, ov, valid) ==
  /\ box \in Seq(Sendable(SentUpTo(o, setup), mo.aggregated))
  /\ d.handshake => d.channel_id # None /\ d.cached_notify = None
  /\ cn # "connected" => h = Nothing /\ box = <<>>
  /\ cn = "connected" =>
       /\ d.channel_id = None \/ (d.channel_id = setup /\ ~Twice(o, m)) => Untold(d, h, w)
       /\ d.channel_id \notin {None, setup} /\ ~ov /\ ~Twice(o, m) => InStep(mo, d, h, box, w, u)
       /\ ~mo.aggregated => Preceded(d, h)
       /\ ~mo.aggregated /\ d.channel_id \notin {None, setup} => WillPrecede(d, h, box)
       /\ (mo.aggregated \/ d.channel_id # None) /\ ~Twice(o, m) /\ valid # {} =>
            Current(valid, d, h, box)

SoundMiner(m) ==
  Sound(mode, opened, SetupChannel, m, conn[m], data[m], has[m], inbox[m], waiting[m], updates,
        overlapped, ValidJobs(m))

\* A task that is about to queue a message has read one.
Handshakes == \A m \in Miner : task[m] # "none" => sent[m] # 0

IInv == TypeOK /\ Handshakes /\ Server /\ JobLists /\ \A m \in Miner : SoundMiner(m)

-----------------------------------------------------------------------------
(* Messages come and go at the two ends of an inbox. *)

\* A message that counts is the latest when it is queued; any other changes nothing.
LEMMA LatestAppend ==
  ASSUME NEW S, NEW box \in Seq(S), NEW x \in S, NEW kind, NEW c, NEW now, NEW v
  PROVE  /\ Counts(x, kind, c) => Latest(Append(box, x), kind, c, now, x.value)
         /\ ~Counts(x, kind, c) /\ Latest(box, kind, c, now, v) =>
              Latest(Append(box, x), kind, c, now, v)
<1> DEFINE n == Len(box)
           more == Append(box, x)
<1>1. /\ n \in Nat /\ DOMAIN box = 1..n /\ DOMAIN more = 1..(n + 1) /\ more[n + 1] = x
      /\ \A k \in 1..n : more[k] = box[k]
  OBVIOUS
<1> HIDE DEF n, more
<1>2. Counts(x, kind, c) => Latest(more, kind, c, now, x.value)
  <2>1. n + 1 \in DOMAIN more /\ more[n + 1].value = x.value
        /\ \A j \in DOMAIN more : ~(j > n + 1)
    BY <1>1
  <2> QED
    BY <1>1, <2>1 DEF Latest
<1>3. ASSUME ~Counts(x, kind, c), Latest(box, kind, c, now, v)
      PROVE  Latest(more, kind, c, now, v)
  <2>1. CASE \E k \in DOMAIN box :
               /\ Counts(box[k], kind, c) /\ box[k].value = v
               /\ \A j \in DOMAIN box : j > k => ~Counts(box[j], kind, c)
    <3>1. PICK k \in 1..n :
               /\ Counts(box[k], kind, c) /\ box[k].value = v
               /\ \A j \in 1..n : j > k => ~Counts(box[j], kind, c)
      BY <1>1, <2>1
    <3>2. k \in DOMAIN more /\ Counts(more[k], kind, c) /\ more[k].value = v
      BY <1>1, <3>1
    <3>3. \A j \in DOMAIN more : j > k => ~Counts(more[j], kind, c)
      BY <1>1, <1>3, <3>1
    <3> QED
      BY <3>2, <3>3 DEF Latest
  <2>2. CASE v = now /\ \A k \in DOMAIN box : ~Counts(box[k], kind, c)
    <3>1. \A j \in DOMAIN more : ~Counts(more[j], kind, c)
      BY <1>1, <1>3, <2>2
    <3> QED
      BY <2>2, <3>1 DEF Latest
  <2> QED
    BY <1>3, <2>1, <2>2 DEF Latest
<1> QED
  BY <1>2, <1>3 DEF more

\* A message that is taken counts from then on as what the miner has.
LEMMA LatestTail ==
  ASSUME NEW S, NEW box \in Seq(S), box # <<>>, NEW kind, NEW c, NEW now, NEW v,
         Latest(box, kind, c, now, v)
  PROVE  Latest(Tail(box), kind, c,
                IF Counts(Head(box), kind, c) THEN Head(box).value ELSE now, v)
<1> DEFINE n == Len(box)
           less == Tail(box)
           then == IF Counts(Head(box), kind, c) THEN Head(box).value ELSE now
<1>1. /\ n \in Nat \ {0} /\ DOMAIN box = 1..n /\ DOMAIN less = 1..(n - 1)
      /\ \A k \in 1..(n - 1) : less[k] = box[k + 1]
      /\ Head(box) = box[1]
  OBVIOUS
<1> SUFFICES Latest(less, kind, c, then, v)
  OBVIOUS
<1> HIDE DEF n, less
<1>2. CASE \E k \in DOMAIN box :
             /\ Counts(box[k], kind, c) /\ box[k].value = v
             /\ \A j \in DOMAIN box : j > k => ~Counts(box[j], kind, c)
  <2>1. PICK k \in 1..n :
             /\ Counts(box[k], kind, c) /\ box[k].value = v
             /\ \A j \in 1..n : j > k => ~Counts(box[j], kind, c)
    BY <1>1, <1>2
  <2>2. CASE k = 1
    <3>1. then = v
      BY <1>1, <2>1, <2>2
    <3>2. \A j \in 1..(n - 1) : j + 1 \in 1..n /\ j + 1 > 1
      BY <1>1
    <3>3. \A j \in DOMAIN less : ~Counts(less[j], kind, c)
      BY <1>1, <2>1, <2>2, <3>2
    <3> QED
      BY <3>1, <3>3 DEF Latest
  <2>3. CASE k # 1
    <3>1. k - 1 \in 1..(n - 1) /\ less[k - 1] = box[k]
      BY <1>1, <2>3
    <3>2. \A j \in 1..(n - 1) : j > k - 1 => j + 1 \in 1..n /\ j + 1 > k
      BY <1>1
    <3>3. \A j \in DOMAIN less : j > k - 1 => ~Counts(less[j], kind, c)
      BY <1>1, <2>1, <3>2
    <3> QED
      BY <1>1, <2>1, <3>1, <3>3 DEF Latest
  <2> QED
    BY <2>2, <2>3
<1>3. CASE v = now /\ \A k \in DOMAIN box : ~Counts(box[k], kind, c)
  <2>1. then = v
    BY <1>1, <1>3
  <2>2. \A j \in 1..(n - 1) : j + 1 \in 1..n
    BY <1>1
  <2>3. \A j \in DOMAIN less : ~Counts(less[j], kind, c)
    BY <1>1, <1>3, <2>2
  <2> QED
    BY <2>1, <2>3 DEF Latest
<1> QED
  BY <1>2, <1>3 DEF Latest

\* The same for the first set_difficulty.
LEMMA FirstAppend ==
  ASSUME NEW S, NEW box \in Seq(S), NEW x \in S, NEW c
  PROVE  /\ DifficultyFirst(box, c) => DifficultyFirst(Append(box, x), c)
         /\ Counts(x, "difficulty", c) /\ (\A k \in DOMAIN box : ~Counts(box[k], "notify", c)) =>
              DifficultyFirst(Append(box, x), c)
<1> DEFINE n == Len(box)
           more == Append(box, x)
<1>1. /\ n \in Nat /\ DOMAIN box = 1..n /\ DOMAIN more = 1..(n + 1) /\ more[n + 1] = x
      /\ \A k \in 1..n : more[k] = box[k]
  OBVIOUS
<1> HIDE DEF n, more
<1>2. ASSUME DifficultyFirst(box, c) PROVE DifficultyFirst(more, c)
  <2>1. PICK k \in 1..n :
          /\ Counts(box[k], "difficulty", c)
          /\ \A j \in 1..n : j < k => ~Counts(box[j], "notify", c)
    BY <1>1, <1>2 DEF DifficultyFirst
  <2>2. k \in DOMAIN more /\ Counts(more[k], "difficulty", c)
    BY <1>1, <2>1
  <2>3. \A j \in DOMAIN more : j < k => ~Counts(more[j], "notify", c)
    BY <1>1, <2>1
  <2> QED
    BY <2>2, <2>3 DEF DifficultyFirst
<1>3. ASSUME Counts(x, "difficulty", c), \A k \in DOMAIN box : ~Counts(box[k], "notify", c)
      PROVE  DifficultyFirst(more, c)
  <2>1. n + 1 \in DOMAIN more /\ \A j \in DOMAIN more : j < n + 1 => ~Counts(more[j], "notify", c)
    BY <1>1, <1>3
  <2> QED
    BY <1>1, <1>3, <2>1 DEF DifficultyFirst
<1> QED
  BY <1>2, <1>3 DEF more

LEMMA FirstTail ==
  ASSUME NEW S, NEW box \in Seq(S), box # <<>>, NEW c, DifficultyFirst(box, c)
  PROVE  /\ ~Counts(Head(box), "notify", c)
         /\ ~Counts(Head(box), "difficulty", c) => DifficultyFirst(Tail(box), c)
<1> DEFINE n == Len(box)
           less == Tail(box)
<1>1. /\ n \in Nat \ {0} /\ DOMAIN box = 1..n /\ DOMAIN less = 1..(n - 1)
      /\ \A k \in 1..(n - 1) : less[k] = box[k + 1]
      /\ Head(box) = box[1]
  OBVIOUS
<1> HIDE DEF n, less
<1>2. PICK k \in 1..n :
        /\ Counts(box[k], "difficulty", c)
        /\ \A j \in 1..n : j < k => ~Counts(box[j], "notify", c)
  BY <1>1 DEF DifficultyFirst
<1>3. ~Counts(Head(box), "notify", c)
  BY <1>1, <1>2 DEF Counts
<1>4. ASSUME k # 1 PROVE DifficultyFirst(less, c)
  <2>1. k - 1 \in 1..(n - 1) /\ less[k - 1] = box[k]
    BY <1>1, <1>4
  <2>2. \A j \in 1..(n - 1) : j < k - 1 => j + 1 \in 1..n /\ j + 1 < k
    BY <1>1
  <2>3. \A j \in DOMAIN less : j < k - 1 => ~Counts(less[j], "notify", c)
    BY <1>1, <1>2, <2>2
  <2> QED
    BY <1>1, <1>2, <2>1, <2>3 DEF DifficultyFirst
<1> QED
  BY <1>1, <1>2, <1>3, <1>4 DEF less

\* A miner that gets its channel has had no message of that channel.
LEMMA LatestRechannel ==
  ASSUME NEW n \in Nat, NEW agg, NEW box \in Seq(Sendable(n, agg)), NEW kind, NEW now, NEW v,
         NEW c, c \notin 0..n, Latest(box, kind, None, now, v)
  PROVE  Latest(box, kind, c, now, v)
<1>1. \A k \in DOMAIN box : box[k].channel \in 0..n
  <2>1. \A k \in DOMAIN box : box[k] \in Sendable(n, agg)
    OBVIOUS
  <2>2. \A x \in Sendable(n, agg) : x.channel \in 0..n
    BY BoundAssumption DEF Sendable, Message, Channel
  <2> QED
    BY <2>1, <2>2
<1>2. \A k \in DOMAIN box : Counts(box[k], kind, None) <=> Counts(box[k], kind, c)
  <2>1. \A k \in DOMAIN box : box[k].channel # None
    <3>1. \A x \in Sendable(n, agg) : x.channel # None
      BY NoneAssumption DEF Sendable, Message, Channel
    <3> QED
      BY <3>1
  <2> QED
    BY <1>1, <2>1 DEF Counts
<1> QED
  BY <1>2 DEF Latest

\* Nothing that a miner with a newer channel would take is in its inbox, but the jobs
\* for all.
LEMMA NothingCounts ==
  ASSUME NEW n \in Nat, NEW agg, NEW box \in Seq(Sendable(n, agg)), NEW c, c \notin 0..n
  PROVE  /\ \A k \in DOMAIN box : ~Counts(box[k], "difficulty", c)
         /\ ~agg => \A k \in DOMAIN box : ~Counts(box[k], "notify", c)
<1>1. \A x \in Sendable(n, agg) :
        /\ x.channel \in 0..n
        /\ x.channel = All => agg /\ x.kind = "notify"
  BY BoundAssumption DEF Sendable, Message, Channel
<1>2. \A k \in DOMAIN box : box[k] \in Sendable(n, agg)
  OBVIOUS
<1> QED
  BY <1>1, <1>2 DEF Counts

\* Messages of a shorter list of channels are messages of a longer one.
LEMMA SendableGrows ==
  ASSUME NEW n \in Int, NEW k \in Int, n <= k, NEW agg
  PROVE  \A q \in Seq(Sendable(n, agg)) : q \in Seq(Sendable(k, agg))
<1>1. Sendable(n, agg) \subseteq Sendable(k, agg)
  BY BoundAssumption DEF Sendable, Message, Channel
<1> QED
  BY <1>1, SeqMonotonic

-----------------------------------------------------------------------------
(* The data of a miner. *)

\* Types of the numbers, in one place.
LEMMA Bounds ==
  /\ MaxChannels \in Nat /\ MaxJobs \in Nat /\ MaxTargets \in Nat /\ All = 0 /\ All \in Channel
  /\ Target \subseteq Nat \ {0} /\ FirstTarget \in Target
  /\ None \notin Miner /\ None \notin Target /\ None \notin Channel /\ None \notin 0..MaxJobs
  /\ Channel = 0..MaxChannels
BY BoundAssumption, TargetAssumption, NoneAssumption DEF All, Channel

\* A set_difficulty, a notify, a pending target and an upstream target are stored.
LEMMA Stored ==
  ASSUME NEW d \in DownstreamData
  PROVE  /\ \A v \in Target \cup {None} :
              LET e == [d EXCEPT !.cached_difficulty = v]
              IN  /\ e \in DownstreamData /\ e.cached_difficulty = v
                  /\ e.channel_id = d.channel_id /\ e.handshake = d.handshake
                  /\ e.cached_notify = d.cached_notify /\ Wants(e) = Wants(d)
         /\ \A v \in 1..MaxJobs :
              LET e == [d EXCEPT !.cached_notify = v]
              IN  /\ e \in DownstreamData /\ e.cached_notify = v
                  /\ e.channel_id = d.channel_id /\ e.handshake = d.handshake
                  /\ e.cached_difficulty = d.cached_difficulty
                  /\ e.pending = d.pending /\ e.target = d.target
         /\ \A v \in Target :
              LET e == [d EXCEPT !.pending = v]
              IN  /\ e \in DownstreamData /\ e.pending = v /\ Wants(e) = v
                  /\ e.channel_id = d.channel_id /\ e.handshake = d.handshake
                  /\ e.cached_difficulty = d.cached_difficulty
                  /\ e.cached_notify = d.cached_notify
         /\ \A v \in Target :
              LET e == [d EXCEPT !.upstream = v]
              IN  /\ e \in DownstreamData /\ e.upstream = v
                  /\ e.channel_id = d.channel_id /\ e.handshake = d.handshake
                  /\ e.cached_difficulty = d.cached_difficulty
                  /\ e.cached_notify = d.cached_notify
                  /\ e.pending = d.pending /\ e.target = d.target
         /\ \A v \in Seq({"subscribe", "authorize"}) :
              LET e == [d EXCEPT !.queued = v]
              IN  /\ e \in DownstreamData /\ e.queued = v
                  /\ e.channel_id = d.channel_id /\ e.handshake = d.handshake
                  /\ e.cached_difficulty = d.cached_difficulty
                  /\ e.cached_notify = d.cached_notify
                  /\ e.pending = d.pending /\ e.target = d.target
<1>1. \A v \in Target \cup {None} :
              LET e == [d EXCEPT !.cached_difficulty = v]
              IN  /\ e \in DownstreamData /\ e.cached_difficulty = v
                  /\ e.channel_id = d.channel_id /\ e.handshake = d.handshake
                  /\ e.cached_notify = d.cached_notify /\ Wants(e) = Wants(d)
  BY DEF DownstreamData, Wants
<1>2. \A v \in 1..MaxJobs :
              LET e == [d EXCEPT !.cached_notify = v]
              IN  /\ e \in DownstreamData /\ e.cached_notify = v
                  /\ e.channel_id = d.channel_id /\ e.handshake = d.handshake
                  /\ e.cached_difficulty = d.cached_difficulty
                  /\ e.pending = d.pending /\ e.target = d.target
  BY DEF DownstreamData
<1>3. \A v \in Target :
              LET e == [d EXCEPT !.pending = v]
              IN  /\ e \in DownstreamData /\ e.pending = v /\ Wants(e) = v
                  /\ e.channel_id = d.channel_id /\ e.handshake = d.handshake
                  /\ e.cached_difficulty = d.cached_difficulty
                  /\ e.cached_notify = d.cached_notify
  BY Bounds DEF DownstreamData, Wants
<1>4. \A v \in Target :
              LET e == [d EXCEPT !.upstream = v]
              IN  /\ e \in DownstreamData /\ e.upstream = v
                  /\ e.channel_id = d.channel_id /\ e.handshake = d.handshake
                  /\ e.cached_difficulty = d.cached_difficulty
                  /\ e.cached_notify = d.cached_notify
                  /\ e.pending = d.pending /\ e.target = d.target
  BY DEF DownstreamData
<1>5. \A v \in Seq({"subscribe", "authorize"}) :
              LET e == [d EXCEPT !.queued = v]
              IN  /\ e \in DownstreamData /\ e.queued = v
                  /\ e.channel_id = d.channel_id /\ e.handshake = d.handshake
                  /\ e.cached_difficulty = d.cached_difficulty
                  /\ e.cached_notify = d.cached_notify
                  /\ e.pending = d.pending /\ e.target = d.target
  BY DEF DownstreamData
<1> QED
  BY <1>1, <1>2, <1>3, <1>4, <1>5

\* The data after the cached set_difficulty, if there is one, is sent.
Sent(d) == IF d.cached_difficulty = None THEN d ELSE TakesPending(d)

\* Sending changes neither what is wanted nor what is on its way.
LEMMA SentKeeps ==
  ASSUME NEW d \in DownstreamData
  PROVE  /\ Sent(d) \in DownstreamData /\ Sent(d).cached_difficulty = None
         /\ Sent(d).channel_id = d.channel_id /\ Sent(d).handshake = d.handshake
         /\ Sent(d).cached_notify = d.cached_notify /\ Wants(Sent(d)) = Wants(d)
<1>1. CASE d.cached_difficulty = None
  BY <1>1 DEF Sent
<1>2. CASE d.cached_difficulty # None
  <2> DEFINE t == IF d.pending = None THEN d.target ELSE d.pending
             e == [d EXCEPT !.cached_difficulty = None, !.target = t, !.pending = None]
  <2>1. Sent(d) = e
    BY <1>2 DEF Sent, TakesPending, DownstreamData
  <2>2. t \in Target
    BY DEF DownstreamData
  <2> HIDE DEF t
  <2>3. e \in DownstreamData /\ e.cached_difficulty = None /\ e.target = t /\ e.pending = None
        /\ e.channel_id = d.channel_id /\ e.handshake = d.handshake
        /\ e.cached_notify = d.cached_notify
    BY <2>2 DEF DownstreamData
  <2>4. Wants(e) = Wants(d)
    BY <2>3 DEF Wants, t
  <2> HIDE DEF e
  <2> QED
    BY <2>1, <2>3, <2>4
<1> QED
  BY <1>1, <1>2

\* The data after the handshake.
LEMMA CompletedKeeps ==
  ASSUME NEW d \in DownstreamData
  PROVE  LET e == [Sent(d) EXCEPT !.handshake = TRUE, !.cached_notify = None]
         IN  /\ e \in DownstreamData /\ e.cached_difficulty = None /\ e.handshake
             /\ e.cached_notify = None /\ e.channel_id = d.channel_id /\ Wants(e) = Wants(d)
             /\ d.cached_difficulty = None => e.pending = d.pending /\ e.target = d.target
<1>1. \A f \in DownstreamData :
        LET e == [f EXCEPT !.handshake = TRUE, !.cached_notify = None]
        IN  /\ e \in DownstreamData /\ e.cached_difficulty = f.cached_difficulty /\ e.handshake
            /\ e.cached_notify = None /\ e.channel_id = f.channel_id
            /\ Wants(e) = Wants(f) /\ e.pending = f.pending /\ e.target = f.target
  BY DEF DownstreamData, Wants
<1>2. /\ Sent(d) \in DownstreamData /\ Sent(d).cached_difficulty = None
      /\ Sent(d).channel_id = d.channel_id /\ Wants(Sent(d)) = Wants(d)
      /\ d.cached_difficulty = None => Sent(d) = d
  BY SentKeeps DEF Sent
<1> QED
  BY <1>1, <1>2

-----------------------------------------------------------------------------
(* A miner stays sound when its own task takes a step. *)

Holding == [difficulty : Target \cup {0}, job : 0..MaxJobs]

\* handle_sv1_handshake_completion: what was cached is sent.
LEMMA HandshakeSound ==
  ASSUME NEW mo, NEW o, NEW setup, NEW m, NEW d \in DownstreamData, NEW h \in Holding, NEW box,
         NEW w, NEW u, NEW ov \in BOOLEAN, NEW valid,
         Sound(mo, o, setup, m, "connected", d, h, box, w, u, ov, valid), d.channel_id # None
  PROVE  Sound(mo, o, setup, m, "connected",
               [Sent(d) EXCEPT !.handshake = TRUE, !.cached_notify = None],
               [difficulty |-> DifficultySent(d, h), job |-> JobSent(d, h)], box, w, u, ov, valid)
<1> DEFINE e == [Sent(d) EXCEPT !.handshake = TRUE, !.cached_notify = None]
           g == [difficulty |-> DifficultySent(d, h), job |-> JobSent(d, h)]
<1>1. /\ e.cached_difficulty = None /\ e.handshake
      /\ e.cached_notify = None /\ e.channel_id = d.channel_id /\ Wants(e) = Wants(d)
      /\ d.cached_difficulty = None => e.pending = d.pending /\ e.target = d.target
  BY CompletedKeeps
<1>2. DifficultySent(e, g) = DifficultySent(d, h) /\ JobSent(e, g) = JobSent(d, h)
      /\ g.difficulty = DifficultySent(d, h) /\ g.job = JobSent(d, h)
  BY <1>1 DEF DifficultySent, JobSent
<1> HIDE DEF e, g
<1>3. Untold(d, h, w) => Untold(e, g, w)
  BY <1>1, <1>2 DEF Untold, DifficultySent
<1>4. InStep(mo, d, h, box, w, u) => InStep(mo, e, g, box, w, u)
  BY <1>1, <1>2 DEF InStep
<1>5. Preceded(d, h) => Preceded(e, g)
  <2>1. d.cached_difficulty # None => d.cached_difficulty # 0
    BY Bounds DEF DownstreamData
  <2> QED
    BY <1>1, <1>2, <2>1 DEF Preceded, JobSent, DifficultySent
<1>6. WillPrecede(d, h, box) => WillPrecede(e, g, box)
  BY <1>1, <1>2 DEF WillPrecede
<1>7. Current(valid, d, h, box) => Current(valid, e, g, box)
  BY <1>1, <1>2 DEF Current
<1> QED
  BY <1>1, <1>3, <1>4, <1>5, <1>6, <1>7 DEF Sound, e, g

\* What the task makes of the first message of its inbox (Delivered).
Takes(x, d, h, e, g) ==
  LET mine == x.channel = All \/ x.channel = d.channel_id
  IN  \/ ~mine /\ e = d /\ g = h
      \/ mine /\ x.kind = "difficulty" /\ e = [d EXCEPT !.cached_difficulty = x.value] /\ g = h
      \/ mine /\ x.kind = "notify" /\ ~d.handshake /\ e = [d EXCEPT !.cached_notify = x.value]
         /\ g = h
      \/ mine /\ x.kind = "notify" /\ d.handshake /\ e = Sent(d)
         /\ g = [difficulty |-> DifficultySent(d, h), job |-> x.value]

\* The message counts as sent from now on, the data is else as it was.
LEMMA TakesKeeps ==
  ASSUME NEW x \in Message, NEW d \in DownstreamData, NEW h \in Holding, NEW e, NEW g,
         Takes(x, d, h, e, g), d.handshake => d.cached_notify = None
  PROVE  /\ e \in DownstreamData /\ g \in Holding
         /\ e.channel_id = d.channel_id /\ e.handshake = d.handshake /\ Wants(e) = Wants(d)
         /\ d.handshake => e.cached_notify = None
         /\ DifficultySent(e, g) = IF Counts(x, "difficulty", d.channel_id) THEN x.value
                                   ELSE DifficultySent(d, h)
         /\ JobSent(e, g) = IF Counts(x, "notify", d.channel_id) THEN x.value ELSE JobSent(d, h)
         /\ Counts(x, "difficulty", d.channel_id) => x.value # 0
<1> DEFINE mine == x.channel = All \/ x.channel = d.channel_id
<1>0. /\ x.kind = "difficulty" => x.value \in Target /\ x.value # 0 /\ x.value # None
      /\ x.kind = "notify" => x.value \in 1..MaxJobs /\ x.value # None
      /\ x.kind \in {"difficulty", "notify"}
  BY Bounds DEF Message
<1>1. CASE ~mine /\ e = d /\ g = h
  BY <1>0, <1>1 DEF Counts
<1>2. CASE mine /\ x.kind = "difficulty" /\ e = [d EXCEPT !.cached_difficulty = x.value] /\ g = h
  <2>1. /\ e \in DownstreamData /\ e.cached_difficulty = x.value
        /\ e.channel_id = d.channel_id /\ e.handshake = d.handshake
        /\ e.cached_notify = d.cached_notify /\ Wants(e) = Wants(d)
    BY <1>0, <1>2, Stored
  <2> QED
    BY <1>0, <1>2, <2>1 DEF Counts, DifficultySent, JobSent
<1>3. CASE mine /\ x.kind = "notify" /\ ~d.handshake /\ e = [d EXCEPT !.cached_notify = x.value]
           /\ g = h
  <2>1. /\ e \in DownstreamData /\ e.cached_notify = x.value
        /\ e.channel_id = d.channel_id /\ e.handshake = d.handshake
        /\ e.cached_difficulty = d.cached_difficulty
        /\ e.pending = d.pending /\ e.target = d.target
    BY <1>0, <1>3, Stored
  <2> QED
    BY <1>0, <1>3, <2>1 DEF Counts, DifficultySent, JobSent, Wants
<1>4. CASE mine /\ x.kind = "notify" /\ d.handshake /\ e = Sent(d)
           /\ g = [difficulty |-> DifficultySent(d, h), job |-> x.value]
  <2>1. /\ e \in DownstreamData /\ e.cached_difficulty = None
        /\ e.channel_id = d.channel_id /\ e.handshake = d.handshake
        /\ e.cached_notify = d.cached_notify /\ Wants(e) = Wants(d)
    BY <1>4, SentKeeps
  <2>2. DifficultySent(d, h) \in Target \cup {0}
    BY DEF DifficultySent, Holding, DownstreamData
  <2>3. g \in Holding /\ g.difficulty = DifficultySent(d, h) /\ g.job = x.value
    BY <1>0, <1>4, <2>2, Bounds DEF Holding
  <2>4. e.cached_notify = None
    BY <1>4, <2>1
  <2>5. Counts(x, "notify", d.channel_id) /\ ~Counts(x, "difficulty", d.channel_id)
    BY <1>4 DEF Counts
  <2> QED
    BY <2>1, <2>3, <2>4, <2>5 DEF DifficultySent, JobSent
<1> QED
  BY <1>1, <1>2, <1>3, <1>4 DEF Takes

\* handle_sv1_server_message.
LEMMA DeliveredSound ==
  ASSUME NEW mo, NEW o \in Seq(Miner), Len(o) <= MaxChannels,
         NEW setup \in {All, Len(o)}, NEW m,
         NEW d \in DownstreamData, NEW h \in Holding, NEW box,
         NEW w, NEW u, NEW ov \in BOOLEAN, NEW valid,
         Sound(mo, o, setup, m, "connected", d, h, box, w, u, ov, valid), box # <<>>,
         NEW e, NEW g, Takes(Head(box), d, h, e, g)
  PROVE  Sound(mo, o, setup, m, "connected", e, g, Tail(box), w, u, ov, valid)
<1> DEFINE n == SentUpTo(o, setup)
           S == Sendable(n, mo.aggregated)
           c == d.channel_id
           x == Head(box)
<1>0. n \in Nat
  BY DEF SentUpTo, All
<1> HIDE DEF n
<1>1. box \in Seq(S) /\ Tail(box) \in Seq(S) /\ x \in S /\ x \in Message
  <2>1. box \in Seq(S)
    BY DEF Sound, n
  <2>2. x \in S /\ Tail(box) \in Seq(S)
    BY <2>1
  <2> QED
    BY <2>1, <2>2 DEF Sendable
<1>2. d.handshake => d.channel_id # None /\ d.cached_notify = None
  BY DEF Sound
<1>3. /\ e \in DownstreamData /\ g \in Holding
      /\ e.channel_id = c /\ e.handshake = d.handshake /\ Wants(e) = Wants(d)
      /\ d.handshake => e.cached_notify = None
      /\ DifficultySent(e, g) = IF Counts(x, "difficulty", c) THEN x.value
                                ELSE DifficultySent(d, h)
      /\ JobSent(e, g) = IF Counts(x, "notify", c) THEN x.value ELSE JobSent(d, h)
      /\ Counts(x, "difficulty", c) => x.value # 0
  BY <1>1, <1>2, TakesKeeps
<1>4. InStep(mo, d, h, box, w, u) => InStep(mo, e, g, Tail(box), w, u)
  <2>1. ASSUME NEW v, Latest(box, "difficulty", c, DifficultySent(d, h), v)
        PROVE  Latest(Tail(box), "difficulty", c, DifficultySent(e, g), v)
    BY <1>1, <1>3, <2>1, LatestTail
  <2> QED
    BY <1>3, <2>1 DEF InStep
<1>5. Current(valid, d, h, box) => Current(valid, e, g, Tail(box))
  <2>1. ASSUME NEW v, Latest(box, "notify", c, JobSent(d, h), v)
        PROVE  Latest(Tail(box), "notify", c, JobSent(e, g), v)
    BY <1>1, <1>3, <2>1, LatestTail
  <2> QED
    BY <1>3, <2>1 DEF Current
<1>6. WillPrecede(d, h, box) => WillPrecede(e, g, Tail(box))
  <2>1. ASSUME DifficultyFirst(box, c)
        PROVE  DifficultySent(e, g) # 0 \/ DifficultyFirst(Tail(box), c)
    BY <1>1, <1>3, <2>1, FirstTail
  <2> QED
    BY <1>3, <2>1 DEF WillPrecede
<1>7. ASSUME c \in {None, setup}
      PROVE  ~Counts(x, "difficulty", c) /\ (~mo.aggregated => ~Counts(x, "notify", c))
  <2>1. c \in (1..MaxChannels) \cup {None}
    BY DEF DownstreamData
  <2>2. c \notin 0..n
    BY <1>7, <2>1, Bounds DEF SentUpTo, n
  <2>3. 1 \in DOMAIN box /\ box[1] = x
    BY <1>1
  <2> QED
    BY <1>0, <1>1, <2>2, <2>3, NothingCounts
<1>8. ASSUME c \in {None, setup}, Untold(d, h, w)
      PROVE  Untold(e, g, w)
  <2>1. ~Counts(x, "difficulty", c)
    BY <1>7, <1>8
  <2>2. d.cached_difficulty = None /\ DifficultySent(d, h) = 0 /\ Sent(d) = d
    BY <1>8 DEF Untold, DifficultySent, Sent
  <2>3. \/ e = d /\ g = h
        \/ e = [d EXCEPT !.cached_notify = x.value] /\ x.kind = "notify" /\ g = h
        \/ e = d /\ g = [difficulty |-> 0, job |-> x.value]
    BY <2>1, <2>2 DEF Takes, Counts
  <2>4. CASE e = [d EXCEPT !.cached_notify = x.value] /\ x.kind = "notify" /\ g = h
    <3>1. x.value \in 1..MaxJobs
      BY <1>1, <2>4 DEF Message
    <3>2. /\ e.cached_difficulty = d.cached_difficulty
          /\ e.pending = d.pending /\ e.target = d.target
      BY <2>4, <3>1, Stored
    <3> QED
      BY <1>8, <2>4, <3>2 DEF Untold
  <2> QED
    BY <1>8, <2>3, <2>4 DEF Untold
<1>9. ASSUME Preceded(d, h), ~Counts(x, "notify", c) \/ DifficultySent(d, h) # 0
      PROVE  Preceded(e, g)
  <2>0. /\ x.kind = "difficulty" => x.value \in Target /\ x.value # 0
        /\ x.kind = "notify" => x.value \in 1..MaxJobs
    BY <1>1, Bounds DEF Message
  <2>1. CASE e = d /\ g = h
    BY <1>9, <2>1
  <2>2. CASE /\ x.kind = "difficulty" /\ Counts(x, "difficulty", c)
             /\ e = [d EXCEPT !.cached_difficulty = x.value] /\ g = h
    BY <1>3, <1>9, <2>0, <2>2 DEF Preceded
  <2>3. CASE /\ Counts(x, "notify", c) /\ e = [d EXCEPT !.cached_notify = x.value] /\ g = h
             /\ x.kind = "notify"
    <3>1. DifficultySent(e, g) # 0
      BY <1>3, <1>9, <2>3 DEF Counts
    <3> QED
      BY <1>9, <2>3, <3>1 DEF Preceded
  <2>4. CASE /\ Counts(x, "notify", c) /\ d.handshake
             /\ g = [difficulty |-> DifficultySent(d, h), job |-> x.value]
    <3>1. g.difficulty # 0 /\ e.cached_notify = None
      BY <1>3, <1>9, <2>4
    <3> QED
      BY <3>1 DEF Preceded
  <2> QED
    BY <2>1, <2>2, <2>3, <2>4 DEF Takes, Counts
<1>10. ASSUME ~mo.aggregated, Preceded(d, h), c \notin {None, setup} => WillPrecede(d, h, box)
       PROVE  Preceded(e, g)
  <2>1. DifficultyFirst(box, c) => ~Counts(x, "notify", c)
    BY <1>1, FirstTail
  <2> QED
    BY <1>7, <1>9, <1>10, <2>1 DEF WillPrecede
<1> QED
  BY <1>1, <1>2, <1>3, <1>4, <1>5, <1>6, <1>8, <1>10 DEF Sound, n

\* A miner that has left.
LEMMA GoneSound ==
  ASSUME NEW mo, NEW o, NEW setup, NEW m, NEW cn, cn # "connected", NEW d, NEW w, NEW u, NEW ov,
         NEW valid, d.handshake => d.channel_id # None /\ d.cached_notify = None
  PROVE  Sound(mo, o, setup, m, cn, d, Nothing, <<>>, w, u, ov, valid)
BY DEF Sound

-----------------------------------------------------------------------------
(* A miner stays sound when the server sets up a channel. *)

\* The channel of miner n, the newest, is opened for another miner.
LEMMA OpenedSound ==
  ASSUME NEW mo, NEW o \in Seq(Miner), NEW n \in Miner, NEW m \in Miner, NEW cn,
         m # n \/ cn # "connected",
         NEW d \in DownstreamData, d.channel_id # None => d.channel_id \in DOMAIN o,
         NEW h, NEW box, NEW w, NEW u, NEW ov \in BOOLEAN, NEW valid,
         NEW next \in {All, Len(o) + 1},
         Sound(mo, o, All, m, cn, d, h, box, w, u, ov, valid)
  PROVE  Sound(mo, Append(o, n), next, m, cn, d, h, box, w, u, ov, valid)
<1> DEFINE p == Append(o, n)
<1>1. Len(o) \in Nat /\ Len(p) = Len(o) + 1 /\ DOMAIN o = 1..Len(o) /\ DOMAIN p = 1..(Len(o) + 1)
      /\ p[Len(o) + 1] = n /\ \A i \in 1..Len(o) : p[i] = o[i]
  OBVIOUS
<1> HIDE DEF p
<1>2. SentUpTo(o, All) \in Int /\ SentUpTo(p, next) \in Int /\ SentUpTo(o, All) <= SentUpTo(p, next)
  BY <1>1 DEF SentUpTo, All
<1>3. box \in Seq(Sendable(SentUpTo(p, next), mo.aggregated))
  BY <1>2, SendableGrows DEF Sound
<1>4. m # n => (Twice(p, m) <=> Twice(o, m))
  <2>1. ASSUME m # n, Twice(p, m) PROVE Twice(o, m)
    <3>1. PICK i \in DOMAIN p, j \in DOMAIN p : i # j /\ p[i] = m /\ p[j] = m
      BY <2>1 DEF Twice
    <3>2. i \in DOMAIN o /\ j \in DOMAIN o /\ o[i] = m /\ o[j] = m
      BY <1>1, <2>1, <3>1
    <3> QED
      BY <3>1, <3>2 DEF Twice
  <2>2. ASSUME Twice(o, m) PROVE Twice(p, m)
    <3>1. PICK i \in DOMAIN o, j \in DOMAIN o : i # j /\ o[i] = m /\ o[j] = m
      BY <2>2 DEF Twice
    <3>2. i \in DOMAIN p /\ j \in DOMAIN p /\ p[i] = m /\ p[j] = m
      BY <1>1, <3>1
    <3> QED
      BY <3>1, <3>2 DEF Twice
  <2> QED
    BY <2>1, <2>2
<1>5. d.channel_id # All /\ (d.channel_id # None => d.channel_id # next)
  <2>1. d.channel_id \in (1..MaxChannels) \cup {None}
    BY DEF DownstreamData
  <2> QED
    BY <1>1, <2>1, Bounds
<1> QED
  BY <1>3, <1>4, <1>5 DEF Sound, p

\* The channel is opened for the miner itself. Without a second one, it had none.
LEMMA OpensSound ==
  ASSUME NEW mo, NEW o \in Seq(Miner), Len(o) < MaxChannels, NEW m \in Miner, NEW cn,
         NEW d \in DownstreamData,
         d.channel_id # None => d.channel_id \in DOMAIN o /\ o[d.channel_id] = m,
         NEW h, NEW box, NEW w, NEW u, NEW ov \in BOOLEAN, NEW valid, NEW then,
         IF mo.aggregated THEN then = valid ELSE then = {},
         NEW e, e.channel_id = Len(o) + 1,
         /\ e.handshake = d.handshake /\ e.cached_difficulty = d.cached_difficulty
         /\ e.cached_notify = d.cached_notify
         /\ e.pending = d.pending /\ e.target = d.target,
         Sound(mo, o, All, m, cn, d, h, box, w, u, ov, valid)
  PROVE  Sound(mo, Append(o, m), Len(o) + 1, m, cn, e, h, box, w, u, ov, then)
<1> DEFINE p == Append(o, m)
           c == Len(o) + 1
<1>1. Len(o) \in Nat /\ Len(p) = c /\ DOMAIN o = 1..Len(o) /\ DOMAIN p = 1..c
      /\ p[c] = m /\ \A i \in 1..Len(o) : p[i] = o[i]
  OBVIOUS
<1>2. c \in 1..MaxChannels /\ c # None /\ c # All /\ c \notin 0..Len(o) /\ c = Len(o) + 1
  BY <1>1, Bounds
<1> HIDE DEF c
<1>3. /\ e.channel_id = c
      /\ e.handshake = d.handshake /\ e.cached_difficulty = d.cached_difficulty
      /\ e.cached_notify = d.cached_notify
      /\ e.pending = d.pending /\ e.target = d.target
  BY <1>2
<1>4. SentUpTo(o, All) = Len(o) /\ SentUpTo(p, c) = Len(o)
  BY <1>1, <1>2 DEF SentUpTo
<1> HIDE DEF p
<1>5. ~Twice(p, m) => d.channel_id = None
  <2>1. ASSUME d.channel_id # None PROVE Twice(p, m)
    <3>1. d.channel_id \in DOMAIN p /\ p[d.channel_id] = m /\ d.channel_id # c /\ c \in DOMAIN p
      BY <1>1, <1>2, <2>1
    <3> QED
      BY <1>1, <3>1 DEF Twice
  <2> QED
    BY <2>1
<1>6. DifficultySent(e, h) = DifficultySent(d, h) /\ JobSent(e, h) = JobSent(d, h)
  BY <1>3 DEF DifficultySent, JobSent
<1>7. Untold(d, h, w) => Untold(e, h, w)
  BY <1>3 DEF Untold
<1>8. Preceded(d, h) => Preceded(e, h)
  BY <1>3, <1>6 DEF Preceded
<1>9. ASSUME d.channel_id = None, Current(valid, d, h, box) PROVE Current(valid, e, h, box)
  <2>1. box \in Seq(Sendable(Len(o), mo.aggregated))
    BY <1>4 DEF Sound
  <2>2. ASSUME NEW v, Latest(box, "notify", None, JobSent(d, h), v)
        PROVE  Latest(box, "notify", c, JobSent(e, h), v)
    BY <1>1, <1>2, <1>6, <2>1, <2>2, LatestRechannel
  <2> QED
    BY <1>3, <1>9, <2>2 DEF Current
<1>10. Twice(o, m) => Twice(p, m)
  <2>1. ASSUME NEW i \in DOMAIN o, NEW j \in DOMAIN o, i # j, o[i] = m, o[j] = m
        PROVE  Twice(p, m)
    <3>1. i \in DOMAIN p /\ j \in DOMAIN p /\ p[i] = m /\ p[j] = m
      BY <1>1, <1>2, <2>1
    <3> QED
      BY <2>1, <3>1 DEF Twice
  <2> QED
    BY <2>1 DEF Twice
<1> QED
  BY <1>2, <1>3, <1>4, <1>5, <1>7, <1>8, <1>9, <1>10 DEF Sound, p, c

\* The queue is taken, and the first set_difficulty goes out to the miner of the channel.
LEMMA DrainedSound ==
  ASSUME NEW mo, NEW o \in Seq(Miner), Len(o) # 0, Len(o) <= MaxChannels, NEW m, NEW cn,
         NEW d \in DownstreamData, NEW e,
         /\ e.channel_id = d.channel_id /\ e.handshake = d.handshake
         /\ e.cached_difficulty = d.cached_difficulty
         /\ e.cached_notify = d.cached_notify
         /\ e.pending = d.pending /\ e.target = d.target,
         NEW h, NEW box, NEW more, NEW w, NEW u, NEW ov \in BOOLEAN, NEW valid,
         more = IF cn = "connected" /\ d.channel_id = Len(o)
                THEN Append(box, Difficulty(Len(o), FirstTarget)) ELSE box,
         Sound(mo, o, Len(o), m, cn, d, h, box, w, u, ov, valid)
  PROVE  Sound(mo, o, All, m, cn, e, h, more, w, u, ov, valid)
<1> DEFINE c == Len(o)
           x == Difficulty(c, FirstTarget)
           S == Sendable(c, mo.aggregated)
<1>0. c \in Nat /\ c # All /\ c \in 1..MaxChannels /\ c # None
  BY Bounds
<1>1. /\ e.channel_id = d.channel_id /\ e.handshake = d.handshake
      /\ e.cached_difficulty = d.cached_difficulty
      /\ e.cached_notify = d.cached_notify
      /\ e.pending = d.pending /\ e.target = d.target
  OBVIOUS
<1>2. /\ Wants(e) = Wants(d) /\ DifficultySent(e, h) = DifficultySent(d, h)
      /\ JobSent(e, h) = JobSent(d, h)
  BY <1>1 DEF Wants, DifficultySent, JobSent
<1>3. SentUpTo(o, c) = c - 1 /\ SentUpTo(o, All) = c
  BY <1>0 DEF SentUpTo
<1>4. box \in Seq(Sendable(c - 1, mo.aggregated)) /\ box \in Seq(S)
  <2>1. c \in Int /\ c - 1 \in Int /\ c - 1 <= c
    BY <1>0
  <2>2. box \in Seq(Sendable(c - 1, mo.aggregated))
    BY <1>3 DEF Sound
  <2> HIDE DEF c
  <2> QED
    BY <2>1, <2>2, SendableGrows
<1>5. x \in S /\ x.value = FirstTarget /\ x.kind = "difficulty" /\ x.channel = c
  <2>1. x \in Message
    BY <1>0, Bounds DEF Difficulty, Message
  <2> QED
    BY <1>0, <2>1 DEF Difficulty, Sendable
<1>6. more \in Seq(S)
  <2>1. more \in {Append(box, x), box}
    OBVIOUS
  <2> HIDE DEF S, x
  <2>2. Append(box, x) \in Seq(S)
    BY <1>4, <1>5
  <2> QED
    BY <1>4, <2>1, <2>2
<1>7. d.channel_id # All
  BY Bounds DEF DownstreamData
<1> HIDE DEF c, x, S
<1>8. CASE cn # "connected"
  BY <1>1, <1>3, <1>6, <1>8 DEF Sound, S, c
<1>9. CASE cn = "connected" /\ d.channel_id # c
  <2>1. more = box
    BY <1>9 DEF c
  <2>2. InStep(mo, d, h, box, w, u) => InStep(mo, e, h, more, w, u)
    BY <1>1, <1>2, <2>1 DEF InStep
  <2>3. /\ WillPrecede(d, h, box) => WillPrecede(e, h, more)
        /\ Preceded(d, h) => Preceded(e, h)
        /\ Untold(d, h, w) => Untold(e, h, w)
        /\ Current(valid, d, h, box) => Current(valid, e, h, more)
    BY <1>1, <1>2, <2>1 DEF WillPrecede, Preceded, Untold, Current
  <2> QED
    BY <1>1, <1>3, <1>6, <1>7, <1>9, <2>2, <2>3 DEF Sound, S, c
<1>10. CASE cn = "connected" /\ d.channel_id = c
  <2>1. more = Append(box, x)
    BY <1>10 DEF c, x
  <2>2. c - 1 \in Nat /\ c \notin 0..(c - 1)
    BY <1>0
  <2>3. /\ Counts(x, "difficulty", c) /\ ~Counts(x, "notify", c)
        /\ ~mo.aggregated => \A k \in DOMAIN box : ~Counts(box[k], "notify", c)
    BY <1>4, <1>5, <2>2, NothingCounts DEF Counts
  <2>4. Untold(d, h, w) => InStep(mo, e, h, more, w, u)
    <3>1. Latest(more, "difficulty", c, DifficultySent(e, h), FirstTarget)
      BY <1>4, <1>5, <2>1, <2>3, LatestAppend
    <3> QED
      BY <1>1, <1>2, <1>10, <3>1 DEF Untold, InStep, Wants
  <2>5. ~mo.aggregated => WillPrecede(e, h, more)
    BY <1>1, <1>4, <1>5, <1>10, <2>1, <2>3, FirstAppend DEF WillPrecede
  <2>6. Preceded(d, h) => Preceded(e, h)
    BY <1>1, <1>2 DEF Preceded
  <2>7. Current(valid, d, h, box) => Current(valid, e, h, more)
    <3>1. ASSUME NEW v, Latest(box, "notify", c, JobSent(d, h), v)
          PROVE  Latest(more, "notify", c, JobSent(e, h), v)
      BY <1>2, <1>4, <1>5, <2>1, <2>3, <3>1, LatestAppend
    <3> QED
      BY <1>1, <1>10, <3>1 DEF Current
  <2> QED
    BY <1>0, <1>1, <1>3, <1>6, <1>7, <1>10, <2>4, <2>5, <2>6, <2>7 DEF Sound, S, c
<1> QED
  BY <1>8, <1>9, <1>10

-----------------------------------------------------------------------------
(* A miner stays sound when a job is stored and sent. *)

\* A miner that the notify reaches: the job is the newest of the new list.
LEMMA NotifiedSound ==
  ASSUME NEW mo, NEW o \in Seq(Miner), NEW m, NEW d \in DownstreamData, NEW h, NEW box,
         NEW w, NEW u, NEW ov \in BOOLEAN, NEW valid, NEW then,
         NEW x \in Sendable(Len(o), mo.aggregated), Counts(x, "notify", d.channel_id),
         x.value \in then, \A j \in then : j <= x.value,
         Sound(mo, o, All, m, "connected", d, h, box, w, u, ov, valid)
  PROVE  Sound(mo, o, All, m, "connected", d, h, Append(box, x), w, u, ov, then)
<1> DEFINE S == Sendable(Len(o), mo.aggregated)
           more == Append(box, x)
<1>1. SentUpTo(o, All) = Len(o)
  BY DEF SentUpTo
<1>2. box \in Seq(S) /\ more \in Seq(S)
  <2>1. box \in Seq(S)
    BY <1>1 DEF Sound
  <2> HIDE DEF S
  <2> QED
    BY <2>1 DEF S
<1>3. ~Counts(x, "difficulty", d.channel_id)
  BY DEF Counts
<1> HIDE DEF S
<1>4. x \in S
  BY DEF S
<1>5. InStep(mo, d, h, box, w, u) => InStep(mo, d, h, more, w, u)
  BY <1>2, <1>3, <1>4, LatestAppend DEF InStep
<1>6. WillPrecede(d, h, box) => WillPrecede(d, h, more)
  BY <1>2, <1>4, FirstAppend DEF WillPrecede
<1>7. Current(then, d, h, more)
  BY <1>2, <1>4, LatestAppend DEF Current
<1> HIDE DEF more
<1> QED
  BY <1>1, <1>2, <1>5, <1>6, <1>7 DEF Sound, S, more

\* A miner that it does not reach: its newest job is still the newest.
LEMMA UnnotifiedSound ==
  ASSUME NEW mo, NEW o, NEW m, NEW cn, NEW d, NEW h, NEW box,
         NEW w, NEW u, NEW ov \in BOOLEAN, NEW valid, NEW then,
         \A v \in valid : (\A j \in valid : j <= v) => v \in then /\ \A j \in then : j <= v,
         cn = "connected" /\ (mo.aggregated \/ d.channel_id # None) /\ then # {} => valid # {},
         Sound(mo, o, All, m, cn, d, h, box, w, u, ov, valid)
  PROVE  Sound(mo, o, All, m, cn, d, h, box, w, u, ov, then)
<1>1. Current(valid, d, h, box) => Current(then, d, h, box)
  BY DEF Current
<1> QED
  BY <1>1 DEF Sound

-----------------------------------------------------------------------------
(* A miner stays sound when targets change. *)

\* Messages of another kind at the end of the inbox change nothing.
LEMMA LatestConcat ==
  ASSUME NEW S, NEW box \in Seq(S), NEW more \in Seq(S), NEW kind, NEW c, NEW now, NEW v,
         \A k \in DOMAIN more : ~Counts(more[k], kind, c), Latest(box, kind, c, now, v)
  PROVE  Latest(box \o more, kind, c, now, v)
<1> DEFINE n == Len(box)
           both == box \o more
<1>1. /\ n \in Nat /\ DOMAIN box = 1..n
      /\ \A k \in DOMAIN both : IF k <= n THEN k \in 1..n /\ both[k] = box[k]
                                ELSE k - n \in DOMAIN more /\ both[k] = more[k - n]
      /\ \A k \in 1..n : k \in DOMAIN both /\ both[k] = box[k]
      /\ DOMAIN both \subseteq Nat
  OBVIOUS
<1> HIDE DEF n, both
<1>2. \A k \in DOMAIN both : k > n => ~Counts(both[k], kind, c)
  BY <1>1
<1>3. CASE \E k \in DOMAIN box :
             /\ Counts(box[k], kind, c) /\ box[k].value = v
             /\ \A j \in DOMAIN box : j > k => ~Counts(box[j], kind, c)
  <2>1. PICK k \in 1..n :
             /\ Counts(box[k], kind, c) /\ box[k].value = v
             /\ \A j \in 1..n : j > k => ~Counts(box[j], kind, c)
    BY <1>1, <1>3
  <2>2. k \in DOMAIN both /\ Counts(both[k], kind, c) /\ both[k].value = v
    BY <1>1, <2>1
  <2>3. \A j \in DOMAIN both : j > k => ~Counts(both[j], kind, c)
    BY <1>1, <1>2, <2>1
  <2> QED
    BY <2>2, <2>3 DEF Latest, both
<1>4. CASE v = now /\ \A k \in DOMAIN box : ~Counts(box[k], kind, c)
  <2>1. \A j \in DOMAIN both : ~Counts(both[j], kind, c)
    BY <1>1, <1>2, <1>4
  <2> QED
    BY <1>4, <2>1 DEF Latest, both
<1> QED
  BY <1>3, <1>4 DEF Latest

LEMMA FirstConcat ==
  ASSUME NEW S, NEW box \in Seq(S), NEW more \in Seq(S), NEW c, DifficultyFirst(box, c)
  PROVE  DifficultyFirst(box \o more, c)
<1> DEFINE n == Len(box)
           both == box \o more
<1>1. /\ n \in Nat /\ DOMAIN box = 1..n /\ DOMAIN both \subseteq Nat
      /\ \A k \in 1..n : k \in DOMAIN both /\ both[k] = box[k]
      /\ \A k \in DOMAIN both : k <= n => k \in 1..n
  OBVIOUS
<1> HIDE DEF n, both
<1>2. PICK k \in 1..n :
        /\ Counts(box[k], "difficulty", c)
        /\ \A j \in 1..n : j < k => ~Counts(box[j], "notify", c)
  BY <1>1 DEF DifficultyFirst
<1>3. k \in DOMAIN both /\ Counts(both[k], "difficulty", c)
  BY <1>1, <1>2
<1>4. \A j \in DOMAIN both : j < k => ~Counts(both[j], "notify", c)
  BY <1>1, <1>2
<1> QED
  BY <1>3, <1>4 DEF DifficultyFirst, both

-----------------------------------------------------------------------------
(* The targets that wait for the upstream, and what it releases. *)

\* Every set of numbers has a least one.
LEMMA LeastNumber ==
  ASSUME NEW T \in SUBSET Nat, T # {}
  PROVE  \E n \in T : \A k \in T : n <= k
<1> DEFINE less == {pair \in Nat \X Nat : pair[1] < pair[2]}
<1>1. IsWellFoundedOn(less, Nat)
  BY NatLessThanWellFounded, Zenon DEF OpToRel
<1>2. PICK n \in T : \A k \in T : <<k, n>> \notin less
  <2> HIDE DEF less
  <2> QED
    BY <1>1, WFMin
<1>3. \A k \in T : ~(k < n)
  BY <1>2
<1> QED
  BY <1>2, <1>3

\* Induction over an initial segment, by the least number left out.
LEMMA Segment ==
  ASSUME NEW n \in Nat, NEW T, 0 \in T, \A i \in 0..n : i # n /\ i \in T => i + 1 \in T
  PROVE  \A i \in 0..n : i \in T
<1> DEFINE left == (0..n) \ T
<1> SUFFICES ASSUME left # {} PROVE FALSE
  OBVIOUS
<1>1. PICK k \in left : \A i \in left : k <= i
  <2>1. left \in SUBSET Nat
    OBVIOUS
  <2> HIDE DEF left
  <2> QED
    BY <2>1, LeastNumber
<1>2. k \in 0..n /\ k # 0 /\ k \notin T
  BY <1>1
<1>3. k - 1 \in 0..n /\ k - 1 # n /\ k - 1 \in T
  BY <1>1, <1>2
<1> QED
  BY <1>2, <1>3

\* The least of several targets.
LEMMA LeastBelow ==
  ASSUME NEW T \in SUBSET Nat, NEW t \in T
  PROVE  Least(T) \in T /\ Least(T) <= t
<1>1. \E n \in T : \A k \in T : n <= k
  BY LeastNumber
<1> QED
  BY <1>1 DEF Least

\* The messages made of the first n of the waiting targets.
Releasing(queue, c, v, t) == IF v >= t THEN Append(queue, Difficulty(c, v)) ELSE queue

Releases(f, n, c, w, t) ==
  f = [i \in 0..n |-> IF i = 0 THEN <<>> ELSE Releasing(f[i - 1], c, w[i], t)]

LEMMA ReleasesExist ==
  ASSUME NEW n \in Nat, NEW c, NEW w, NEW t
  PROVE  \E f : Releases(f, n, c, w, t)
<1> DEFINE done == {i \in 0..n : \E f : Releases(f, i, c, w, t)}
<1>1. 0 \in done
  <2> DEFINE f == [i \in 0..0 |-> <<>>]
  <2>1. Releases(f, 0, c, w, t)
    BY DEF Releases
  <2> QED
    BY <2>1
<1>2. ASSUME NEW m \in 0..n, m # n, m \in done
      PROVE  m + 1 \in done
  <2>1. PICK f : Releases(f, m, c, w, t)
    BY <1>2
  <2> DEFINE g == [i \in 0..(m + 1) |->
                     IF i = 0 THEN <<>> ELSE Releasing(f[i - 1], c, w[i], t)]
  <2>2. \A i \in 0..m : g[i] = f[i]
    BY <2>1 DEF Releases
  <2>3. \A i \in 0..(m + 1) : i # 0 => g[i - 1] = f[i - 1]
    <3> HIDE DEF g
    <3> QED
      BY <2>2
  <2>4. Releases(g, m + 1, c, w, t)
    BY <2>3 DEF Releases
  <2> QED
    BY <1>2, <2>4
<1>3. \A i \in 0..n : i \in done
  <2> HIDE DEF done
  <2> QED
    BY <1>1, <1>2, Segment
<1> QED
  BY <1>3

\* All are set_difficulty messages for the channel; a single target that the new one
\* allows is released.
LEMMA ReleasedSound ==
  ASSUME NEW m \in Miner, waiting[m] \in Seq(Target), NEW t \in Target, NEW S,
         \A v \in Target : Difficulty(data[m].channel_id, v) \in S
  PROVE  /\ Released(m, t) \in Seq(S)
         /\ waiting[m] = <<>> => Released(m, t) = <<>>
         /\ \A v \in Target : waiting[m] = <<v>> /\ v >= t =>
              Released(m, t) = <<Difficulty(data[m].channel_id, v)>>
<1> DEFINE w == waiting[m]
           n == Len(w)
           c == data[m].channel_id
           f == CHOOSE g : Releases(g, n, c, w, t)
           typed == {i \in 0..n : f[i] \in Seq(S)}
<1>1. n \in Nat /\ \A i \in 1..n : w[i] \in Target
  OBVIOUS
<1>2. Released(m, t) = f[n]
  BY DEF Released, Releases, Releasing
<1> HIDE DEF n, c
<1>3. Releases(f, n, c, w, t)
  BY <1>1, ReleasesExist
<1> HIDE DEF f
<1>4. /\ f[0] = <<>>
      /\ \A i \in 0..n : i # n =>
           f[i + 1] = IF w[i + 1] >= t THEN Append(f[i], Difficulty(c, w[i + 1])) ELSE f[i]
  <2>1. f[0] = <<>>
    BY <1>1, <1>3 DEF Releases
  <2>2. ASSUME NEW i \in 0..n, i # n
        PROVE  f[i + 1] = IF w[i + 1] >= t THEN Append(f[i], Difficulty(c, w[i + 1])) ELSE f[i]
    <3>1. i + 1 \in 0..n /\ i + 1 # 0 /\ (i + 1) - 1 = i
      BY <1>1, <2>2
    <3> QED
      BY <1>3, <3>1 DEF Releases, Releasing
  <2> QED
    BY <2>1, <2>2
<1>5. 0 \in typed
  <2>1. <<>> \in Seq(S) /\ 0 \in 0..n
    BY <1>1
  <2> QED
    BY <1>4, <2>1
<1>6. ASSUME NEW i \in 0..n, i # n, i \in typed PROVE i + 1 \in typed
  <2>1. i + 1 \in 1..n /\ i + 1 \in 0..n /\ w[i + 1] \in Target /\ f[i] \in Seq(S)
    BY <1>1, <1>6
  <2>2. Difficulty(c, w[i + 1]) \in S
    BY <2>1 DEF c
  <2>3. Append(f[i], Difficulty(c, w[i + 1])) \in Seq(S)
    BY <2>1, <2>2
  <2> QED
    BY <1>4, <1>6, <2>1, <2>3
<1>7. f[n] \in Seq(S)
  <2> HIDE DEF typed
  <2>1. n \in 0..n
    BY <1>1
  <2>2. \A i \in 0..n : i \in typed
    BY <1>1, <1>5, <1>6, Segment
  <2> QED
    BY <2>1, <2>2 DEF typed
<1>8. w = <<>> => f[n] = <<>>
  BY <1>4 DEF n
<1>9. ASSUME NEW v \in Target, w = <<v>>, v >= t PROVE f[n] = <<Difficulty(c, v)>>
  <2>1. n = 1 /\ w[1] = v
    BY <1>9 DEF n
  <2>2. f[1] = Append(<<>>, Difficulty(c, v))
    BY <1>4, <1>9, <2>1
  <2> QED
    BY <2>1, <2>2
<1> QED
  BY <1>2, <1>7, <1>8, <1>9 DEF c

\* Messages that are all set_difficulty; data that only other targets are wanted in.
OnlyDifficulty(more) == \A k \in DOMAIN more : more[k].kind = "difficulty"

SameButTargets(d, e) ==
  /\ e.channel_id = d.channel_id /\ e.handshake = d.handshake
  /\ e.cached_difficulty = d.cached_difficulty /\ e.cached_notify = d.cached_notify

\* Set_difficulty messages are sent to a miner with a channel, its wishes and what
\* waits for the upstream may change; neither its jobs nor its handshake do.
LEMMA RetargetedSound ==
  ASSUME NEW mo, NEW o \in Seq(Miner), NEW m, NEW cn, NEW d \in DownstreamData, NEW e,
         SameButTargets(d, e),
         NEW h, NEW box, NEW more \in Seq(Sendable(Len(o), mo.aggregated)),
         OnlyDifficulty(more),
         cn # "connected" \/ d.channel_id = None => more = <<>>,
         NEW w, NEW x, NEW u, NEW y, NEW ov \in BOOLEAN, NEW now \in BOOLEAN, ov => now,
         NEW valid,
         cn = "connected" /\ d.channel_id = None /\ Untold(d, h, w) => Untold(e, h, x),
         /\ cn = "connected" /\ d.channel_id # None /\ ~now /\ ~Twice(o, m)
         /\ InStep(mo, d, h, box, w, u)
         => InStep(mo, e, h, box \o more, x, y),
         Sound(mo, o, All, m, cn, d, h, box, w, u, ov, valid)
  PROVE  Sound(mo, o, All, m, cn, e, h, box \o more, x, y, now, valid)
<1> DEFINE S == Sendable(Len(o), mo.aggregated)
           both == box \o more
<1>1. SentUpTo(o, All) = Len(o) /\ d.channel_id # All
  BY Bounds DEF SentUpTo, DownstreamData
<1> HIDE DEF S
<1>2. box \in Seq(S) /\ both \in Seq(S) /\ more \in Seq(S)
  <2>1. box \in Seq(S) /\ more \in Seq(S)
    BY <1>1 DEF Sound, S
  <2> QED
    BY <2>1
<1>2a. /\ e.channel_id = d.channel_id /\ e.handshake = d.handshake
      /\ e.cached_difficulty = d.cached_difficulty /\ e.cached_notify = d.cached_notify
  BY DEF SameButTargets
<1>3. DifficultySent(e, h) = DifficultySent(d, h) /\ JobSent(e, h) = JobSent(d, h)
  BY <1>2a DEF DifficultySent, JobSent
<1>4. \A k \in DOMAIN more : ~Counts(more[k], "notify", d.channel_id)
  BY DEF Counts, OnlyDifficulty
<1>5. Current(valid, d, h, box) => Current(valid, e, h, both)
  <2>1. ASSUME NEW v, Latest(box, "notify", d.channel_id, JobSent(d, h), v)
        PROVE  Latest(both, "notify", d.channel_id, JobSent(d, h), v)
    BY <1>2, <1>4, <2>1, LatestConcat
  <2> HIDE DEF both
  <2> QED
    BY <1>2a, <1>3, <2>1 DEF Current
<1>6. WillPrecede(d, h, box) => WillPrecede(e, h, both)
  BY <1>2a, <1>2, <1>3, FirstConcat DEF WillPrecede
<1>7. Preceded(d, h) => Preceded(e, h)
  BY <1>2a, <1>3 DEF Preceded
<1>8. more = <<>> => both = box
  BY <1>2
<1> HIDE DEF both
<1> QED
  BY <1>2a, <1>1, <1>2, <1>5, <1>6, <1>7, <1>8 DEF Sound, S, both

-----------------------------------------------------------------------------
(* The parts of the type invariant, and facts the steps need. *)

MinerTypes ==
  /\ mode \in Modes
  /\ conn \in [Miner -> {"connected", "leaving", "removed"}]
  /\ sent \in [Miner -> 0..Len(Handshake)]
  /\ task \in [Miner -> {"none", "checked", "queueing"}]
  /\ data \in [Miner -> DownstreamData]
  /\ inbox \in [Miner -> Seq(Message)]
  /\ has \in [Miner -> Holding]

ServerTypes ==
  /\ to_server \in Seq([kind : {"open", "share"}, miner : Miner])
  /\ server \in [pc : {"idle", "setup", "panicked"}, miner : Miner \cup {None}, channel : Channel]
  /\ asked \in Seq(Miner)
  /\ opened \in Seq(Miner) /\ Len(opened) <= MaxChannels

JobTypes ==
  /\ jobs \in [Channel -> SUBSET (1..MaxJobs)]
  /\ last \in [job : 0..MaxJobs, follows : Channel \cup {None}]
  /\ clean_job \in BOOLEAN

TargetTypes ==
  /\ updates \in Seq([channel : Channel, target : Target])
  /\ waiting \in [Miner -> Seq(Target)]
  /\ targets \in 0..MaxTargets /\ overlapped \in BOOLEAN

Owners ==
  \A m \in Miner : data[m].channel_id # None =>
    data[m].channel_id \in DOMAIN opened /\ opened[data[m].channel_id] = m

LEMMA TypesInParts ==
  /\ TypeOK <=> MinerTypes /\ ServerTypes /\ JobTypes /\ TargetTypes /\ Owners
  /\ TypeOK' <=> MinerTypes' /\ ServerTypes' /\ JobTypes' /\ TargetTypes' /\ Owners'
<1>1. TypeOK <=> MinerTypes /\ ServerTypes /\ JobTypes /\ TargetTypes /\ Owners
  BY DEF TypeOK, MinerTypes, ServerTypes, JobTypes, TargetTypes, Owners, Holding
<1>2. TypeOK' <=> MinerTypes' /\ ServerTypes' /\ JobTypes' /\ TargetTypes' /\ Owners'
  BY DEF TypeOK, MinerTypes, ServerTypes, JobTypes, TargetTypes, Owners, Holding
<1> QED
  BY <1>1, <1>2

\* What the steps use of the invariant.
LEMMA Facts ==
  ASSUME IInv
  PROVE  /\ MinerTypes /\ ServerTypes /\ JobTypes /\ TargetTypes /\ Owners
         /\ Len(opened) \in 0..MaxChannels /\ DOMAIN opened = 1..Len(opened)
         /\ opened \in Seq(Miner)
         /\ SetupChannel \in {All, Len(opened)} /\ (Idle => SetupChannel = All)
         /\ mode.aggregated \in BOOLEAN /\ mode.vardiff \in BOOLEAN
         /\ \A m \in Miner :
              /\ data[m] \in DownstreamData /\ has[m] \in Holding /\ waiting[m] \in Seq(Target)
              /\ inbox[m] \in Seq(Message)
              /\ data[m].channel_id \in (1..Len(opened)) \cup {None}
<1>1. MinerTypes /\ ServerTypes /\ JobTypes /\ TargetTypes /\ Owners
  BY TypesInParts DEF IInv
<1>2. /\ Len(opened) \in 0..MaxChannels /\ DOMAIN opened = 1..Len(opened)
      /\ opened \in Seq(Miner)
  BY <1>1, Bounds DEF ServerTypes
<1>3. SetupChannel \in {All, Len(opened)} /\ (Idle => SetupChannel = All)
  BY DEF IInv, Server, SetupChannel, Idle
<1>4. mode.aggregated \in BOOLEAN /\ mode.vardiff \in BOOLEAN
  BY <1>1, ModesAssumption DEF MinerTypes
<1>5. \A m \in Miner :
        /\ data[m] \in DownstreamData /\ has[m] \in Holding /\ waiting[m] \in Seq(Target)
        /\ inbox[m] \in Seq(Message)
        /\ data[m].channel_id \in (1..Len(opened)) \cup {None}
  BY <1>1, <1>2 DEF MinerTypes, TargetTypes, Owners
<1> QED
  BY <1>1, <1>2, <1>3, <1>4, <1>5

\* Tasks, channels and lists of jobs that stay as they are.
LEMMA HandshakesKept ==
  ASSUME Handshakes, UNCHANGED <<sent, task>>
  PROVE  Handshakes'
BY DEF Handshakes

LEMMA ServerKept ==
  ASSUME Server, UNCHANGED <<mode, server, opened, updates>>
  PROVE  Server'
BY DEF Server, Aggregated

LEMMA JobListsKept ==
  ASSUME JobLists, UNCHANGED <<mode, opened, jobs, last>>
  PROVE  JobLists'
BY DEF JobLists, Aggregated

\* A miner that a step leaves alone.
LEMMA MinerKept ==
  ASSUME NEW m \in Miner, SoundMiner(m), conn'[m] = conn[m], data'[m] = data[m],
         has'[m] = has[m], inbox'[m] = inbox[m], waiting'[m] = waiting[m],
         UNCHANGED <<mode, opened, updates, overlapped, jobs>>, SetupChannel' = SetupChannel
  PROVE  SoundMiner(m)'
<1>1. ValidJobs(m)' = ValidJobs(m)
  BY DEF ValidJobs, Aggregated
<1> QED
  BY <1>1 DEF SoundMiner

-----------------------------------------------------------------------------
(* Steps of a miner's task. *)

\* Steps that only move requests, or queue a message of the handshake.
LEMMA QuietInv ==
  ASSUME IInv, TypeOK', Handshakes',
         UNCHANGED <<mode, conn, has, inbox, opened, jobs, last, updates, waiting, overlapped>>,
         server' = server \/ (server' = [server EXCEPT !.pc = "panicked"] /\ Idle),
         \A m \in Miner : \/ data'[m] = data[m]
                          \/ \E q \in Seq({"subscribe", "authorize"}) :
                               data'[m] = [data[m] EXCEPT !.queued = q]
  PROVE  IInv'
<1>0. Server /\ JobLists /\ \A m \in Miner : SoundMiner(m)
  BY DEF IInv
<1>1. SetupChannel' = SetupChannel /\ Server'
  <2>1. CASE server' = server
    BY <1>0, <2>1 DEF SetupChannel, Server, Aggregated
  <2>2. CASE server' = [server EXCEPT !.pc = "panicked"] /\ Idle
    <3>1. server'.pc = "panicked" /\ server.pc = "idle"
      BY <2>2, Facts DEF ServerTypes, Idle
    <3> QED
      BY <1>0, <3>1 DEF SetupChannel, Server, Aggregated
  <2> QED
    BY <2>1, <2>2
<1>2. JobLists'
  BY <1>0, JobListsKept
<1>3. ASSUME NEW m \in Miner PROVE SoundMiner(m)'
  <2>1. CASE data'[m] = data[m]
    BY <1>0, <1>1, <2>1, MinerKept
  <2>2. ASSUME NEW q \in Seq({"subscribe", "authorize"}),
               data'[m] = [data[m] EXCEPT !.queued = q]
        PROVE  SoundMiner(m)'
    <3> DEFINE d == data[m]
               e == [d EXCEPT !.queued = q]
    <3>1. d \in DownstreamData
      BY Facts
    <3>2. /\ e.channel_id = d.channel_id /\ e.handshake = d.handshake
          /\ e.cached_difficulty = d.cached_difficulty
          /\ e.cached_notify = d.cached_notify
          /\ e.pending = d.pending /\ e.target = d.target
      BY <3>1, Stored
    <3>3. ValidJobs(m)' = ValidJobs(m)
      BY <2>2, <3>2 DEF ValidJobs, Aggregated
    <3> HIDE DEF d, e
    <3>4. ASSUME NEW mo, NEW o, NEW setup, NEW cn, NEW h, NEW box, NEW w, NEW u, NEW ov, NEW valid,
                 Sound(mo, o, setup, m, cn, d, h, box, w, u, ov, valid)
          PROVE  Sound(mo, o, setup, m, cn, e, h, box, w, u, ov, valid)
      <4>1. /\ Wants(e) = Wants(d) /\ DifficultySent(e, h) = DifficultySent(d, h)
            /\ JobSent(e, h) = JobSent(d, h)
        BY <3>2 DEF Wants, DifficultySent, JobSent
      <4>2. /\ InStep(mo, d, h, box, w, u) => InStep(mo, e, h, box, w, u)
            /\ WillPrecede(d, h, box) => WillPrecede(e, h, box)
            /\ Preceded(d, h) => Preceded(e, h)
            /\ Untold(d, h, w) => Untold(e, h, w)
            /\ Current(valid, d, h, box) => Current(valid, e, h, box)
        BY <3>2, <4>1 DEF InStep, WillPrecede, Preceded, Untold, Current
      <4> QED
        BY <3>2, <3>4, <4>2 DEF Sound
    <3>5. data'[m] = e
      BY <2>2 DEF e, d
    <3> QED
      BY <1>0, <1>1, <3>3, <3>4, <3>5 DEF SoundMiner, d
  <2> QED
    BY <2>1, <2>2
<1> QED
  BY <1>1, <1>2, <1>3 DEF IInv

\* Types after a step that leaves jobs and targets alone and no channel is opened.
LEMMA MinerStepTypes ==
  ASSUME IInv, MinerTypes', ServerTypes',
         UNCHANGED <<jobVars, updates, waiting, targets, overlapped, opened>>,
         \A m \in Miner : data'[m].channel_id \in {data[m].channel_id, None}
  PROVE  TypeOK'
<1>1. JobTypes' /\ TargetTypes'
  BY Facts DEF JobTypes, TargetTypes, jobVars
<1>2. Owners'
  BY Facts DEF Owners
<1> QED
  BY <1>1, <1>2, TypesInParts

\* A message of the handshake: it is answered, or will be queued.
LEMMA HandshakeInv ==
  ASSUME IInv, NEW m \in Miner, HandleHandshakeMessage(m)
  PROVE  IInv'
<1>0. /\ MinerTypes /\ ServerTypes /\ \A n \in Miner : SoundMiner(n) /\ data[n] \in DownstreamData
      /\ has[m] \in Holding
  BY Facts DEF IInv
<1>1. /\ conn[m] = "connected" /\ sent[m] \in 0..Len(Handshake) /\ sent[m] < Len(Handshake)
      /\ sent' = [sent EXCEPT ![m] = @ + 1]
      /\ UNCHANGED <<mode, conn, inbox, to_server, server, asked, opened, jobs, last, clean_job,
                     updates, waiting, targets, overlapped>>
  BY <1>0 DEF HandleHandshakeMessage, MinerTypes, serverVars, jobVars, targetVars
<1>2. sent' \in [Miner -> 0..Len(Handshake)] /\ ServerTypes'
  BY <1>0, <1>1 DEF MinerTypes, ServerTypes, Handshake
<1>2a. Handshakes'
  <2>1. sent'[m] # 0 /\ \A n \in Miner : n # m => sent'[n] = sent[n] /\ task'[n] = task[n]
    BY <1>0, <1>1 DEF MinerTypes, HandleHandshakeMessage
  <2> QED
    BY <2>1 DEF IInv, Handshakes
<1>3. CASE /\ task' = [task EXCEPT ![m] = "checked"] /\ UNCHANGED <<data, has>>
           \/ UNCHANGED <<data, has, task>>
  <2>1. MinerTypes'
    BY <1>0, <1>1, <1>2, <1>3 DEF MinerTypes
  <2>2. TypeOK'
    BY <1>1, <1>2, <1>3, <2>1, MinerStepTypes DEF jobVars
  <2> QED
    BY <1>1, <1>3, <1>2a, <2>2, QuietInv
<1>4. CASE data[m].channel_id # None /\ CompletesHandshake(m) /\ UNCHANGED task
  <2> DEFINE d == data[m]
             h == has[m]
             e == [Sent(d) EXCEPT !.handshake = TRUE, !.cached_notify = None]
             g == [difficulty |-> DifficultySent(d, h), job |-> JobSent(d, h)]
  <2>1. data' = [data EXCEPT ![m] = e] /\ has' = [has EXCEPT ![m] = g]
    BY <1>0, <1>4 DEF CompletesHandshake, Sent, JobSent, MinerTypes
  <2>2. e \in DownstreamData /\ e.channel_id = d.channel_id
    BY <1>0, CompletedKeeps
  <2>3. g \in Holding
    BY <1>0 DEF Holding, DownstreamData, DifficultySent, JobSent
  <2>4. /\ MinerTypes' /\ data'[m] = e /\ has'[m] = g
        /\ \A n \in Miner : n # m => data'[n] = data[n] /\ has'[n] = has[n]
    <3> HIDE DEF e, g
    <3>1. /\ data' \in [Miner -> DownstreamData] /\ has' \in [Miner -> Holding]
          /\ data'[m] = e /\ has'[m] = g
          /\ \A n \in Miner : n # m => data'[n] = data[n] /\ has'[n] = has[n]
      BY <1>0, <2>1, <2>2, <2>3 DEF MinerTypes
    <3> QED
      BY <1>0, <1>1, <1>2, <1>4, <3>1 DEF MinerTypes
  <2>5. TypeOK'
    <3>1. \A n \in Miner : data'[n].channel_id \in {data[n].channel_id, None}
      BY <2>2, <2>4
    <3> QED
      BY <1>1, <1>2, <2>4, <3>1, MinerStepTypes DEF jobVars
  <2>6. Server' /\ JobLists' /\ SetupChannel' = SetupChannel
    BY <1>1, ServerKept, JobListsKept DEF IInv, SetupChannel
  <2>7. SoundMiner(m)'
    <3>1. ValidJobs(m)' = ValidJobs(m)
      BY <1>1, <2>2, <2>4 DEF ValidJobs, Aggregated
    <3>2. Sound(mode, opened, SetupChannel, m, "connected", d, h, inbox[m], waiting[m], updates,
                overlapped, ValidJobs(m))
      BY <1>0, <1>1 DEF SoundMiner
    <3>3. overlapped \in BOOLEAN
      BY Facts DEF TargetTypes
    <3>4. Sound(mode, opened, SetupChannel, m, "connected", e, g, inbox[m], waiting[m], updates,
                overlapped, ValidJobs(m))
      BY <1>0, <1>4, <3>2, <3>3, HandshakeSound
    <3> HIDE DEF e, g
    <3> QED
      BY <1>1, <2>4, <2>6, <3>1, <3>4 DEF SoundMiner
  <2>8. \A n \in Miner : n # m => SoundMiner(n)'
    BY <1>0, <1>1, <2>4, <2>6, MinerKept
  <2> QED
    BY <1>2a, <2>5, <2>6, <2>7, <2>8 DEF IInv
<1> QED
  BY <1>3, <1>4 DEF HandleHandshakeMessage

\* The requests of the tasks, and the messages they queue.
LEMMA RequestsInv ==
  ASSUME IInv,
         \/ \E m \in Miner : AskForChannel(m) \/ QueueMessage(m) \/ HandleSubmit(m)
         \/ HandleOpenChannelRequest \/ HandleSubmitShares
  PROVE  IInv'
<1>0. MinerTypes /\ ServerTypes
  BY Facts
<1> DEFINE M == [kind : {"open", "share"}, miner : Miner]
<1>1. ASSUME NEW m \in Miner, AskForChannel(m) PROVE IInv'
  <2>1. [kind |-> "open", miner |-> m] \in M
    OBVIOUS
  <2>2. Append(to_server, [kind |-> "open", miner |-> m]) \in Seq(M)
    BY <1>0, <2>1 DEF ServerTypes
  <2>3. MinerTypes' /\ ServerTypes'
    BY <1>0, <1>1, <2>2 DEF AskForChannel, MinerTypes, ServerTypes
  <2>4. TypeOK'
    BY <1>1, <2>3, MinerStepTypes DEF AskForChannel, targetVars
  <2>5. Handshakes'
    BY <1>0, <1>1 DEF Handshakes, IInv, AskForChannel, MinerTypes
  <2> QED
    BY <1>1, <2>4, <2>5, QuietInv DEF AskForChannel, jobVars, targetVars
<1>2. ASSUME NEW m \in Miner, QueueMessage(m) PROVE IInv'
  <2> DEFINE q == Append(data[m].queued, Handshake[sent[m]])
  <2>1. data[m].queued \in Seq({"subscribe", "authorize"}) /\ data[m] \in DownstreamData
    BY <1>0 DEF MinerTypes, DownstreamData
  <2>2. Handshake[sent[m]] \in {"subscribe", "authorize"}
    <3>1. sent[m] \in 1..2
      BY <1>0, <1>2 DEF IInv, Handshakes, QueueMessage, MinerTypes, Handshake
    <3> QED
      BY <3>1 DEF Handshake
  <2>3. q \in Seq({"subscribe", "authorize"})
    BY <2>1, <2>2
  <2>4. data' = [data EXCEPT ![m] = [data[m] EXCEPT !.queued = q]]
    BY <1>0, <1>2 DEF QueueMessage, MinerTypes
  <2> HIDE DEF q
  <2>5. /\ [data[m] EXCEPT !.queued = q] \in DownstreamData
        /\ [data[m] EXCEPT !.queued = q].channel_id = data[m].channel_id
    BY <2>1, <2>3, Stored
  <2>6. /\ data' \in [Miner -> DownstreamData] /\ data'[m] = [data[m] EXCEPT !.queued = q]
        /\ \A n \in Miner : n # m => data'[n] = data[n]
    BY <1>0, <2>4, <2>5 DEF MinerTypes
  <2>7. MinerTypes' /\ ServerTypes'
    BY <1>0, <1>2, <2>6 DEF QueueMessage, MinerTypes, ServerTypes, serverVars
  <2>8. TypeOK'
    <3>1. \A n \in Miner : data'[n].channel_id \in {data[n].channel_id, None}
      BY <2>5, <2>6
    <3> QED
      BY <1>2, <2>7, <3>1, MinerStepTypes DEF QueueMessage, targetVars, serverVars
  <2>9. Handshakes'
    BY <1>0, <1>2 DEF Handshakes, IInv, QueueMessage, MinerTypes
  <2>10. \A n \in Miner : \/ data'[n] = data[n]
                          \/ \E r \in Seq({"subscribe", "authorize"}) :
                               data'[n] = [data[n] EXCEPT !.queued = r]
    BY <2>3, <2>6
  <2> QED
    BY <1>2, <2>8, <2>9, <2>10, QuietInv DEF QueueMessage, jobVars, targetVars, serverVars
<1>3. ASSUME NEW m \in Miner, HandleSubmit(m) PROVE IInv'
  <2>1. [kind |-> "share", miner |-> m] \in M
    OBVIOUS
  <2>2. Append(to_server, [kind |-> "share", miner |-> m]) \in Seq(M)
    BY <1>0, <2>1 DEF ServerTypes
  <2>3. MinerTypes' /\ ServerTypes'
    BY <1>0, <1>3, <2>2 DEF HandleSubmit, MinerTypes, ServerTypes, minerVars
  <2>4. TypeOK'
    BY <1>3, <2>3, MinerStepTypes DEF HandleSubmit, targetVars, minerVars
  <2>5. Handshakes'
    BY <1>3, HandshakesKept DEF IInv, HandleSubmit, minerVars
  <2> QED
    BY <1>3, <2>4, <2>5, QuietInv DEF HandleSubmit, jobVars, targetVars, minerVars
<1>4. ASSUME HandleOpenChannelRequest PROVE IInv'
  <2>1. Head(to_server) \in M /\ Tail(to_server) \in Seq(M)
    <3>1. to_server \in Seq(M) /\ to_server # <<>>
      BY <1>0, <1>4 DEF ServerTypes, HandleOpenChannelRequest
    <3> HIDE DEF M
    <3> QED
      BY <3>1
  <2>2. Append(asked, Head(to_server).miner) \in Seq(Miner)
    BY <1>0, <2>1 DEF ServerTypes
  <2>3. MinerTypes' /\ ServerTypes'
    BY <1>0, <1>4, <2>1, <2>2 DEF HandleOpenChannelRequest, MinerTypes, ServerTypes, minerVars
  <2>4. TypeOK'
    BY <1>4, <2>3, MinerStepTypes DEF HandleOpenChannelRequest, targetVars, minerVars
  <2>5. Handshakes'
    BY <1>4, HandshakesKept DEF IInv, HandleOpenChannelRequest, minerVars
  <2> QED
    BY <1>4, <2>4, <2>5, QuietInv DEF HandleOpenChannelRequest, jobVars, targetVars, minerVars
<1>5. ASSUME HandleSubmitShares PROVE IInv'
  <2>1. Tail(to_server) \in Seq(M)
    BY <1>0, <1>5 DEF ServerTypes, HandleSubmitShares
  <2>2. [server EXCEPT !.pc = "panicked"] \in
          [pc : {"idle", "setup", "panicked"}, miner : Miner \cup {None}, channel : Channel]
    BY <1>0 DEF ServerTypes
  <2>3. MinerTypes' /\ ServerTypes'
    BY <1>0, <1>5, <2>1, <2>2 DEF HandleSubmitShares, MinerTypes, ServerTypes, minerVars
  <2>4. TypeOK'
    BY <1>5, <2>3, MinerStepTypes DEF HandleSubmitShares, targetVars, minerVars
  <2>5. Handshakes'
    BY <1>5, HandshakesKept DEF IInv, HandleSubmitShares, minerVars
  <2>6. server' = server \/ (server' = [server EXCEPT !.pc = "panicked"] /\ Idle)
    BY <1>5 DEF HandleSubmitShares
  <2> QED
    BY <1>5, <2>4, <2>5, <2>6, QuietInv DEF HandleSubmitShares, jobVars, targetVars, minerVars
<1> QED
  BY <1>1, <1>2, <1>3, <1>4, <1>5

\* The first message of its inbox.
LEMMA DeliveryInv ==
  ASSUME IInv, NEW m \in Miner, HandleServerMessage(m)
  PROVE  IInv'
<1> DEFINE d == data[m]
           h == has[m]
           x == Head(inbox[m])
           e == data'[m]
           g == has'[m]
<1>0. /\ MinerTypes /\ ServerTypes /\ d \in DownstreamData /\ h \in Holding
      /\ inbox[m] \in Seq(Message)
      /\ \A n \in Miner : SoundMiner(n)
  BY Facts DEF IInv
<1>1. /\ conn[m] = "connected" /\ inbox[m] # <<>> /\ Delivered(m)
      /\ inbox' = [inbox EXCEPT ![m] = Tail(@)]
      /\ UNCHANGED <<mode, conn, sent, task, to_server, server, asked, opened, jobs, last,
                     clean_job, updates, waiting, targets, overlapped>>
  BY DEF HandleServerMessage, serverVars, jobVars, targetVars
<1>2. /\ Takes(x, d, h, e, g)
      /\ data' = [data EXCEPT ![m] = e] /\ has' = [has EXCEPT ![m] = g]
  BY <1>0, <1>1 DEF Delivered, Takes, MinerTypes, Sent
<1>3. x \in Message /\ Tail(inbox[m]) \in Seq(Message)
  BY <1>0, <1>1
<1>4. Sound(mode, opened, SetupChannel, m, "connected", d, h, inbox[m], waiting[m], updates,
            overlapped, ValidJobs(m))
  BY <1>0, <1>1 DEF SoundMiner
<1>5. d.handshake => d.cached_notify = None
  BY <1>4 DEF Sound
<1>6. e \in DownstreamData /\ g \in Holding /\ e.channel_id = d.channel_id
  BY <1>0, <1>2, <1>3, <1>5, TakesKeeps
<1>7. /\ inbox'[m] = Tail(inbox[m])
      /\ \A n \in Miner : n # m => data'[n] = data[n] /\ has'[n] = has[n] /\ inbox'[n] = inbox[n]
  BY <1>0, <1>1, <1>2 DEF MinerTypes
<1>8. TypeOK'
  <2> HIDE DEF d, h, x, e, g
  <2>1. MinerTypes'
    BY <1>0, <1>1, <1>2, <1>3, <1>6 DEF MinerTypes
  <2>2. ServerTypes'
    BY <1>0, <1>1 DEF ServerTypes
  <2>3. \A n \in Miner : data'[n].channel_id \in {data[n].channel_id, None}
    BY <1>6, <1>7 DEF d, e
  <2> QED
    BY <1>1, <2>1, <2>2, <2>3, MinerStepTypes DEF jobVars
<1>9. Server' /\ JobLists' /\ SetupChannel' = SetupChannel /\ Handshakes'
  BY <1>1, ServerKept, JobListsKept, HandshakesKept DEF IInv, SetupChannel
<1>10. SoundMiner(m)'
  <2>1. ValidJobs(m)' = ValidJobs(m)
    BY <1>1, <1>6 DEF ValidJobs, Aggregated
  <2>2. /\ overlapped \in BOOLEAN /\ opened \in Seq(Miner) /\ Len(opened) <= MaxChannels
        /\ SetupChannel \in {All, Len(opened)}
    BY Facts DEF TargetTypes, ServerTypes
  <2> HIDE DEF d, h, x, e, g
  <2>3. Sound(mode, opened, SetupChannel, m, "connected", e, g, Tail(inbox[m]), waiting[m], updates,
              overlapped, ValidJobs(m))
    BY <1>0, <1>1, <1>2, <1>4, <2>2, DeliveredSound DEF x
  <2> QED
    BY <1>1, <1>7, <1>9, <2>1, <2>3 DEF SoundMiner, e, g
<1>11. \A n \in Miner : n # m => SoundMiner(n)'
  BY <1>0, <1>1, <1>7, <1>9, MinerKept
<1> QED
  BY <1>8, <1>9, <1>10, <1>11 DEF IInv

\* A miner leaves.
LEMMA LeavesInv ==
  ASSUME IInv, NEW m \in Miner, MinerLeaves(m)
  PROVE  IInv'
<1>0. /\ MinerTypes /\ ServerTypes /\ \A n \in Miner : SoundMiner(n)
  BY Facts DEF IInv
<1>1. /\ conn' = [conn EXCEPT ![m] = "leaving"] /\ inbox' = [inbox EXCEPT ![m] = <<>>]
      /\ has' = [has EXCEPT ![m] = Nothing] /\ task' = [task EXCEPT ![m] = "none"]
      /\ sent' = [sent EXCEPT ![m] = 0]
      /\ UNCHANGED <<mode, data, to_server, server, asked, opened, jobs, last,
                     clean_job, updates, waiting, targets, overlapped>>
  BY DEF MinerLeaves, serverVars, jobVars, targetVars
<1>2. /\ conn'[m] = "leaving" /\ inbox'[m] = <<>> /\ has'[m] = Nothing /\ task'[m] = "none"
      /\ \A n \in Miner : n # m => /\ conn'[n] = conn[n] /\ has'[n] = has[n] /\ inbox'[n] = inbox[n]
                                   /\ task'[n] = task[n] /\ sent'[n] = sent[n]
  BY <1>0, <1>1 DEF MinerTypes
<1>3. TypeOK'
  <2>1. Nothing \in Holding /\ <<>> \in Seq(Message) /\ 0 \in 0..Len(Handshake)
    BY Bounds DEF Nothing, Holding, Handshake
  <2>2. MinerTypes'
    BY <1>0, <1>1, <2>1 DEF MinerTypes
  <2>3. ServerTypes'
    BY <1>0, <1>1 DEF ServerTypes
  <2> QED
    BY <1>1, <2>2, <2>3, MinerStepTypes DEF jobVars
<1>4. Server' /\ JobLists' /\ SetupChannel' = SetupChannel
  BY <1>1, ServerKept, JobListsKept DEF IInv, SetupChannel
<1>5. Handshakes'
  BY <1>2 DEF IInv, Handshakes
<1>6. SoundMiner(m)'
  <2>1. data'[m].handshake => data'[m].channel_id # None /\ data'[m].cached_notify = None
    BY <1>0, <1>1 DEF SoundMiner, Sound
  <2> QED
    BY <1>2, <2>1, GoneSound DEF SoundMiner
<1>7. \A n \in Miner : n # m => SoundMiner(n)'
  BY <1>0, <1>1, <1>2, <1>4, MinerKept
<1> QED
  BY <1>3, <1>4, <1>5, <1>6, <1>7 DEF IInv

-----------------------------------------------------------------------------
(* Steps of the server. *)

\* One more UpdateChannel of aggregated mode, that asks for no more than a miner wants.
LEMMA InStepReported ==
  ASSUME NEW S, NEW u \in Seq(S), NEW x \in S, x.channel = All,
         NEW mo, mo.aggregated, NEW d, NEW h, NEW box, NEW w, x.target <= Wants(d),
         InStep(mo, d, h, box, w, u)
  PROVE  InStep(mo, d, h, box, w, Append(u, x))
<1> DEFINE more == Append(u, x)
           n == Len(u)
<1>1. /\ n \in Nat /\ DOMAIN u = 1..n /\ DOMAIN more = 1..(n + 1) /\ more[n + 1] = x
      /\ \A k \in 1..n : more[k] = u[k]
  OBVIOUS
<1> HIDE DEF n, more
<1>2. Covered(u, All, Wants(d)) => Covered(more, All, Wants(d))
  <2>1. n + 1 \in DOMAIN more /\ \A k \in DOMAIN more : k # n + 1 => k \in DOMAIN u
    BY <1>1
  <2> QED
    BY <1>1, <2>1 DEF Covered
<1> QED
  BY <1>2 DEF InStep, UpdatesOf, more

\* The data of a miner that left is dropped; aggregated mode reports what remains.
LEMMA RemovedInv ==
  ASSUME IInv, NEW m \in Miner, RemoveDownstream(m)
  PROVE  IInv'
<1> DEFINE rest == {n \in Miner : n # m /\ Known(n)}
           wanted == IF rest = {} THEN Easiest ELSE LeastWanted(data, rest)
           x == [channel |-> All, target |-> wanted]
           U == [channel : Channel, target : Target]
<1>0. /\ MinerTypes /\ ServerTypes /\ TargetTypes /\ JobTypes /\ Owners /\ \A n \in Miner : SoundMiner(n)
      /\ SetupChannel = All /\ opened \in Seq(Miner) /\ mode.aggregated \in BOOLEAN
      /\ overlapped \in BOOLEAN /\ \A n \in Miner : data[n] \in DownstreamData
  BY Facts DEF IInv, RemoveDownstream, TargetTypes
<1>1. /\ conn[m] = "leaving" /\ conn' = [conn EXCEPT ![m] = "removed"]
      /\ data' = [data EXCEPT ![m] = NewData]
      /\ updates' \in {updates, Append(updates, x)}
      /\ updates' # updates => mode.aggregated
      /\ UNCHANGED <<mode, sent, task, inbox, has, to_server, server, asked, opened, jobs, last,
                     clean_job, waiting, targets, overlapped>>
  BY DEF RemoveDownstream, serverVars, jobVars, Aggregated
<1>2. /\ conn'[m] = "removed" /\ data'[m] = NewData
      /\ \A n \in Miner : n # m => conn'[n] = conn[n] /\ data'[n] = data[n]
  BY <1>0, <1>1 DEF MinerTypes
<1>3. /\ NewData \in DownstreamData /\ NewData.channel_id = None /\ ~NewData.handshake
  <2>1. <<>> \in Seq({"subscribe", "authorize"})
    OBVIOUS
  <2> QED
    BY <2>1, Bounds DEF NewData, DownstreamData
<1>4. /\ \A n \in rest : wanted <= Wants(data[n])
      /\ wanted \in Target
  <2> DEFINE T == {Wants(data[n]) : n \in rest}
  <2>1. \A n \in Miner : Wants(data[n]) \in Target
    BY <1>0 DEF Wants, DownstreamData
  <2>2. T \in SUBSET Nat /\ T \subseteq Target
    BY <2>1, Bounds
  <2>3. \A n \in rest : Wants(data[n]) \in T
    OBVIOUS
  <2>4. \A t \in T : Least(T) \in T /\ Least(T) <= t
    <3> HIDE DEF T
    <3> QED
      BY <2>2, LeastBelow
  <2>5. rest # {} => wanted = Least(T)
    BY DEF LeastWanted
  <2>6. Easiest \in Target
    BY TargetAssumption DEF Easiest
  <2> HIDE DEF T, wanted
  <2> QED
    BY <2>2, <2>3, <2>4, <2>5, <2>6 DEF wanted
<1>5. x \in U /\ x.channel = All /\ x.target = wanted /\ updates \in Seq(U)
  BY <1>0, <1>4, Bounds DEF TargetTypes
<1> HIDE DEF x, wanted, U
<1>6. updates' \in Seq(U)
  BY <1>1, <1>5
<1>7. TypeOK'
  <2>1. MinerTypes' /\ ServerTypes' /\ JobTypes'
    BY <1>0, <1>1, <1>3 DEF MinerTypes, ServerTypes, JobTypes
  <2>2. TargetTypes'
    BY <1>0, <1>1, <1>6 DEF TargetTypes, U
  <2>3. Owners'
    BY <1>0, <1>1, <1>2, <1>3 DEF Owners
  <2> QED
    BY <2>1, <2>2, <2>3, TypesInParts
<1>8. Server'
  <2>1. \A i \in DOMAIN updates' : Aggregated' => updates'[i].channel = All
    <3>1. \A i \in DOMAIN updates : Aggregated => updates[i].channel = All
      BY DEF IInv, Server
    <3>2. Aggregated' <=> Aggregated
      BY <1>1 DEF Aggregated
    <3>3. \A i \in DOMAIN Append(updates, x) :
            Append(updates, x)[i] = x \/ (i \in DOMAIN updates /\ Append(updates, x)[i] = updates[i])
      BY <1>5
    <3> QED
      BY <1>1, <1>5, <3>1, <3>2, <3>3
  <2> QED
    BY <1>1, <2>1 DEF IInv, Server
<1>9. JobLists' /\ SetupChannel' = SetupChannel /\ Handshakes'
  BY <1>1, JobListsKept, HandshakesKept DEF IInv, SetupChannel
<1>10. SoundMiner(m)'
  <2>1. has[m] = Nothing /\ inbox[m] = <<>>
    BY <1>0, <1>1 DEF SoundMiner, Sound
  <2> QED
    BY <1>1, <1>2, <1>3, <2>1, GoneSound DEF SoundMiner
<1>11. ASSUME NEW n \in Miner, n # m PROVE SoundMiner(n)'
  <2>1. CASE updates' = updates
    BY <1>0, <1>1, <1>2, <1>9, <1>11, <2>1, MinerKept
  <2>2. CASE updates' = Append(updates, x) /\ mode.aggregated
    <3>1. ValidJobs(n)' = ValidJobs(n)
      BY <1>1, <1>2, <1>11 DEF ValidJobs, Aggregated
    <3>2. Sound(mode, opened, All, n, conn[n], data[n], has[n], inbox[n], waiting[n], updates,
                overlapped, ValidJobs(n))
      BY <1>0 DEF SoundMiner
    <3>3. conn[n] = "connected" => x.target <= Wants(data[n])
      BY <1>4, <1>5, <1>11 DEF Known
    <3>4. ASSUME conn[n] = "connected", NEW box, InStep(mode, data[n], has[n], box, waiting[n], updates)
          PROVE  InStep(mode, data[n], has[n], box, waiting[n], updates')
      BY <1>5, <2>2, <3>3, <3>4, InStepReported
    <3>5. Sound(mode, opened, All, n, conn[n], data[n], has[n], inbox[n], waiting[n], updates',
                overlapped, ValidJobs(n))
      BY <3>2, <3>4 DEF Sound
    <3> QED
      BY <1>0, <1>1, <1>2, <1>9, <1>11, <3>1, <3>5 DEF SoundMiner
  <2> QED
    BY <1>1, <2>1, <2>2
<1> QED
  BY <1>7, <1>8, <1>9, <1>10, <1>11 DEF IInv

\* OpenExtendedMiningChannelSuccess.
LEMMA OpenInv ==
  ASSUME IInv, OpenChannel
  PROVE  IInv'
<1> DEFINE m == Head(asked)
           c == Len(opened) + 1
           next == IF Known(m) THEN c ELSE All
<1>0. /\ MinerTypes /\ ServerTypes /\ TargetTypes /\ JobTypes /\ Owners
      /\ \A n \in Miner : SoundMiner(n) /\ data[n] \in DownstreamData
      /\ SetupChannel = All /\ opened \in Seq(Miner) /\ mode.aggregated \in BOOLEAN
      /\ overlapped \in BOOLEAN /\ Len(opened) \in Nat /\ DOMAIN opened = 1..Len(opened)
      /\ Server /\ JobLists /\ server.pc = "idle" /\ last.follows = None
  BY Facts DEF IInv, OpenChannel, TargetTypes, FromManager, Idle
<1>1. m \in Miner /\ Tail(asked) \in Seq(Miner) /\ Len(opened) < MaxChannels
  BY <1>0 DEF OpenChannel, ServerTypes
<1>2. PICK t \in Target :
        /\ asked' = Tail(asked) /\ opened' = Append(opened, m)
        /\ last' = IF Aggregated /\ last.job # 0 THEN [last EXCEPT !.follows = c] ELSE last
        /\ IF Known(m)
             THEN /\ data' = [data EXCEPT ![m] = [data[m] EXCEPT !.channel_id = c, !.upstream = t]]
                  /\ server' = [pc |-> "setup", miner |-> m, channel |-> c]
             ELSE UNCHANGED <<data, server>>
        /\ UNCHANGED <<mode, conn, sent, task, inbox, has, to_server, jobs, clean_job,
                       updates, waiting, targets, overlapped>>
  <2>1. PICK t \in Target :
          IF Known(m)
            THEN /\ data' = [data EXCEPT ![m].channel_id = c, ![m].upstream = t]
                 /\ server' = [pc |-> "setup", miner |-> m, channel |-> c]
            ELSE UNCHANGED <<data, server>>
    BY DEF OpenChannel
  <2>2. ASSUME NEW n \in Miner, NEW k
        PROVE  [data EXCEPT ![n].channel_id = k, ![n].upstream = t]
                 = [data EXCEPT ![n] = [data[n] EXCEPT !.channel_id = k, !.upstream = t]]
    BY <1>0 DEF MinerTypes
  <2> HIDE DEF m, c
  <2> QED
    BY <1>1, <2>1, <2>2 DEF OpenChannel, targetVars, m, c
<1> DEFINE e == [data[m] EXCEPT !.channel_id = c, !.upstream = t]
<1>3. c \in 1..MaxChannels /\ c \in Channel /\ c # All /\ c # None /\ c \notin DOMAIN opened
  BY <1>0, <1>1, Bounds
<1>4. /\ Len(opened') = c /\ DOMAIN opened' = 1..c /\ opened' \in Seq(Miner) /\ opened'[c] = m
      /\ \A i \in DOMAIN opened : i \in DOMAIN opened' /\ opened'[i] = opened[i]
  BY <1>0, <1>1, <1>2
<1> HIDE DEF m, c
<1>5. /\ e \in DownstreamData /\ e.channel_id = c
      /\ e.handshake = data[m].handshake /\ e.cached_difficulty = data[m].cached_difficulty
      /\ e.cached_notify = data[m].cached_notify
      /\ e.pending = data[m].pending /\ e.target = data[m].target
  BY <1>0, <1>1, <1>3 DEF DownstreamData
<1>6. /\ Known(m) => data'[m] = e
      /\ data' \in [Miner -> DownstreamData]
      /\ \A n \in Miner : n # m \/ ~Known(m) => data'[n] = data[n]
  <2> HIDE DEF e
  <2>1. CASE Known(m)
    BY <1>0, <1>1, <1>2, <1>5, <2>1 DEF MinerTypes, e
  <2>2. CASE ~Known(m)
    BY <1>0, <1>2, <2>2 DEF MinerTypes
  <2> QED
    BY <2>1, <2>2
<1> HIDE DEF e
<1>7. /\ last'.job = last.job /\ last' \in [job : 0..MaxJobs, follows : Channel \cup {None}]
      /\ IF Aggregated /\ last.job # 0 THEN last'.follows = c ELSE last'.follows = None
  BY <1>0, <1>2, <1>3 DEF JobTypes
<1>8. /\ server' \in [pc : {"idle", "setup", "panicked"}, miner : Miner \cup {None}, channel : Channel]
      /\ SetupChannel' = next
      /\ server'.pc = "setup" => server'.channel = c /\ server'.miner = m
  BY <1>0, <1>1, <1>2, <1>3 DEF ServerTypes, SetupChannel
<1>9. TypeOK'
  <2>1. MinerTypes' /\ JobTypes' /\ TargetTypes'
    BY <1>0, <1>2, <1>6, <1>7 DEF MinerTypes, JobTypes, TargetTypes
  <2>3. ServerTypes'
    BY <1>0, <1>1, <1>2, <1>3, <1>4, <1>8, Bounds DEF ServerTypes
  <2>2. Owners'
    BY <1>0, <1>1, <1>3, <1>4, <1>5, <1>6 DEF Owners
  <2> QED
    BY <2>1, <2>2, <2>3, TypesInParts
<1>10. Server' /\ Handshakes'
  <2>1. Server'
    BY <1>0, <1>1, <1>2, <1>3, <1>4, <1>8 DEF Server, Aggregated
  <2> QED
    BY <1>2, <2>1, HandshakesKept DEF IInv
<1>11. JobLists'
  <2>1. Aggregated' <=> Aggregated
    BY <1>2 DEF Aggregated
  <2>2. \A k \in Channel : k > Len(opened') => k > Len(opened)
    BY <1>0, <1>4, Bounds DEF c
  <2>3. c \in Nat /\ c <= Len(opened')
    BY <1>3, <1>4
  <2> QED
    BY <1>0, <1>2, <1>3, <1>7, <2>1, <2>2, <2>3, Bounds DEF JobLists
<1>12. ASSUME NEW n \in Miner PROVE SoundMiner(n)'
  <2>1. Sound(mode, opened, All, n, conn[n], data[n], has[n], inbox[n], waiting[n], updates,
              overlapped, ValidJobs(n))
    BY <1>0 DEF SoundMiner
  <2>2. CASE n # m \/ ~Known(m)
    <3>1. ValidJobs(n)' = ValidJobs(n)
      BY <1>2, <1>6, <2>2 DEF ValidJobs, Aggregated
    <3>2. n # m \/ conn[n] # "connected"
      BY <2>2 DEF Known
    <3>3. data[n].channel_id # None => data[n].channel_id \in DOMAIN opened
      BY <1>0 DEF Owners
    <3>4. next \in {All, Len(opened) + 1}
      BY DEF c
    <3>5. Sound(mode, opened', next, n, conn[n], data[n], has[n], inbox[n], waiting[n],
                updates, overlapped, ValidJobs(n))
      <4> HIDE DEF next
      <4>1. Sound(mode, Append(opened, m), next, n, conn[n], data[n], has[n], inbox[n], waiting[n],
                  updates, overlapped, ValidJobs(n))
        BY <1>0, <1>1, <2>1, <3>2, <3>3, <3>4, OpenedSound
      <4> QED
        BY <1>2, <4>1
    <3> QED
      BY <1>2, <1>6, <1>8, <2>2, <3>1, <3>5 DEF SoundMiner
  <2>3. CASE n = m /\ Known(m)
    <3>1. IF mode.aggregated THEN ValidJobs(n)' = ValidJobs(n) ELSE ValidJobs(n)' = {}
      <4>1. ~mode.aggregated => jobs[c] = {}
        BY <1>0, <1>3, <1>4 DEF JobLists, Aggregated, c
      <4> QED
        BY <1>2, <1>5, <1>6, <2>3, <4>1 DEF ValidJobs, Aggregated
    <3>2. data[n].channel_id # None => data[n].channel_id \in DOMAIN opened /\ opened[data[n].channel_id] = n
      BY <1>0 DEF Owners
    <3>3. Sound(mode, opened', c, n, conn[n], e, has[n], inbox[n], waiting[n],
                updates, overlapped, ValidJobs(n)')
      <4>1. /\ e.channel_id = Len(opened) + 1
            /\ e.handshake = data[n].handshake /\ e.cached_difficulty = data[n].cached_difficulty
            /\ e.cached_notify = data[n].cached_notify
            /\ e.pending = data[n].pending /\ e.target = data[n].target
        BY <1>5, <2>3 DEF c
      <4>2. Sound(mode, Append(opened, n), Len(opened) + 1, n, conn[n], e, has[n],
                  inbox[n], waiting[n], updates, overlapped, ValidJobs(n)')
        BY <1>0, <1>1, <2>1, <3>1, <3>2, <4>1, OpensSound
      <4> QED
        BY <1>2, <2>3, <4>2 DEF c
    <3> QED
      BY <1>2, <1>6, <1>8, <2>3, <3>3 DEF SoundMiner
  <2> QED
    BY <2>2, <2>3
<1> QED
  BY <1>9, <1>10, <1>11, <1>12 DEF IInv

\* The first set_difficulty of a channel.
LEMMA DrainInv ==
  ASSUME IInv, DrainQueue
  PROVE  IInv'
<1> DEFINE c == Len(opened)
           x == Difficulty(c, FirstTarget)
           e == [data[server.miner] EXCEPT !.queued = <<>>]
<1>0. /\ MinerTypes /\ ServerTypes /\ TargetTypes /\ JobTypes /\ Owners
      /\ \A n \in Miner : /\ SoundMiner(n) /\ data[n] \in DownstreamData
                          /\ inbox[n] \in Seq(Message)
      /\ opened \in Seq(Miner) /\ c <= MaxChannels /\ c \in Nat
      /\ overlapped \in BOOLEAN
      /\ Server /\ JobLists
  BY Facts DEF IInv, TargetTypes, ServerTypes
<1>1. server.channel = c /\ c # 0 /\ server.miner \in Miner /\ SetupChannel = c
  BY <1>0 DEF DrainQueue, Server, SetupChannel, All
<1>2. /\ data' = [data EXCEPT ![server.miner] = e]
      /\ inbox' = [n \in Miner |-> IF conn[n] = "connected" /\ data[n].channel_id = c
                                   THEN Append(inbox[n], x) ELSE inbox[n]]
      /\ server' = IdleServer
      /\ UNCHANGED <<mode, conn, sent, task, has, to_server, asked, opened, jobs, last, clean_job,
                     updates, waiting, targets, overlapped>>
  BY <1>0, <1>1 DEF DrainQueue, Broadcast, Reaches, MinerTypes, jobVars, targetVars, All
<1>3. x \in Message
  BY <1>0, <1>1, Bounds DEF Difficulty, Message
<1> HIDE DEF x
<1>4. LET d == data[server.miner]
      IN  /\ e \in DownstreamData /\ e.channel_id = d.channel_id
          /\ e.handshake = d.handshake
          /\ e.cached_difficulty = d.cached_difficulty
          /\ e.cached_notify = d.cached_notify
          /\ e.pending = d.pending /\ e.target = d.target
  <2>1. <<>> \in Seq({"subscribe", "authorize"})
    OBVIOUS
  <2> QED
    BY <1>0, <1>1, <2>1, Stored
<1> HIDE DEF e
<1>6. \A n \in Miner : LET d == data[n]
                           f == data'[n]
                       IN  /\ f.channel_id = d.channel_id /\ f.handshake = d.handshake
                           /\ f.cached_difficulty = d.cached_difficulty
                           /\ f.cached_notify = d.cached_notify
                           /\ f.pending = d.pending /\ f.target = d.target
  BY <1>0, <1>1, <1>2, <1>4 DEF MinerTypes
<1>7. TypeOK'
  <2>1. data' \in [Miner -> DownstreamData]
    BY <1>0, <1>2, <1>4 DEF MinerTypes
  <2>2. inbox' \in [Miner -> Seq(Message)]
    <3>1. \A n \in Miner : Append(inbox[n], x) \in Seq(Message)
      BY <1>0, <1>3
    <3> QED
      BY <1>0, <1>2, <3>1
  <2>3. MinerTypes'
    BY <1>0, <1>2, <2>1, <2>2 DEF MinerTypes
  <2>4. ServerTypes'
    BY <1>0, <1>2, Bounds DEF ServerTypes, IdleServer
  <2> QED
    BY <1>2, <1>6, <2>3, <2>4, MinerStepTypes DEF jobVars
<1>8. Server' /\ SetupChannel' = All
  <2>1. server'.pc = "idle"
    BY <1>2 DEF IdleServer
  <2> QED
    BY <1>0, <1>2, <2>1 DEF Server, SetupChannel, Aggregated
<1>9. JobLists' /\ Handshakes'
  BY <1>2, JobListsKept, HandshakesKept DEF IInv
<1>10. ASSUME NEW n \in Miner PROVE SoundMiner(n)'
  <2>1. ValidJobs(n)' = ValidJobs(n)
    BY <1>2, <1>6 DEF ValidJobs, Aggregated
  <2>2. Sound(mode, opened, c, n, conn[n], data[n], has[n], inbox[n], waiting[n], updates,
              overlapped, ValidJobs(n))
    BY <1>0, <1>1 DEF SoundMiner
  <2>3. inbox'[n] = IF conn[n] = "connected" /\ data[n].channel_id = Len(opened)
                    THEN Append(inbox[n], Difficulty(Len(opened), FirstTarget)) ELSE inbox[n]
    BY <1>2 DEF x
  <2>4. Sound(mode, opened, All, n, conn[n], data'[n], has[n], inbox'[n], waiting[n], updates,
              overlapped, ValidJobs(n))
    <3>1. /\ opened \in Seq(Miner) /\ Len(opened) # 0 /\ Len(opened) <= MaxChannels
          /\ data[n] \in DownstreamData /\ overlapped \in BOOLEAN
      BY <1>0, <1>1
    <3> QED
      BY <1>6, <2>2, <2>3, <3>1, DrainedSound
  <2> QED
    BY <1>2, <1>8, <2>1, <2>4 DEF SoundMiner
<1> QED
  BY <1>7, <1>8, <1>9, <1>10 DEF IInv

\* The channels that jobs are for.
LEMMA ServedChannels ==
  ASSUME IInv, NEW c \in Served
  PROVE  c \in 0..Len(opened) /\ (IF Aggregated THEN c = All ELSE c # All)
<1>1. Len(opened) \in Nat /\ DOMAIN opened = 1..Len(opened)
  BY Facts
<1> QED
  BY <1>1 DEF Served, All

\* A new prev hash: its job follows.
LEMMA PrevHashInv ==
  ASSUME IInv, NEW c \in Channel, HandleSetNewPrevHash(c)
  PROVE  IInv'
<1>0. /\ MinerTypes /\ ServerTypes /\ TargetTypes /\ JobTypes /\ Owners
      /\ \A n \in Miner : SoundMiner(n)
      /\ JobLists /\ last.job \in 0..MaxJobs /\ Len(opened) \in Nat
  BY Facts DEF IInv, JobTypes
<1>1. /\ last' = [job |-> last.job + 1, follows |-> c] /\ clean_job' = TRUE /\ last.job < MaxJobs
      /\ c \in 0..Len(opened) /\ (IF Aggregated THEN c = All ELSE c # All)
      /\ UNCHANGED <<mode, conn, sent, task, data, inbox, has, to_server, server, asked, opened,
                     jobs, updates, waiting, targets, overlapped>>
  BY ServedChannels DEF HandleSetNewPrevHash, minerVars, serverVars, targetVars
<1>2. TypeOK'
  <2>1. MinerTypes' /\ ServerTypes' /\ TargetTypes' /\ Owners'
    BY <1>0, <1>1 DEF MinerTypes, ServerTypes, TargetTypes, Owners
  <2>2. JobTypes'
    BY <1>0, <1>1, Bounds DEF JobTypes
  <2> QED
    BY <2>1, <2>2, TypesInParts
<1>3. Server' /\ Handshakes' /\ SetupChannel' = SetupChannel
  BY <1>1, ServerKept, HandshakesKept DEF IInv, SetupChannel
<1>4. JobLists'
  <2>1. /\ last'.job = last.job + 1 /\ last'.follows = c /\ last'.job # 0
        /\ (Aggregated' <=> Aggregated)
    BY <1>0, <1>1 DEF Aggregated
  <2>2. \A k \in Channel : \A j \in jobs[k] : j <= last'.job
    <3>1. \A k \in Channel : \A j \in jobs[k] : j \in Nat /\ j <= last.job
      BY <1>0, Bounds DEF JobLists, JobTypes
    <3> QED
      BY <1>0, <2>1, <3>1
  <2> QED
    BY <1>0, <1>1, <2>1, <2>2 DEF JobLists
<1>5. \A n \in Miner : SoundMiner(n)'
  BY <1>0, <1>1, <1>3, MinerKept
<1> QED
  BY <1>2, <1>3, <1>4, <1>5 DEF IInv

\* A job is stored and sent.
LEMMA JobInv ==
  ASSUME IInv, NEW c \in Channel, HandleNewExtendedMiningJob(c)
  PROVE  IInv'
<1> DEFINE j == last'.job
           list == IF Aggregated THEN All ELSE c
           x == Notify(c, j)
           kept == IF clean_job THEN {} ELSE jobs[list]
<1>0. /\ MinerTypes /\ ServerTypes /\ TargetTypes /\ JobTypes /\ Owners
      /\ \A n \in Miner : /\ SoundMiner(n) /\ data[n] \in DownstreamData
                          /\ inbox[n] \in Seq(Message)
      /\ SetupChannel = All /\ opened \in Seq(Miner) /\ mode.aggregated \in BOOLEAN
      /\ overlapped \in BOOLEAN /\ Len(opened) \in 0..MaxChannels
      /\ Server /\ JobLists /\ last.job \in 0..MaxJobs
  BY Facts DEF IInv, HandleNewExtendedMiningJob, TargetTypes, JobTypes
<1>1. /\ last' \in [job : 0..MaxJobs, follows : Channel \cup {None}] /\ last'.follows = None
      /\ j \in 1..MaxJobs /\ c <= Len(opened) /\ (Aggregated \/ c # All)
      /\ \/ j = last.job + 1 /\ (Aggregated => c = All)
         \/ j = last.job /\ last.follows = c
  <2>1. CASE last.follows = c /\ last' = [last EXCEPT !.follows = None]
    BY <1>0, <2>1, Bounds DEF JobTypes, JobLists
  <2>2. CASE c \in Served /\ last.job < MaxJobs /\ last' = [last EXCEPT !.job = @ + 1]
             /\ last.follows = None
    BY <1>0, <2>2, ServedChannels, Bounds DEF JobTypes
  <2> QED
    BY <2>1, <2>2 DEF HandleNewExtendedMiningJob
<1>2. /\ jobs' = [jobs EXCEPT ![list] = kept \cup {j}] /\ clean_job' = FALSE
      /\ inbox' = [n \in Miner |-> IF conn[n] = "connected" /\ (c = All \/ data[n].channel_id = c)
                                   THEN Append(inbox[n], x) ELSE inbox[n]]
      /\ UNCHANGED <<mode, conn, sent, task, data, has, to_server, server, asked, opened,
                     updates, waiting, targets, overlapped>>
  BY <1>0 DEF HandleNewExtendedMiningJob, StoreJob, Broadcast, Reaches, serverVars, targetVars,
              JobTypes
<1>3. list \in Channel /\ kept \subseteq jobs[list] /\ jobs[list] \subseteq 1..MaxJobs
  BY <1>0, Bounds DEF JobTypes
<1>4. /\ \A k \in Channel : \A i \in jobs[k] : i \in Nat /\ i <= last.job
      /\ \A k \in Channel : \A i \in jobs[k] : i <= j
  <2>1. \A k \in Channel : \A i \in jobs[k] : i \in Nat /\ i <= last.job
    BY <1>0, Bounds DEF JobLists, JobTypes
  <2> QED
    BY <1>0, <1>1, <2>1
<1>5. x \in Sendable(Len(opened), mode.aggregated) /\ x \in Message /\ x.value = j
      /\ x.kind = "notify" /\ x.channel = c
  <2>1. x \in Message /\ x.value = j /\ x.kind = "notify" /\ x.channel = c
    BY <1>1 DEF Message, Notify
  <2> QED
    BY <1>1, <2>1 DEF Sendable, Aggregated
<1> HIDE DEF j, x, kept
<1>6. /\ jobs'[list] = kept \cup {j} /\ \A k \in Channel : k # list => jobs'[k] = jobs[k]
      /\ j \in jobs'[list] /\ \A i \in jobs'[list] : i <= j
      /\ jobs' \in [Channel -> SUBSET (1..MaxJobs)]
  <2>1. /\ jobs'[list] = kept \cup {j} /\ \A k \in Channel : k # list => jobs'[k] = jobs[k]
        /\ jobs' \in [Channel -> SUBSET (1..MaxJobs)]
    <3> HIDE DEF list
    <3> QED
      BY <1>0, <1>1, <1>2, <1>3 DEF JobTypes
  <2> HIDE DEF list
  <2> QED
    BY <1>1, <1>3, <1>4, <2>1
<1>7. TypeOK'
  <2>1. inbox' \in [Miner -> Seq(Message)]
    <3>1. \A n \in Miner : Append(inbox[n], x) \in Seq(Message)
      BY <1>0, <1>5
    <3> QED
      BY <1>0, <1>2, <3>1
  <2>2. MinerTypes' /\ ServerTypes' /\ TargetTypes' /\ Owners'
    BY <1>0, <1>2, <2>1 DEF MinerTypes, ServerTypes, TargetTypes, Owners
  <2>3. JobTypes'
    BY <1>1, <1>2, <1>6 DEF JobTypes
  <2> QED
    BY <2>2, <2>3, TypesInParts
<1>8. Server' /\ Handshakes' /\ SetupChannel' = All
  BY <1>0, <1>2, ServerKept, HandshakesKept DEF IInv, SetupChannel
<1>9. JobLists'
  <2>1. Aggregated' <=> Aggregated
    BY <1>2 DEF Aggregated
  <2>2. \A k \in Channel : \A i \in jobs'[k] : i <= j
    BY <1>4, <1>6
  <2>3. Aggregated => j \in jobs'[All]
    BY <1>6
  <2>4. ~Aggregated => \A k \in Channel : k > Len(opened') => jobs'[k] = {}
    BY <1>0, <1>1, <1>2, <1>6, Bounds DEF JobLists
  <2> QED
    BY <1>1, <2>1, <2>2, <2>3, <2>4 DEF JobLists, j
<1>10. ASSUME NEW n \in Miner PROVE SoundMiner(n)'
  <2> DEFINE then == ValidJobs(n)'
  <2>1. Sound(mode, opened, All, n, conn[n], data[n], has[n], inbox[n], waiting[n], updates,
              overlapped, ValidJobs(n))
    BY <1>0 DEF SoundMiner
  <2> SUFFICES Sound(mode, opened, All, n, conn[n], data[n], has[n], inbox'[n], waiting[n],
                     updates, overlapped, then)
    BY <1>2, <1>8 DEF SoundMiner
  <2>2. then = IF Aggregated THEN jobs'[All] ELSE jobs'[data[n].channel_id]
    BY <1>2 DEF ValidJobs, Aggregated
  <2>3. ValidJobs(n) = IF Aggregated THEN jobs[All] ELSE jobs[data[n].channel_id]
    BY DEF ValidJobs
  <2> HIDE DEF then
  <2>4. CASE conn[n] = "connected" /\ (c = All \/ data[n].channel_id = c)
    <3>1. inbox'[n] = Append(inbox[n], x)
      BY <1>2, <2>4
    <3>2. Counts(x, "notify", data[n].channel_id)
      BY <1>5, <2>4 DEF Counts
    <3>3. then = jobs'[list]
      BY <1>1, <2>2, <2>4
    <3>4. x.value \in then /\ \A i \in then : i <= x.value
      BY <1>5, <1>6, <3>3
    <3> QED
      BY <1>0, <1>5, <2>1, <2>4, <3>1, <3>2, <3>4, NotifiedSound
  <2>5. CASE conn[n] # "connected" \/ (~Aggregated /\ data[n].channel_id = None)
    <3>1. inbox'[n] = inbox[n]
      BY <1>1, <1>2, <2>5, Bounds
    <3> QED
      BY <2>1, <2>5, <3>1 DEF Sound, Aggregated
  <2>6. CASE /\ conn[n] = "connected" /\ c # All /\ data[n].channel_id # c
             /\ Aggregated \/ data[n].channel_id # None
    <3>1. inbox'[n] = inbox[n]
      BY <1>2, <2>6
    <3>2. CASE ~Aggregated
      <4>1. data[n].channel_id \in Channel /\ data[n].channel_id # list
        BY <1>0, <2>6, <3>2, Bounds DEF DownstreamData
      <4>2. then = ValidJobs(n)
        BY <1>6, <2>2, <2>3, <3>2, <4>1
      <4> QED
        BY <2>1, <3>1, <4>2
    <3>3. CASE Aggregated
      <4>1. j = last.job /\ last.follows = c /\ last.job # 0
        BY <1>0, <1>1, <2>6, <3>3, Bounds DEF JobLists
      <4>2. last.job \in jobs[All] /\ All \in Channel
        BY <1>0, <2>6, <3>3, <4>1, Bounds DEF JobLists
      <4>3. \A v \in ValidJobs(n) : (\A i \in ValidJobs(n) : i <= v) => v = j
        BY <1>0, <1>4, <2>3, <3>3, <4>1, <4>2
      <4>4. j \in then /\ \A i \in then : i <= j
        BY <1>6, <2>2, <3>3
      <4>5. ValidJobs(n) # {}
        BY <2>3, <3>3, <4>2
      <4> QED
        BY <1>0, <2>1, <3>1, <4>3, <4>4, <4>5, UnnotifiedSound
    <3> QED
      BY <3>2, <3>3
  <2> QED
    BY <2>4, <2>5, <2>6
<1> QED
  BY <1>7, <1>8, <1>9, <1>10 DEF IInv

-----------------------------------------------------------------------------
(* Steps that change targets. *)

\* A step that sends set_difficulty messages, `more` of each miner, and changes what
\* miners want and what waits for the upstream.
LEMMA TargetsInv ==
  ASSUME IInv, Idle, NEW more,
         UNCHANGED <<mode, conn, sent, task, has, serverVars, jobVars>>,
         data' \in [Miner -> DownstreamData],
         inbox' = [n \in Miner |-> inbox[n] \o more[n]],
         TargetTypes', Server', overlapped => overlapped',
         \A n \in Miner :
           LET d == data[n]
               e == data'[n]
           IN  /\ more[n] \in Seq({Difficulty(d.channel_id, v) : v \in Target})
               /\ conn[n] # "connected" \/ d.channel_id = None => more[n] = <<>>
               /\ SameButTargets(d, e)
               /\ d.channel_id = None /\ Untold(d, has[n], waiting[n]) =>
                    Untold(e, has[n], waiting'[n])
               /\ /\ conn[n] = "connected" /\ d.channel_id # None /\ ~overlapped'
                  /\ InStep(mode, d, has[n], inbox[n], waiting[n], updates)
                  => InStep(mode, e, has[n], inbox[n] \o more[n], waiting'[n], updates')
  PROVE  IInv'
<1>0. /\ MinerTypes /\ ServerTypes /\ TargetTypes /\ JobTypes /\ Owners
      /\ \A n \in Miner : /\ SoundMiner(n) /\ data[n] \in DownstreamData
                          /\ inbox[n] \in Seq(Message)
                          /\ data[n].channel_id \in (1..Len(opened)) \cup {None}
      /\ SetupChannel = All /\ opened \in Seq(Miner) /\ mode.aggregated \in BOOLEAN
      /\ overlapped \in BOOLEAN /\ Len(opened) \in 0..MaxChannels
  BY Facts DEF IInv, TargetTypes
<1>1. UNCHANGED <<mode, conn, sent, task, has, to_server, server, asked, opened, jobs, last, clean_job>>
  BY DEF serverVars, jobVars
<1>2. ASSUME NEW n \in Miner
      PROVE  /\ more[n] \in Seq(Sendable(Len(opened), mode.aggregated))
             /\ more[n] \in Seq(Message)
             /\ OnlyDifficulty(more[n])
  <2> DEFINE c == data[n].channel_id
             D == {Difficulty(c, v) : v \in Target}
             q == more[n]
  <2>1. q \in Seq(D) /\ (c = None => q = <<>>)
    OBVIOUS
  <2>2. \A k \in DOMAIN q : q[k] \in D
    <3> HIDE DEF D, q
    <3> QED
      BY <2>1
  <2>3. \A z \in D : z.kind = "difficulty"
    BY DEF Difficulty
  <2>4. OnlyDifficulty(q)
    BY <2>2, <2>3 DEF OnlyDifficulty
  <2>5. CASE c = None
    <3>1. <<>> \in Seq(Sendable(Len(opened), mode.aggregated)) /\ <<>> \in Seq(Message)
      OBVIOUS
    <3> QED
      BY <2>1, <2>4, <2>5, <3>1
  <2>6. CASE c # None
    <3>1. c \in 1..Len(opened) /\ c \in 1..MaxChannels
      BY <1>0, <2>6, Bounds
    <3>2. D \subseteq Message
      BY <3>1 DEF Difficulty, Message
    <3>3. D \subseteq Sendable(Len(opened), mode.aggregated)
      BY <1>0, <3>1, <3>2 DEF Difficulty, Sendable, All
    <3> HIDE DEF D
    <3> QED
      BY <2>1, <2>4, <3>2, <3>3, SeqMonotonic
  <2> QED
    BY <2>5, <2>6
<1>3. TypeOK'
  <2>1. inbox' \in [Miner -> Seq(Message)]
    <3>1. \A n \in Miner : inbox[n] \o more[n] \in Seq(Message)
      BY <1>0, <1>2
    <3> QED
      BY <3>1
  <2>2. MinerTypes' /\ ServerTypes' /\ JobTypes'
    BY <1>0, <1>1, <2>1 DEF MinerTypes, ServerTypes, JobTypes
  <2>3. Owners'
    BY <1>0, <1>1 DEF Owners, SameButTargets
  <2> QED
    BY <2>2, <2>3, TypesInParts
<1>4. JobLists' /\ Handshakes' /\ SetupChannel' = All
  BY <1>0, <1>1, JobListsKept, HandshakesKept DEF IInv, SetupChannel
<1>5. ASSUME NEW n \in Miner PROVE SoundMiner(n)'
  <2>1. ValidJobs(n)' = ValidJobs(n)
    BY <1>1 DEF ValidJobs, Aggregated, SameButTargets
  <2>2. Sound(mode, opened, All, n, conn[n], data[n], has[n], inbox[n], waiting[n], updates,
              overlapped, ValidJobs(n))
    BY <1>0 DEF SoundMiner
  <2>3. overlapped' \in BOOLEAN
    BY DEF TargetTypes
  <2>4. Sound(mode, opened, All, n, conn[n], data'[n], has[n], inbox[n] \o more[n], waiting'[n],
              updates', overlapped', ValidJobs(n))
    <3> DEFINE d == data[n]
               e == data'[n]
               h == has[n]
               q == more[n]
               valid == ValidJobs(n)
               box == inbox[n]
    <3>1. /\ conn[n] # "connected" \/ d.channel_id = None => q = <<>>
          /\ SameButTargets(d, e)
          /\ conn[n] = "connected" /\ d.channel_id = None /\ Untold(d, h, waiting[n]) =>
               Untold(e, h, waiting'[n])
          /\ /\ conn[n] = "connected" /\ d.channel_id # None /\ ~overlapped' /\ ~Twice(opened, n)
             /\ InStep(mode, d, h, box, waiting[n], updates)
             => InStep(mode, e, h, box \o q, waiting'[n], updates')
          /\ d \in DownstreamData /\ opened \in Seq(Miner) /\ overlapped \in BOOLEAN
          /\ overlapped => overlapped'
          /\ q \in Seq(Sendable(Len(opened), mode.aggregated))
          /\ OnlyDifficulty(q)
      BY <1>0, <1>2
    <3>2. Sound(mode, opened, All, n, conn[n], d, h, box, waiting[n], updates, overlapped, valid)
      BY <2>2
    <3> HIDE DEF d, e, h, q, valid, box
    <3>3. Sound(mode, opened, All, n, conn[n], e, h, box \o q, waiting'[n], updates', overlapped', valid)
      BY <2>3, <3>1, <3>2, RetargetedSound
    <3> QED
      BY <3>3 DEF d, e, h, q, valid, box
  <2> QED
    BY <1>1, <1>4, <2>1, <2>4 DEF SoundMiner
<1> QED
  BY <1>3, <1>4, <1>5 DEF IInv

LEMMA AppendedLast ==
  ASSUME NEW T, NEW s \in Seq(T), NEW x \in T
  PROVE  s \o <<x>> = Append(s, x) /\ s \o <<>> = s
OBVIOUS

\* Without an unanswered UpdateChannel nothing waits for one.
LEMMA NothingWaits ==
  ASSUME NEW mo, NEW d, NEW h, NEW box, NEW w, InStep(mo, d, h, box, w, <<>>)
  PROVE  w = <<>> /\ Latest(box, "difficulty", d.channel_id, DifficultySent(d, h), Wants(d))
BY DEF InStep, Covered

\* A set_difficulty with what is now wanted brings a miner in step.
LEMMA InStepTold ==
  ASSUME NEW mo, NEW d, NEW e, e.channel_id = d.channel_id,
         NEW v \in Target, Wants(e) = v, NEW T, NEW box \in Seq(T),
         Difficulty(d.channel_id, v) \in T, NEW h, NEW u
  PROVE  InStep(mo, e, h, Append(box, Difficulty(d.channel_id, v)), <<>>, u)
<1> DEFINE x == Difficulty(d.channel_id, v)
<1>1. Counts(x, "difficulty", d.channel_id) /\ x.value = v
  BY DEF Difficulty, Counts
<1> HIDE DEF x
<1>2. Latest(Append(box, x), "difficulty", d.channel_id, DifficultySent(e, h), x.value)
  BY <1>1, LatestAppend DEF x
<1> QED
  BY <1>1, <1>2 DEF InStep, x

\* Every miner has its place in an order.
LEMMA OrdersReachAll ==
  ASSUME NEW S \in SUBSET Miner, NEW order \in Orders(S)
  PROVE  /\ Cardinality(S) \in Nat /\ DOMAIN order = 1..Cardinality(S)
         /\ \A i \in DOMAIN order : order[i] \in S
         /\ \A n \in S : \E i \in DOMAIN order : order[i] = n
<1>1. IsFiniteSet(S)
  BY MinerAssumption, FS_Subset
<1> DEFINE k == Cardinality(S)
<1>2. k \in Nat
  BY <1>1, FS_CardinalityType
<1>3. Cardinality(1..k) = k
  <2>1. Cardinality(1..k) = IF 1 > k THEN 0 ELSE k - 1 + 1
    <3> HIDE DEF k
    <3> QED
      BY <1>2, FS_Interval
  <2> QED
    BY <1>2, <2>1
<1> HIDE DEF k
<1>4. order \in [1..k -> S] /\ \A i, j \in 1..k : i # j => order[i] # order[j]
  BY DEF Orders, k
<1>5. order \in Injection(1..k, S)
  BY <1>4 DEF Injection, IsInjective
<1>6. order \in Surjection(1..k, S)
  BY <1>1, <1>3, <1>5, FS_Injection DEF k
<1> QED
  BY <1>2, <1>4, <1>6 DEF Surjection, k

\* handle_vardiff_updates.
LEMMA VardiffInv ==
  ASSUME IInv, HandleVardiffUpdates
  PROVE  IInv'
<1>0. /\ MinerTypes /\ ServerTypes /\ TargetTypes /\ Owners /\ Server /\ Idle
      /\ \A n \in Miner : /\ data[n] \in DownstreamData /\ inbox[n] \in Seq(Message)
                          /\ waiting[n] \in Seq(Target)
                          /\ data[n].channel_id \in (1..Len(opened)) \cup {None}
      /\ mode.aggregated \in BOOLEAN /\ mode.vardiff
      /\ overlapped \in BOOLEAN /\ Len(opened) \in 0..MaxChannels
  BY Facts DEF IInv, TargetTypes, HandleVardiffUpdates
<1>1a. PICK S \in (SUBSET WithChannel) \ {{}} : \E new \in [S -> Target], order \in Orders(S) :
       /\ data' = [m \in Miner |-> IF m \in S THEN [data[m] EXCEPT !.pending = new[m]] ELSE data[m]]
       /\ waiting' = [m \in Miner |->
            IF m \in S /\ ~Allowed(m, new[m]) THEN Append(waiting[m], new[m]) ELSE waiting[m]]
       /\ updates' = updates \o
            IF Aggregated
              THEN <<[channel |-> All, target |-> LeastWanted(data', {m \in Miner : Known(m)})]>>
              ELSE [i \in DOMAIN order |-> [channel |-> data[order[i]].channel_id,
                                            target |-> new[order[i]]]]
       /\ inbox' = [m \in Miner |->
            IF m \in S /\ conn[m] = "connected" /\ Allowed(m, new[m])
              THEN Append(inbox[m], Difficulty(data[m].channel_id, new[m])) ELSE inbox[m]]
  BY DEF HandleVardiffUpdates
<1>1. PICK new \in [S -> Target], order \in Orders(S) :
       /\ data' = [m \in Miner |-> IF m \in S THEN [data[m] EXCEPT !.pending = new[m]] ELSE data[m]]
       /\ waiting' = [m \in Miner |->
            IF m \in S /\ ~Allowed(m, new[m]) THEN Append(waiting[m], new[m]) ELSE waiting[m]]
       /\ updates' = updates \o
            IF Aggregated
              THEN <<[channel |-> All, target |-> LeastWanted(data', {m \in Miner : Known(m)})]>>
              ELSE [i \in DOMAIN order |-> [channel |-> data[order[i]].channel_id,
                                            target |-> new[order[i]]]]
       /\ inbox' = [m \in Miner |->
            IF m \in S /\ conn[m] = "connected" /\ Allowed(m, new[m])
              THEN Append(inbox[m], Difficulty(data[m].channel_id, new[m])) ELSE inbox[m]]
  BY <1>1a
<1>2. /\ targets' = targets + 1 /\ targets < MaxTargets
      /\ overlapped' = (overlapped \/ updates # <<>>)
      /\ UNCHANGED <<mode, conn, sent, task, has, serverVars, jobVars>>
  BY DEF HandleVardiffUpdates, TargetEvent
<1>3. /\ S \subseteq Miner /\ \A n \in S : new[n] \in Target /\ Known(n) /\ data[n].channel_id # None
      /\ S # {}
  <2>1. S \in (SUBSET WithChannel) \ {{}}
    BY <1>1a, Zenon
  <2>2. S \subseteq WithChannel /\ S # {}
    BY <2>1
  <2>3. \A n \in WithChannel : n \in Miner /\ Known(n) /\ data[n].channel_id # None
    BY DEF WithChannel
  <2>4. \A n \in S : new[n] \in Target
    BY <1>1
  <2> QED
    BY <2>2, <2>3, <2>4
<1> DEFINE U == [channel : Channel, target : Target]
           least == LeastWanted(data', {m \in Miner : Known(m)})
           one == <<[channel |-> All, target |-> least]>>
           each == [i \in DOMAIN order |-> [channel |-> data[order[i]].channel_id,
                                            target |-> new[order[i]]]]
           part == IF Aggregated THEN one ELSE each
           more == [n \in Miner |-> IF n \in S /\ conn[n] = "connected" /\ Allowed(n, new[n])
                                    THEN <<Difficulty(data[n].channel_id, new[n])>> ELSE <<>>]
<1>4. ASSUME NEW n \in Miner
      PROVE  /\ data'[n] \in DownstreamData /\ SameButTargets(data[n], data'[n])
             /\ n \in S => Wants(data'[n]) = new[n]
             /\ n \notin S => data'[n] = data[n]
  <2>1. CASE n \notin S
    <3>1. data'[n] = data[n]
      BY <1>1, <2>1
    <3> QED
      BY <1>0, <2>1, <3>1 DEF SameButTargets
  <2>2. CASE n \in S
    <3>1. data'[n] = [data[n] EXCEPT !.pending = new[n]]
      BY <1>1, <2>2
    <3>2. data[n] \in DownstreamData /\ new[n] \in Target
      BY <1>0, <1>3, <2>2
    <3>3. /\ data'[n] \in DownstreamData /\ Wants(data'[n]) = new[n]
          /\ data'[n].channel_id = data[n].channel_id /\ data'[n].handshake = data[n].handshake
          /\ data'[n].cached_difficulty = data[n].cached_difficulty
          /\ data'[n].cached_notify = data[n].cached_notify
      BY <3>1, <3>2, Stored
    <3> QED
      BY <2>2, <3>3 DEF SameButTargets
  <2> QED
    BY <2>1, <2>2
<1>5. data' \in [Miner -> DownstreamData]
  <2>1. data' = [m \in Miner |-> data'[m]]
    BY <1>1
  <2> QED
    BY <1>4, <2>1
<1>6. least \in Target /\ \A n \in S : least <= new[n]
  <2> DEFINE T == {Wants(data'[m]) : m \in {k \in Miner : Known(k)}}
  <2>1. \A n \in Miner : Wants(data'[n]) \in Target
    BY <1>4 DEF Wants, DownstreamData
  <2>2. T \in SUBSET Nat /\ T \subseteq Target
    BY <2>1, Bounds
  <2>3. \A n \in S : new[n] \in T
    BY <1>3, <1>4
  <2>4. \A t \in T : Least(T) \in T /\ Least(T) <= t
    <3> HIDE DEF T
    <3> QED
      BY <2>2, LeastBelow
  <2>5. least = Least(T)
    BY DEF LeastWanted
  <2> HIDE DEF T, least
  <2> QED
    BY <1>3, <2>2, <2>3, <2>4, <2>5
<1> HIDE DEF least
<1>7. /\ Cardinality(S) \in Nat /\ DOMAIN order = 1..Cardinality(S)
      /\ \A i \in DOMAIN order : order[i] \in S
      /\ \A n \in S : \E i \in DOMAIN order : order[i] = n
  BY <1>1, <1>3, OrdersReachAll
<1>8. part \in Seq(U)
  <2>1. one \in Seq(U)
    BY <1>6, Bounds
  <2>2. each \in Seq(U)
    <3>1. \A i \in 1..Cardinality(S) :
            data[order[i]].channel_id \in Channel /\ new[order[i]] \in Target
      BY <1>0, <1>3, <1>7, Bounds
    <3>2. each \in [1..Cardinality(S) -> U]
      BY <1>7, <3>1
    <3> HIDE DEF each, U
    <3> QED
      BY <1>7, <3>2, SeqDef
  <2> QED
    BY <2>1, <2>2
<1>9. updates' = updates \o part /\ updates' \in Seq(U) /\ updates \in Seq(U)
  <2>1. updates' = updates \o part /\ updates \in Seq(U)
    BY <1>0, <1>1 DEF TargetTypes, least
  <2> HIDE DEF part, U
  <2> QED
    BY <1>8, <2>1
<1>10. waiting' \in [Miner -> Seq(Target)]
  <2>1. \A n \in Miner : n \in S => Append(waiting[n], new[n]) \in Seq(Target)
    BY <1>0, <1>3
  <2> QED
    BY <1>0, <1>1, <2>1
<1>11. TargetTypes'
  BY <1>0, <1>2, <1>9, <1>10, Bounds DEF TargetTypes
<1>12. Server'
  <2>1. (Aggregated' <=> Aggregated) /\ server' = server /\ opened' = opened
    BY <1>2 DEF Aggregated, serverVars
  <2>2. ASSUME Aggregated, NEW i \in DOMAIN updates' PROVE updates'[i].channel = All
    <3>1. part = one /\ \A k \in DOMAIN one : one[k].channel = All
      BY <2>2
    <3>2. \A k \in DOMAIN updates : updates[k].channel = All
      BY <1>0, <2>2 DEF Server
    <3>3. \/ i \in DOMAIN updates /\ updates'[i] = updates[i]
          \/ i - Len(updates) \in DOMAIN part /\ updates'[i] = part[i - Len(updates)]
      <4> HIDE DEF part, U
      <4> QED
        BY <1>8, <1>9
    <3> QED
      BY <3>1, <3>2, <3>3
  <2> QED
    BY <1>0, <2>1, <2>2 DEF Server
<1>13. inbox' = [n \in Miner |-> inbox[n] \o more[n]]
  <2>1. ASSUME NEW n \in Miner PROVE inbox[n] \o <<>> = inbox[n]
    BY <1>0
  <2>2. ASSUME NEW n \in S
        PROVE  inbox[n] \o <<Difficulty(data[n].channel_id, new[n])>>
                 = Append(inbox[n], Difficulty(data[n].channel_id, new[n]))
    <3>1. Difficulty(data[n].channel_id, new[n]) \in Message
      BY <1>0, <1>3, Bounds DEF Difficulty, Message
    <3> QED
      BY <1>0, <1>3, <3>1, AppendedLast
  <2> QED
    BY <1>1, <1>3, <2>1, <2>2
<1>14. ASSUME NEW n \in Miner
       PROVE  /\ more[n] \in Seq({Difficulty(data[n].channel_id, v) : v \in Target})
              /\ conn[n] # "connected" \/ data[n].channel_id = None => more[n] = <<>>
  <2> DEFINE D == {Difficulty(data[n].channel_id, v) : v \in Target}
  <2>1. n \in S => Difficulty(data[n].channel_id, new[n]) \in D
    BY <1>3
  <2> HIDE DEF D
  <2>2. <<>> \in Seq(D) /\ \A x \in D : <<x>> \in Seq(D)
    OBVIOUS
  <2>3. more[n] \in Seq(D)
    BY <2>1, <2>2
  <2> QED
    BY <1>3, <2>3 DEF D
<1>15. ASSUME NEW n \in Miner, data[n].channel_id = None, Untold(data[n], has[n], waiting[n])
       PROVE  Untold(data'[n], has[n], waiting'[n])
  <2>1. n \notin S
    BY <1>3, <1>15
  <2>2. data'[n] = data[n] /\ waiting'[n] = waiting[n]
    BY <1>1, <1>4, <2>1
  <2> QED
    BY <1>15, <2>2
<1>16. ASSUME NEW n \in Miner, conn[n] = "connected", data[n].channel_id # None, ~overlapped',
              InStep(mode, data[n], has[n], inbox[n], waiting[n], updates)
       PROVE  InStep(mode, data'[n], has[n], inbox[n] \o more[n], waiting'[n], updates')
  <2> DEFINE d == data[n]
             e == data'[n]
  <2>1. updates = <<>>
    BY <1>2, <1>16
  <2>2. waiting[n] = <<>> /\ Latest(inbox[n], "difficulty", d.channel_id, DifficultySent(d, has[n]), Wants(d))
    BY <1>16, <2>1, NothingWaits
  <2>3. updates' = part
    <3> HIDE DEF part, U
    <3> QED
      BY <1>8, <1>9, <2>1
  <2>4. inbox[n] \o more[n] = inbox'[n]
    BY <1>13
  <2> SUFFICES InStep(mode, e, has[n], inbox'[n], waiting'[n], part)
    BY <2>3, <2>4
  <2>5. CASE n \notin S
    <3>1. e = d /\ waiting'[n] = <<>> /\ inbox'[n] = inbox[n]
      BY <1>1, <1>4, <2>2, <2>5
    <3> QED
      BY <2>2, <3>1 DEF InStep
  <2>6. CASE n \in S /\ Allowed(n, new[n])
    <3>1. /\ waiting'[n] = <<>> /\ inbox'[n] = Append(inbox[n], Difficulty(d.channel_id, new[n]))
          /\ Wants(e) = new[n] /\ new[n] \in Target /\ e.channel_id = d.channel_id
      BY <1>1, <1>3, <1>4, <1>16, <2>2, <2>6 DEF SameButTargets
    <3>2. Difficulty(d.channel_id, new[n]) \in Message
      BY <1>0, <1>3, <2>6, Bounds DEF Difficulty, Message
    <3>3. inbox[n] \in Seq(Message)
      BY <1>0
    <3>4. new[n] \in Target /\ Wants(e) = new[n] /\ e.channel_id = d.channel_id
      BY <3>1
    <3> HIDE DEF d, e, part
    <3>5. InStep(mode, e, has[n], Append(inbox[n], Difficulty(d.channel_id, new[n])), <<>>, part)
      BY <3>2, <3>3, <3>4, InStepTold
    <3> QED
      BY <3>1, <3>5
  <2>7. CASE n \in S /\ ~Allowed(n, new[n])
    <3>1. waiting'[n] = <<Wants(e)>> /\ Wants(e) = new[n] /\ e.channel_id = d.channel_id
      <4>1. waiting'[n] = Append(waiting[n], new[n])
        BY <1>1, <2>7
      <4>2. Wants(e) = new[n] /\ e.channel_id = d.channel_id
        BY <1>4, <2>7 DEF SameButTargets
      <4> HIDE DEF d, e
      <4> QED
        BY <2>2, <4>1, <4>2
    <3>2. Covered(part, UpdatesOf(mode, d.channel_id), new[n])
      <4>1. CASE Aggregated
        <5>1. /\ part = one /\ UpdatesOf(mode, d.channel_id) = All /\ DOMAIN one = {1}
              /\ one[1].channel = All /\ one[1].target = least
          BY <4>1 DEF UpdatesOf, Aggregated
        <5>2. least <= new[n]
          BY <1>6, <2>7
        <5> HIDE DEF one, part
        <5> QED
          BY <5>1, <5>2 DEF Covered
      <4>2. CASE ~Aggregated
        <5>1. part = each /\ UpdatesOf(mode, d.channel_id) = d.channel_id /\ DOMAIN each = DOMAIN order
              /\ \A i \in DOMAIN order : /\ each[i].channel = data[order[i]].channel_id
                                         /\ each[i].target = new[order[i]]
          BY <4>2 DEF UpdatesOf, Aggregated
        <5>2. \A i \in DOMAIN order : data[order[i]].channel_id = d.channel_id => order[i] = n
          BY <1>0, <1>3, <1>7, <1>16 DEF Owners
        <5>3. \E i \in DOMAIN order : order[i] = n
          BY <1>7, <2>7
        <5>4. new[n] <= new[n]
          <6>1. new[n] \in Target
            BY <1>3, <2>7
          <6>2. \A t \in Target : t \in Nat
            BY Bounds
          <6> QED
            BY <6>1, <6>2
        <5> HIDE DEF each, part
        <5> QED
          BY <5>1, <5>2, <5>3, <5>4 DEF Covered
      <4> QED
        BY <4>1, <4>2
    <3> QED
      BY <1>0, <3>1, <3>2 DEF InStep
  <2> QED
    BY <2>5, <2>6, <2>7
<1> HIDE DEF more
<1>17. overlapped => overlapped'
  BY <1>2
<1> QED
  BY <1>0, <1>2, <1>4, <1>5, <1>11, <1>12, <1>13, <1>14, <1>15, <1>16, <1>17, TargetsInv

\* What waits for another UpdateChannel than the first still does when the first is answered.
LEMMA CoveredTail ==
  ASSUME NEW T, NEW u \in Seq(T), u # <<>>, NEW k, Head(u).channel # k, NEW v, Covered(u, k, v)
  PROVE  Covered(Tail(u), k, v)
<1> DEFINE n == Len(u)
           less == Tail(u)
<1>1. /\ n \in Nat \ {0} /\ DOMAIN u = 1..n /\ DOMAIN less = 1..(n - 1)
      /\ \A i \in 1..(n - 1) : less[i] = u[i + 1]
      /\ Head(u) = u[1]
  OBVIOUS
<1> HIDE DEF n, less
<1>2. PICK i \in 1..n : u[i].channel = k
  BY <1>1 DEF Covered
<1>3. i # 1
  BY <1>1, <1>2
<1>4. i - 1 \in DOMAIN less /\ less[i - 1].channel = k
  BY <1>1, <1>2, <1>3
<1>5. \A j \in DOMAIN less : j + 1 \in DOMAIN u /\ less[j] = u[j + 1]
  BY <1>1
<1> QED
  BY <1>4, <1>5 DEF Covered, less

\* The upstream's target may answer the first of the updates, or come by itself.
Answers(c, t) ==
  \/ UNCHANGED updates /\ (updates # <<>> => overlapped')
  \/ /\ updates # <<>> /\ updates' = Tail(updates)
     /\ c = Head(updates).channel /\ t <= Head(updates).target

\* handle_set_target_without_vardiff: what the upstream sets is wanted, and sent.
LEMMA PlainTargetInv ==
  ASSUME IInv, NEW c, NEW t \in Target, Idle, SetTargetWithoutVardiff(c, t), ~mode.vardiff,
         UNCHANGED <<mode, conn, sent, task, has, serverVars, jobVars>>,
         TargetTypes', Server', overlapped => overlapped'
  PROVE  IInv'
<1> DEFINE affected == {m \in WithChannel : Aggregated \/ data[m].channel_id = c}
           more == [n \in Miner |-> IF n \in affected /\ conn[n] = "connected"
                                    THEN <<Difficulty(data[n].channel_id, t)>> ELSE <<>>]
<1>0. \A n \in Miner : /\ data[n] \in DownstreamData /\ inbox[n] \in Seq(Message)
                       /\ waiting[n] \in Seq(Target)
                       /\ data[n].channel_id \in (1..Len(opened)) \cup {None}
                       /\ data[n].channel_id \in (1..MaxChannels) \cup {None}
  BY Facts DEF DownstreamData
<1>1. /\ data' = [m \in Miner |->
                    IF m \in affected THEN [data[m] EXCEPT !.upstream = t, !.pending = t]
                    ELSE data[m]]
      /\ inbox' = [m \in Miner |->
                    IF m \in affected /\ conn[m] = "connected"
                      THEN Append(inbox[m], Difficulty(data[m].channel_id, t)) ELSE inbox[m]]
      /\ waiting' = waiting
  BY DEF SetTargetWithoutVardiff
<1>2. \A n \in affected : n \in Miner /\ data[n].channel_id # None
  BY DEF WithChannel
<1> HIDE DEF affected
<1>3. ASSUME NEW n \in Miner
      PROVE  /\ data'[n] \in DownstreamData /\ SameButTargets(data[n], data'[n])
             /\ n \in affected => Wants(data'[n]) = t
             /\ n \notin affected => data'[n] = data[n]
  <2>1. CASE n \notin affected
    <3>1. data'[n] = data[n]
      BY <1>1, <2>1
    <3> QED
      BY <1>0, <2>1, <3>1 DEF SameButTargets
  <2>2. CASE n \in affected
    <3> DEFINE d == data[n]
               e == [d EXCEPT !.upstream = t, !.pending = t]
    <3>1. data'[n] = e
      BY <1>1, <2>2
    <3>2. d \in DownstreamData
      BY <1>0
    <3> HIDE DEF d
    <3>3. /\ e \in DownstreamData /\ e.pending = t
          /\ e.channel_id = d.channel_id /\ e.handshake = d.handshake
          /\ e.cached_difficulty = d.cached_difficulty
          /\ e.cached_notify = d.cached_notify
      BY <3>2 DEF DownstreamData
    <3> HIDE DEF e
    <3>4. Wants(e) = t /\ SameButTargets(d, e)
      BY <3>3, Bounds DEF Wants, SameButTargets
    <3> QED
      BY <2>2, <3>1, <3>3, <3>4 DEF d
  <2> QED
    BY <2>1, <2>2
<1>4. data' \in [Miner -> DownstreamData]
  <2>1. data' = [m \in Miner |-> data'[m]]
    BY <1>1
  <2> QED
    BY <1>3, <2>1
<1>5. \A n \in affected : Difficulty(data[n].channel_id, t) \in Message
  BY <1>0, <1>2 DEF Difficulty, Message
<1>6. inbox' = [n \in Miner |-> inbox[n] \o more[n]]
  <2>1. ASSUME NEW n \in Miner PROVE inbox[n] \o <<>> = inbox[n]
    BY <1>0
  <2>2. ASSUME NEW n \in affected
        PROVE  inbox[n] \o <<Difficulty(data[n].channel_id, t)>>
                 = Append(inbox[n], Difficulty(data[n].channel_id, t))
    BY <1>0, <1>2, <1>5, AppendedLast
  <2> QED
    BY <1>1, <1>2, <2>1, <2>2
<1>7. ASSUME NEW n \in Miner
      PROVE  /\ more[n] \in Seq({Difficulty(data[n].channel_id, v) : v \in Target})
             /\ conn[n] # "connected" \/ data[n].channel_id = None => more[n] = <<>>
  <2> DEFINE D == {Difficulty(data[n].channel_id, v) : v \in Target}
  <2>1. Difficulty(data[n].channel_id, t) \in D
    OBVIOUS
  <2> HIDE DEF D
  <2>2. <<>> \in Seq(D) /\ \A x \in D : <<x>> \in Seq(D)
    OBVIOUS
  <2>3. more[n] \in Seq(D)
    BY <2>1, <2>2
  <2> QED
    BY <1>2, <2>3 DEF D
<1>8. ASSUME NEW n \in Miner, data[n].channel_id = None, Untold(data[n], has[n], waiting[n])
      PROVE  Untold(data'[n], has[n], waiting'[n])
  <2>1. data'[n] = data[n] /\ waiting'[n] = waiting[n]
    BY <1>1, <1>2, <1>3, <1>8
  <2> QED
    BY <1>8, <2>1
<1>9. ASSUME NEW n \in Miner, conn[n] = "connected", data[n].channel_id # None,
             InStep(mode, data[n], has[n], inbox[n], waiting[n], updates)
      PROVE  InStep(mode, data'[n], has[n], inbox[n] \o more[n], waiting'[n], updates')
  <2> DEFINE d == data[n]
             e == data'[n]
  <2>1. /\ waiting'[n] = <<>>
        /\ Latest(inbox[n], "difficulty", d.channel_id, DifficultySent(d, has[n]), Wants(d))
    BY <1>1, <1>9 DEF InStep
  <2>2. CASE n \notin affected
    <3>1. e = d /\ inbox[n] \o more[n] = inbox[n]
      BY <1>0, <1>3, <2>2
    <3> HIDE DEF more
    <3> QED
      BY <2>1, <3>1 DEF InStep
  <2>3. CASE n \in affected
    <3>1. inbox[n] \o more[n] = Append(inbox[n], Difficulty(d.channel_id, t))
      BY <1>1, <1>6, <1>9, <2>3
    <3>2. Wants(e) = t /\ e.channel_id = d.channel_id
      BY <1>3, <2>3 DEF SameButTargets
    <3>3. Difficulty(d.channel_id, t) \in Message /\ inbox[n] \in Seq(Message)
      BY <1>0, <1>5, <2>3
    <3> HIDE DEF d, e, more
    <3>4. InStep(mode, e, has[n], Append(inbox[n], Difficulty(d.channel_id, t)), <<>>, updates')
      BY <3>2, <3>3, InStepTold
    <3> QED
      BY <2>1, <3>1, <3>4 DEF e
  <2> QED
    BY <2>2, <2>3
<1> HIDE DEF more
<1> QED
  BY <1>3, <1>4, <1>6, <1>7, <1>8, <1>9, TargetsInv

\* handle_set_target_message: what waited for the upstream is released.
LEMMA VardiffTargetInv ==
  ASSUME IInv, NEW c, NEW t \in Target, Idle, SetTargetWithVardiff(c, t), mode.vardiff,
         Answers(c, t),
         UNCHANGED <<mode, conn, sent, task, has, serverVars, jobVars>>,
         TargetTypes', Server', overlapped => overlapped'
  PROVE  IInv'
<1> DEFINE affected == {m \in Miner : Known(m) /\ (Aggregated \/ data[m].channel_id = c)}
           named == IF Aggregated THEN Miner ELSE affected
           more == [n \in Miner |->
                      IF n \in named /\ conn[n] = "connected" /\ data[n].channel_id # None
                        THEN Released(n, t) ELSE <<>>]
<1>0. /\ \A n \in Miner : /\ data[n] \in DownstreamData /\ inbox[n] \in Seq(Message)
                          /\ waiting[n] \in Seq(Target)
                          /\ data[n].channel_id \in (1..MaxChannels) \cup {None}
      /\ Server /\ updates \in Seq([channel : Channel, target : Target])
      /\ overlapped' \in BOOLEAN
  BY Facts DEF DownstreamData, IInv, TargetTypes
<1>1. /\ data' = [m \in Miner |->
                    IF m \in affected THEN [data[m] EXCEPT !.upstream = t] ELSE data[m]]
      /\ waiting' = [m \in Miner |-> IF m \in named THEN <<>> ELSE waiting[m]]
      /\ inbox' = [m \in Miner |->
                    IF m \in named /\ conn[m] = "connected" /\ data[m].channel_id # None
                      THEN inbox[m] \o Released(m, t) ELSE inbox[m]]
  BY DEF SetTargetWithVardiff, LeaveWaiting
<1>2. \A n \in Miner : n \notin named => n \notin affected /\ ~Aggregated
                       /\ (conn[n] = "connected" => data[n].channel_id # c)
  BY DEF Known
<1>2a. \A n \in named : ~Aggregated => data[n].channel_id = c
  OBVIOUS
<1> HIDE DEF affected, named
<1>3. ASSUME NEW n \in Miner
      PROVE  /\ data'[n] \in DownstreamData /\ SameButTargets(data[n], data'[n])
             /\ Wants(data'[n]) = Wants(data[n])
             /\ data'[n].pending = data[n].pending /\ data'[n].target = data[n].target
             /\ n \notin affected => data'[n] = data[n]
  <2>1. CASE n \notin affected
    <3>1. data'[n] = data[n]
      BY <1>1, <2>1
    <3> QED
      BY <1>0, <2>1, <3>1 DEF SameButTargets
  <2>2. CASE n \in affected
    <3> DEFINE d == data[n]
               e == [d EXCEPT !.upstream = t]
    <3>1. data'[n] = e
      BY <1>1, <2>2
    <3>2. d \in DownstreamData
      BY <1>0
    <3> HIDE DEF d
    <3>3. /\ e \in DownstreamData /\ e.pending = d.pending /\ e.target = d.target
          /\ e.channel_id = d.channel_id /\ e.handshake = d.handshake
          /\ e.cached_difficulty = d.cached_difficulty
          /\ e.cached_notify = d.cached_notify
      BY <3>2, Stored
    <3> HIDE DEF e
    <3>4. Wants(e) = Wants(d) /\ SameButTargets(d, e)
      BY <3>3 DEF Wants, SameButTargets
    <3> QED
      BY <2>2, <3>1, <3>3, <3>4 DEF d
  <2> QED
    BY <2>1, <2>2
<1>4. data' \in [Miner -> DownstreamData]
  <2>1. data' = [m \in Miner |-> data'[m]]
    BY <1>1
  <2> QED
    BY <1>3, <2>1
<1>6. inbox' = [n \in Miner |-> inbox[n] \o more[n]]
  <2>1. ASSUME NEW n \in Miner PROVE inbox[n] \o <<>> = inbox[n]
    BY <1>0
  <2> QED
    BY <1>1, <2>1
<1>7. ASSUME NEW n \in Miner
      PROVE  /\ more[n] \in Seq({Difficulty(data[n].channel_id, v) : v \in Target})
             /\ conn[n] # "connected" \/ data[n].channel_id = None => more[n] = <<>>
  <2> DEFINE D == {Difficulty(data[n].channel_id, v) : v \in Target}
  <2>1. \A v \in Target : Difficulty(data[n].channel_id, v) \in D
    OBVIOUS
  <2> HIDE DEF D
  <2>2. <<>> \in Seq(D) /\ Released(n, t) \in Seq(D)
    BY <1>0, <2>1, ReleasedSound
  <2>3. more[n] \in Seq(D)
    BY <2>2
  <2> QED
    BY <2>3 DEF D
<1>8. ASSUME NEW n \in Miner, data[n].channel_id = None, Untold(data[n], has[n], waiting[n])
      PROVE  Untold(data'[n], has[n], waiting'[n])
  <2>1. waiting'[n] = <<>>
    BY <1>1, <1>8 DEF Untold
  <2> QED
    BY <1>3, <1>8, <2>1 DEF Untold, SameButTargets
<1>9. ASSUME NEW n \in Miner, conn[n] = "connected", data[n].channel_id # None, ~overlapped',
             InStep(mode, data[n], has[n], inbox[n], waiting[n], updates)
      PROVE  InStep(mode, data'[n], has[n], inbox[n] \o more[n], waiting'[n], updates')
  <2> DEFINE d == data[n]
             e == data'[n]
             v == Wants(d)
             k == UpdatesOf(mode, d.channel_id)
             w == waiting[n]
  <2>1. v \in Target /\ v \in Nat
    BY <1>0, Bounds DEF Wants, DownstreamData
  <2>2. /\ Wants(e) = v /\ e.channel_id = d.channel_id
        /\ DifficultySent(e, has[n]) = DifficultySent(d, has[n])
    BY <1>3 DEF SameButTargets, DifficultySent
  <2>3. CASE w = <<>> /\ Latest(inbox[n], "difficulty", d.channel_id, DifficultySent(d, has[n]), v)
    <3>1. waiting'[n] = <<>>
      BY <1>1, <2>3
    <3>2. more[n] = <<>>
      <4>1. \A q \in Target : Difficulty(d.channel_id, q) \in {Difficulty(d.channel_id, p) : p \in Target}
        OBVIOUS
      <4>2. Released(n, t) = <<>>
        BY <1>0, <2>3, <4>1, ReleasedSound
      <4> QED
        BY <4>2
    <3> HIDE DEF more
    <3>3. inbox[n] \o more[n] = inbox[n]
      BY <1>0, <3>2
    <3> HIDE DEF d, e, v
    <3> QED
      BY <2>2, <2>3, <3>1, <3>3 DEF InStep, e
  <2>4. CASE w = <<v>> /\ Covered(updates, k, v)
    <3>1. /\ updates # <<>> /\ updates' = Tail(updates)
          /\ c = Head(updates).channel /\ t <= Head(updates).target
      BY <1>9, <2>4 DEF Answers, Covered
    <3>2. 1 \in DOMAIN updates /\ Head(updates) = updates[1] /\ updates[1].target \in Target
      <4> DEFINE U == [channel : Channel, target : Target]
      <4>1. updates \in Seq(U) /\ updates # <<>>
        BY <1>0, <3>1
      <4>2. \A y \in U : y.target \in Target
        OBVIOUS
      <4> HIDE DEF U
      <4>3. 1 \in DOMAIN updates /\ Head(updates) = updates[1] /\ updates[1] \in U
        BY <4>1
      <4> QED
        BY <4>2, <4>3
    <3>3. CASE n \notin named
      <4>1. /\ e = d /\ waiting'[n] = <<v>> /\ more[n] = <<>> /\ k # c
        BY <1>1, <1>2, <1>3, <1>9, <2>4, <3>3 DEF UpdatesOf, Aggregated
      <4> HIDE DEF more
      <4>2. inbox[n] \o more[n] = inbox[n]
        BY <1>0, <4>1
      <4>3. Covered(updates', k, v)
        BY <1>0, <2>4, <3>1, <4>1, CoveredTail
      <4> QED
        BY <4>1, <4>2, <4>3 DEF InStep
    <3>4. CASE n \in named
      <4>1. k = c
        <5>1. Aggregated => Head(updates).channel = All
          BY <1>0, <3>2 DEF Server
        <5> QED
          BY <1>2a, <3>1, <3>4, <5>1 DEF UpdatesOf, Aggregated
      <4>2. t <= v
        <5>1. updates[1].target <= v
          BY <2>4, <3>1, <3>2, <4>1 DEF Covered
        <5>2. updates[1].target \in Nat /\ t \in Nat
          BY <3>2, Bounds
        <5> QED
          BY <2>1, <3>1, <3>2, <5>1, <5>2
      <4>3. more[n] = <<Difficulty(d.channel_id, v)>>
        <5>1. \A q \in Target : Difficulty(d.channel_id, q) \in {Difficulty(d.channel_id, p) : p \in Target}
          OBVIOUS
        <5>2. v >= t
          BY <2>1, <4>2, Bounds
        <5>3. Released(n, t) = <<Difficulty(d.channel_id, v)>>
          BY <1>0, <2>1, <2>4, <5>1, <5>2, ReleasedSound
        <5> QED
          BY <1>9, <3>4, <5>3
      <4>4. Difficulty(d.channel_id, v) \in Message /\ inbox[n] \in Seq(Message)
        BY <1>0, <1>9, <2>1 DEF Difficulty, Message
      <4>5. waiting'[n] = <<>>
        BY <1>1, <3>4
      <4> HIDE DEF d, e, v, more
      <4>6. inbox[n] \o more[n] = Append(inbox[n], Difficulty(d.channel_id, v))
        BY <4>3, <4>4, AppendedLast
      <4>7. InStep(mode, e, has[n], Append(inbox[n], Difficulty(d.channel_id, v)), <<>>, updates')
        BY <2>1, <2>2, <4>4, InStepTold
      <4> QED
        BY <4>5, <4>6, <4>7 DEF e
    <3> QED
      BY <3>3, <3>4
  <2> QED
    BY <1>9, <2>3, <2>4 DEF InStep
<1> HIDE DEF more
<1> QED
  BY <1>3, <1>4, <1>6, <1>7, <1>8, <1>9, TargetsInv

\* A SetTarget, that answers an UpdateChannel or that the upstream sends by itself.
LEMMA UpstreamInv ==
  ASSUME IInv, UpstreamAnswers \/ UpstreamRetargets
  PROVE  IInv'
<1> DEFINE U == [channel : Channel, target : Target]
<1>0. /\ TargetTypes /\ Server /\ mode.vardiff \in BOOLEAN /\ updates \in Seq(U)
      /\ overlapped \in BOOLEAN
  BY Facts DEF IInv, TargetTypes
<1>1. ASSUME NEW c, NEW t \in Target, HandleSetTarget(c, t), Answers(c, t),
             updates' \in Seq(U), \A i \in DOMAIN updates' : Aggregated => updates'[i].channel = All,
             targets' \in 0..MaxTargets, overlapped' \in BOOLEAN, overlapped => overlapped'
      PROVE  IInv'
  <2>1. /\ Idle /\ UNCHANGED <<mode, conn, sent, task, has, serverVars, jobVars>>
        /\ IF mode.vardiff THEN SetTargetWithVardiff(c, t) ELSE SetTargetWithoutVardiff(c, t)
    BY <1>1 DEF HandleSetTarget, FromManager
  <2>2. waiting' \in [Miner -> Seq(Target)]
    <3>1. <<>> \in Seq(Target)
      OBVIOUS
    <3>2. CASE mode.vardiff
      BY <1>0, <2>1, <3>1, <3>2 DEF SetTargetWithVardiff, LeaveWaiting, TargetTypes
    <3>3. CASE ~mode.vardiff
      BY <1>0, <2>1, <3>3 DEF SetTargetWithoutVardiff, TargetTypes
    <3> QED
      BY <3>2, <3>3
  <2>3. TargetTypes'
    BY <1>1, <2>2 DEF TargetTypes
  <2>4. Server'
    <3>1. server' = server /\ opened' = opened /\ (Aggregated' <=> Aggregated)
      BY <2>1 DEF serverVars, Aggregated
    <3> QED
      BY <1>0, <1>1, <3>1 DEF Server
  <2> QED
    BY <1>0, <1>1, <2>1, <2>3, <2>4, PlainTargetInv, VardiffTargetInv
<1>2. CASE UpstreamAnswers
  <2>1. PICK t \in Target : t <= Head(updates).target /\ HandleSetTarget(Head(updates).channel, t)
    BY <1>2 DEF UpstreamAnswers
  <2>2. /\ updates # <<>> /\ updates' = Tail(updates) /\ targets' = targets
        /\ overlapped' = overlapped
    BY <1>2 DEF UpstreamAnswers
  <2>3. Answers(Head(updates).channel, t)
    BY <2>1, <2>2 DEF Answers
  <2>4. /\ Tail(updates) \in Seq(U)
        /\ \A i \in DOMAIN Tail(updates) : i + 1 \in DOMAIN updates /\ Tail(updates)[i] = updates[i + 1]
    <3> HIDE DEF U
    <3> QED
      BY <1>0, <2>2
  <2> QED
    BY <1>0, <1>1, <2>1, <2>2, <2>3, <2>4 DEF TargetTypes, Server
<1>3. CASE UpstreamRetargets
  <2>1. PICK c \in Served, t \in Target : HandleSetTarget(c, t)
    BY <1>3 DEF UpstreamRetargets
  <2>2. /\ updates' = updates /\ targets' = targets + 1 /\ targets < MaxTargets
        /\ overlapped' = (overlapped \/ updates # <<>>)
    BY <1>3 DEF UpstreamRetargets, TargetEvent
  <2>3. Answers(c, t)
    BY <2>2 DEF Answers
  <2>4. targets' \in 0..MaxTargets
    BY <1>0, <2>2, Bounds DEF TargetTypes
  <2> QED
    BY <1>0, <1>1, <2>1, <2>2, <2>3, <2>4 DEF Server
<1> QED
  BY <1>2, <1>3

-----------------------------------------------------------------------------
(* The invariant holds. *)

LEMMA InitInv ==
  ASSUME Init
  PROVE  IInv
<1>1. /\ NewData \in DownstreamData /\ NewData.channel_id = None /\ ~NewData.handshake
      /\ NewData.cached_difficulty = None /\ NewData.pending = None /\ NewData.target = FirstTarget
      /\ NewData.cached_notify = None
  <2>1. <<>> \in Seq({"subscribe", "authorize"})
    OBVIOUS
  <2> QED
    BY <2>1, Bounds DEF NewData, DownstreamData
<1>2. TypeOK
  <2>1. MinerTypes
    <3>1. <<>> \in Seq(Message) /\ Nothing \in Holding /\ 0 \in 0..Len(Handshake)
      BY Bounds DEF Nothing, Holding, Handshake
    <3> QED
      BY <1>1, <3>1 DEF Init, MinerTypes
  <2>2. ServerTypes
    BY Bounds DEF Init, ServerTypes, IdleServer
  <2>3. JobTypes /\ TargetTypes
    <3>1. <<>> \in Seq(Target) /\ <<>> \in Seq([channel : Channel, target : Target])
      OBVIOUS
    <3>2. JobTypes
      BY Bounds DEF Init, JobTypes
    <3>3. TargetTypes
      BY <3>1, Bounds DEF Init, TargetTypes
    <3> QED
      BY <3>2, <3>3
  <2>4. Owners
    BY <1>1 DEF Init, Owners
  <2> QED
    BY <2>1, <2>2, <2>3, <2>4, TypesInParts
<1>3. Handshakes /\ Server
  BY DEF Init, Handshakes, Server, IdleServer
<1>4. JobLists
  BY Bounds DEF Init, JobLists
<1>5. ASSUME NEW m \in Miner PROVE SoundMiner(m)
  <2>1. SetupChannel = All
    BY DEF Init, SetupChannel, IdleServer
  <2>2. /\ data[m] = NewData /\ has[m] = Nothing /\ inbox[m] = <<>> /\ waiting[m] = <<>>
        /\ conn[m] = "connected"
    BY DEF Init
  <2>3. mode.aggregated \in BOOLEAN /\ All \in Channel
    BY ModesAssumption, Bounds DEF Init
  <2>4. mode.aggregated => ValidJobs(m) = {}
    BY <2>3 DEF Init, ValidJobs, Aggregated
  <2>5. Untold(NewData, Nothing, <<>>) /\ Preceded(NewData, Nothing)
    BY <1>1 DEF Untold, Preceded, Nothing
  <2>6. <<>> \in Seq(Sendable(SentUpTo(opened, All), mode.aggregated))
    OBVIOUS
  <2> QED
    BY <1>1, <2>1, <2>2, <2>4, <2>5, <2>6 DEF SoundMiner, Sound
<1> QED
  BY <1>2, <1>3, <1>4, <1>5 DEF IInv

LEMMA NextInv ==
  ASSUME IInv, [Next]_vars
  PROVE  IInv'
<1>1. CASE UNCHANGED vars
  <2>1. /\ TypeOK' /\ Handshakes' /\ Server' /\ JobLists' /\ SetupChannel' = SetupChannel
    BY <1>1, HandshakesKept, ServerKept, JobListsKept
       DEF IInv, TypeOK, vars, minerVars, serverVars, jobVars, targetVars, SetupChannel
  <2>2. \A m \in Miner : SoundMiner(m)'
    BY <1>1, <2>1, MinerKept DEF IInv, vars, minerVars, serverVars, jobVars, targetVars
  <2> QED
    BY <2>1, <2>2 DEF IInv
<1>2. ASSUME NEW m \in Miner, HandleHandshakeMessage(m) PROVE IInv'
  BY <1>2, HandshakeInv
<1>3. ASSUME \/ \E m \in Miner : AskForChannel(m) \/ QueueMessage(m) \/ HandleSubmit(m)
             \/ HandleOpenChannelRequest \/ HandleSubmitShares
      PROVE  IInv'
  BY <1>3, RequestsInv
<1>4. ASSUME NEW m \in Miner, HandleServerMessage(m) PROVE IInv'
  BY <1>4, DeliveryInv
<1>5. ASSUME NEW m \in Miner, MinerLeaves(m) PROVE IInv'
  BY <1>5, LeavesInv
<1>6. ASSUME NEW m \in Miner, RemoveDownstream(m) PROVE IInv'
  BY <1>6, RemovedInv
<1>7. ASSUME NEW c \in Channel, HandleSetNewPrevHash(c) PROVE IInv'
  BY <1>7, PrevHashInv
<1>8. ASSUME NEW c \in Channel, HandleNewExtendedMiningJob(c) PROVE IInv'
  BY <1>8, JobInv
<1> QED
  BY <1>1, <1>2, <1>3, <1>4, <1>5, <1>6, <1>7, <1>8, OpenInv, DrainInv, VardiffInv, UpstreamInv
     DEF Next

\* The inductive invariant of the SV1 side.
THEOREM Invariance == Spec => []IInv
<1>1. Init => IInv
  BY InitInv
<1>2. IInv /\ [Next]_vars => IInv'
  BY NextInv
<1> QED
  BY <1>1, <1>2, PTL DEF Spec

-----------------------------------------------------------------------------
(* What it says of the miners. *)

\* Types: a set_difficulty names a channel, and a channel is that of the miner it was
\* opened for.
THEOREM ServerTypesHold == Spec => []TypeOK
<1>1. IInv => TypeOK
  BY DEF IInv
<1> QED
  BY <1>1, Invariance, PTL

LEMMA SettledMiner ==
  ASSUME IInv, NEW m \in Miner, Settled(m)
  PROVE  /\ conn[m] = "connected" /\ inbox[m] = <<>> /\ data[m].channel_id \notin {None, SetupChannel}
         /\ data[m].cached_notify = None
         /\ Reopened(m) <=> Twice(opened, m)
<1>1. SetupChannel = All /\ SoundMiner(m) /\ data[m] \in DownstreamData
  BY Facts DEF Settled, SetupChannel, IInv
<1>2. data[m].channel_id # None /\ data[m].cached_notify = None
  BY <1>1 DEF SoundMiner, Sound, Settled
<1>3. data[m].channel_id # All
  BY <1>1, <1>2, Bounds DEF DownstreamData
<1> QED
  BY <1>1, <1>2, <1>3 DEF Settled, Reopened, Twice

\* A miner and the translator agree on the difficulty of a share whenever no change is
\* on its way and no two changes have overlapped.
THEOREM DifficultiesAgree == Spec => []DifficultyAgrees
<1>1. IInv => DifficultyAgrees
  <2> SUFFICES ASSUME IInv, NEW m \in Miner, Settled(m), ~overlapped, ~Reopened(m),
                      data[m].cached_difficulty = None, data[m].pending = None,
                      waiting[m] = <<>>
               PROVE  has[m].difficulty = data[m].target
    BY DEF DifficultyAgrees
  <2>1. /\ conn[m] = "connected" /\ inbox[m] = <<>> /\ ~Twice(opened, m)
        /\ data[m].channel_id \notin {None, SetupChannel}
    BY SettledMiner
  <2>2. SoundMiner(m)
    BY DEF IInv
  <2>3. InStep(mode, data[m], has[m], <<>>, <<>>, updates)
    BY <2>1, <2>2 DEF SoundMiner, Sound
  <2>4. DifficultySent(data[m], has[m]) = Wants(data[m])
    BY <2>3 DEF InStep, Latest
  <2> QED
    BY <2>4 DEF DifficultySent, Wants
<1> QED
  BY <1>1, Invariance, PTL

\* With a channel of its own, no miner has a job before its difficulty.
THEOREM NotifiesAfterDifficulty == Spec => []NotifyAfterDifficulty
<1>1. IInv => NotifyAfterDifficulty
  <2> SUFFICES ASSUME IInv, NEW m \in Miner, ~Aggregated, has[m].job # 0
               PROVE  has[m].difficulty # 0
    BY DEF NotifyAfterDifficulty
  <2>1. SoundMiner(m)
    BY DEF IInv
  <2>2. CASE conn[m] = "connected"
    BY <2>1, <2>2 DEF SoundMiner, Sound, Preceded, Aggregated
  <2>3. CASE conn[m] # "connected"
    BY <2>1, <2>3 DEF SoundMiner, Sound, Nothing
  <2> QED
    BY <2>2, <2>3
<1> QED
  BY <1>1, Invariance, PTL

\* A miner with nothing on its way works on the newest job its shares are validated against.
THEOREM WorkStaysCurrent == Spec => []WorkIsCurrent
<1>1. IInv => WorkIsCurrent
  <2> SUFFICES ASSUME IInv, NEW m \in Miner, Settled(m), ~Reopened(m), ValidJobs(m) # {}
               PROVE  has[m].job \in ValidJobs(m) /\ \A j \in ValidJobs(m) : j <= has[m].job
    BY DEF WorkIsCurrent
  <2>1. /\ conn[m] = "connected" /\ inbox[m] = <<>> /\ ~Twice(opened, m)
        /\ data[m].channel_id # None /\ data[m].cached_notify = None
    BY SettledMiner
  <2>2. SoundMiner(m)
    BY DEF IInv
  <2>3. Current(ValidJobs(m), data[m], has[m], <<>>)
    BY <2>1, <2>2 DEF SoundMiner, Sound
  <2>4. JobSent(data[m], has[m]) \in ValidJobs(m)
        /\ \A j \in ValidJobs(m) : j <= JobSent(data[m], has[m])
    BY <2>3 DEF Current, Latest
  <2> QED
    BY <2>1, <2>4 DEF JobSent
<1> QED
  BY <1>1, Invariance, PTL

=============================================================================
