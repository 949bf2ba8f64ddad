--------------------------- MODULE JdServerProofs ---------------------------
(***************************************************************************)
(* Proofs about JdServer, for any number of clients, jobs and transactions.*)
(***************************************************************************)
EXTENDS JdServer, FiniteSetTheorems, TLAPS

\* What ties a declared job to what the client answered about it and to what it
\* was told: recognized positions stand for their transaction, and the missing ones
\* for what was given if the job was acknowledged, for nothing if it was not.
JobState(c) ==
  LET job == declared[c] IN
  /\ DOMAIN job.filled = DOMAIN job.txs
  /\ job.missing \subseteq DOMAIN job.txs
  /\ \A p \in DOMAIN job.txs \ job.missing : job.filled[p] = job.txs[p]
  /\ job.id \in acknowledged[c] =>
       \A p \in job.missing :
         /\ answer[c] # None
         /\ job.filled[p] = answer[c][Slot(job.missing, p)] /\ job.filled[p] \in Tx
  /\ job.id \notin acknowledged[c] =>
       job.missing # {} /\ \A p \in job.missing : job.filled[p] = None

Conversation(c) ==
  /\ \A id \in acknowledged[c] : id <= jobs[c]
  /\ declared[c].id <= jobs[c]
  /\ declared[c].id # NoJob => JobState(c)

IInv ==
  /\ TypeOK
  /\ \A c \in Client : Conversation(c)
  /\ BlocksWereAcknowledged

-----------------------------------------------------------------------------
(* Types. *)

\* Adders are named by their client, job and kind.
LEMMA AdderNames ==
  /\ \A c \in Client : Retrieval(c) \in Adder
  /\ \A c \in Client, id \in JobId, kind \in {"known", "unknown"} : <<c, id, kind>> \in Adder
BY DEF Retrieval, Adder

\* No job has the id that stands for none.
LEMMA JobIds == MaxJobs \in Nat /\ NoJob \notin JobId /\ JobId \subseteq Nat /\ NoJob \in Nat
BY BoundsAssumption DEF NoJob, JobId

\* Setting one adder keeps the type of all of them.
LEMMA AddingType ==
  ASSUME TypeOK, NEW a \in Adder, NEW left \in SUBSET ((1..MaxTxs) \X Tx)
  PROVE  [adding EXCEPT ![a] = [left |-> left, fetching |-> None]] \in [Adder -> Call]
BY DEF TypeOK, Call

\* A list has as many elements as its domain, which lies in 1..MaxTxs.
LEMMA ListType ==
  ASSUME NEW S, NEW list \in Lists(S)
  PROVE  /\ DOMAIN list \subseteq 1..MaxTxs /\ IsFiniteSet(DOMAIN list)
         /\ \A p \in DOMAIN list : list[p] \in S
<1>1. PICK n \in 0..MaxTxs : list \in [1..n -> S]
  BY DEF Lists
<1>2. DOMAIN list = 1..n /\ IsFiniteSet(1..n)
  BY <1>1, FS_Interval
<1> QED
  BY <1>1, <1>2, BoundsAssumption

\* A list has another one's length.
LEMMA SameLength ==
  ASSUME NEW S, NEW T, NEW list \in Lists(S), NEW other,
         other = [p \in DOMAIN list |-> other[p]], \A p \in DOMAIN list : other[p] \in T
  PROVE  other \in Lists(T)
<1>1. PICK n \in 0..MaxTxs : list \in [1..n -> S]
  BY DEF Lists
<1>2. other \in [1..n -> T]
  BY <1>1
<1> QED
  BY <1>2 DEF Lists

\* The call for some positions of a list, when a transaction stands at each.
LEMMA CallType ==
  ASSUME TypeOK, NEW a \in Adder, NEW S, NEW list \in Lists(S),
         NEW positions \in SUBSET DOMAIN list, \A p \in positions : list[p] \in Tx
  PROVE  [adding EXCEPT ![a] = Adding(list, positions)] \in [Adder -> Call]
<1>1. {<<p, list[p]>> : p \in positions} \in SUBSET ((1..MaxTxs) \X Tx)
  BY ListType
<1> QED
  BY <1>1, AddingType DEF Adding

\* Each missing position has its place in an answer of the right length.
LEMMA SlotType ==
  ASSUME NEW missing \in SUBSET (1..MaxTxs), NEW p \in missing
  PROVE  Slot(missing, p) \in 1..Cardinality(missing)
<1> DEFINE below == {q \in missing : q <= p}
<1>1. IsFiniteSet(1..MaxTxs)
  BY BoundsAssumption, FS_Interval
<1>2. IsFiniteSet(missing)
  BY <1>1, FS_Subset
<1>3. /\ IsFiniteSet(below) /\ Cardinality(below) \in Nat
      /\ Cardinality(below) <= Cardinality(missing) /\ Cardinality(missing) \in Nat
  BY <1>2, FS_Subset, FS_CardinalityType
<1>4. p \in below
  BY BoundsAssumption
<1>5. Cardinality(below) # 0
  BY <1>3, <1>4, FS_EmptySet
<1> QED
  BY <1>3, <1>5 DEF Slot

\* How often a list names a transaction is a number, and not none if it is listed.
LEMMA TimesType ==
  ASSUME NEW S, NEW list \in Lists(S), NEW t
  PROVE  Times(list, t) \in Nat
<1>1. IsFiniteSet(DOMAIN list)
  BY ListType
<1>2. IsFiniteSet({p \in DOMAIN list : list[p] = t})
  BY <1>1, FS_Subset
<1> QED
  BY <1>2, FS_CardinalityType DEF Times

\* Bringing a transaction in keeps the mempool's type.
LEMMA CountedType ==
  ASSUME TypeOK, NEW t \in Tx, Counted(t)
  PROVE  mempool' \in [Tx -> (Nat \ {0}) \cup {Absent, Thin}]
<1>1. (IF Fat(t) THEN mempool[t] + 1 ELSE 1) \in (Nat \ {0}) \cup {Absent, Thin}
  BY DEF TypeOK, Fat, Absent, Thin
<1> QED
  BY <1>1 DEF TypeOK, Counted

\* So does releasing a job's transactions.
LEMMA ClearType ==
  ASSUME TypeOK, NEW old \in Job, NEW txs \in Lists(Tx)
  PROVE  ClearDeclaredMiningJob(old, txs) \in [Tx -> (Nat \ {0}) \cup {Absent, Thin}]
<1>1. ASSUME NEW t \in Tx, Fat(t)
      PROVE  (IF mempool[t] > Times(old.txs, t) THEN mempool[t] - Times(old.txs, t) ELSE Absent)
               \in (Nat \ {0}) \cup {Absent, Thin}
  <2>1. Times(old.txs, t) \in Nat
    BY TimesType DEF Job
  <2> QED
    BY <1>1, <2>1 DEF TypeOK, Fat, Absent, Thin
<1>2. \A t \in Tx : mempool[t] \in (Nat \ {0}) \cup {Absent, Thin}
  BY DEF TypeOK
<1> QED
  BY <1>1, <1>2 DEF ClearDeclaredMiningJob

\* A step that leaves the clients' conversations alone.
LEMMA SameConversations ==
  ASSUME IInv, UNCHANGED clientVars
  PROVE  \A c \in Client : Conversation(c)'
BY DEF IInv, Conversation, JobState, clientVars

\* A step of d changes no other conversation.
LEMMA OtherConversations ==
  ASSUME IInv, NEW d \in Client,
         \A c \in Client \ {d} :
           /\ jobs'[c] = jobs[c] /\ declared'[c] = declared[c]
           /\ answer'[c] = answer[c] /\ acknowledged'[c] = acknowledged[c],
         Conversation(d)'
  PROVE  \A c \in Client : Conversation(c)'
<1> SUFFICES ASSUME NEW c \in Client PROVE Conversation(c)'
  OBVIOUS
<1>1. CASE c = d
  BY <1>1
<1>2. CASE c # d
  BY <1>2 DEF IInv, Conversation, JobState
<1> QED
  BY <1>1, <1>2

\* Blocks stay acknowledged while nothing is taken back.
LEMMA SameBlocks ==
  ASSUME IInv, UNCHANGED blocks, \A c \in Client : acknowledged[c] \subseteq acknowledged'[c]
  PROVE  BlocksWereAcknowledged'
<1>1. \A b \in blocks : b.client \in Client
  BY DEF IInv, TypeOK, Block
<1> QED
  BY <1>1 DEF IInv, BlocksWereAcknowledged

\* A block that is sent is one of an acknowledged job.
LEMMA SentBlock ==
  ASSUME IInv, NEW c \in Client, CollectTxsInJob(c), declared[c].id # NoJob, SendBlock(c),
         UNCHANGED acknowledged
  PROVE  BlocksWereAcknowledged' /\ blocks' \subseteq Block
<1>1. declared[c] \in Job
  BY DEF IInv, TypeOK
<1>2. declared[c].id \in acknowledged[c] /\ None \notin Listed(declared[c].filled)
  BY DEF IInv, Conversation, JobState, CollectTxsInJob, Filled, Listed
<1>3. [client |-> c, id |-> declared[c].id, txs |-> declared[c].filled] \in Block
  BY <1>1 DEF Job, Block
<1>4. blocks \subseteq Block
  BY DEF IInv, TypeOK
<1> QED
  BY <1>2, <1>3, <1>4 DEF IInv, BlocksWereAcknowledged, SendBlock

-----------------------------------------------------------------------------
\* The invariant holds when the server starts.
THEOREM InitInv == Init => IInv
<1> SUFFICES ASSUME Init PROVE IInv
  OBVIOUS
<1> USE JobIds
<1>1. TypeOK
  <2>1. \A S : <<>> \in Lists(S)
    <3> SUFFICES ASSUME NEW S PROVE <<>> \in Lists(S)
      OBVIOUS
    <3>1. 0 \in 0..MaxTxs /\ <<>> \in [1..0 -> S]
      BY BoundsAssumption
    <3> QED
      BY <3>1 DEF Lists
  <2>2. NothingDeclared \in Job
    BY <2>1 DEF NothingDeclared, Job
  <2>3. Idle \in Call
    BY DEF Idle, Call
  <2>4. 0 \in 0..MaxTokens /\ 0 \in 0..MaxJobs
    BY BoundsAssumption
  <2> QED
    BY <2>2, <2>3, <2>4 DEF Init, TypeOK
<1>2. \A c \in Client : Conversation(c)
  <2> SUFFICES ASSUME NEW c \in Client PROVE Conversation(c)
    OBVIOUS
  <2>1. jobs[c] = 0 /\ declared[c].id = NoJob /\ acknowledged[c] = {}
    BY DEF Init, NothingDeclared
  <2> QED
    BY <2>1 DEF Conversation, NoJob
<1>3. BlocksWereAcknowledged
  BY DEF Init, BlocksWereAcknowledged
<1> QED
  BY <1>1, <1>2, <1>3 DEF IInv

-----------------------------------------------------------------------------
(* The two messages about jobs. *)

\* Declaring a job keeps the invariant.
LEMMA DeclareInv ==
  ASSUME IInv, NEW d \in Client, NEW token, NEW txs \in Lists(Tx),
         DeclareMiningJob(d, token, txs)
  PROVE  IInv'
<1> USE JobIds
<1> DEFINE id == jobs[d] + 1
           cleared == ClearDeclaredMiningJob(declared[d], txs)
           missing == {p \in DOMAIN txs : cleared[txs[p]] = Absent}
           filled == [p \in DOMAIN txs |-> IF p \in missing THEN None ELSE txs[p]]
           new == [id |-> id, txs |-> txs, filled |-> filled, missing |-> missing]
<1>0. /\ TypeOK /\ jobs[d] \in Nat /\ id \in JobId /\ id > jobs[d] /\ declared[d] \in Job
      /\ Conversation(d) /\ acknowledged[d] \subseteq JobId
  BY DEF IInv, TypeOK, DeclareMiningJob
<1>1. /\ jobs' = [jobs EXCEPT ![d] = id] /\ mempool' = cleared
      /\ answer' = [answer EXCEPT ![d] = None]
      /\ UNCHANGED <<serverVars, tokens, blocks>>
      /\ phase' \in {phase, [phase EXCEPT ![d] = "closed"]}
  BY DEF DeclareMiningJob, Closes
<1>2. /\ jobs' \in [Client -> 0..MaxJobs] /\ jobs'[d] = id
      /\ answer' \in [Client -> Lists(Tx) \cup {None}] /\ answer'[d] = None
      /\ phase' \in [Client -> {"absent", "setup", "open", "pushing", "closed"}]
  BY <1>0, <1>1 DEF TypeOK, JobId
<1>3. mempool' \in [Tx -> (Nat \ {0}) \cup {Absent, Thin}]
  BY <1>0, <1>1, ClearType
<1>4. id <= id /\ id # NoJob /\ NoJob <= id /\ \A i \in acknowledged[d] : i <= id /\ i # id
  <2>1. \A i \in acknowledged[d] : i \in Nat /\ i <= jobs[d]
    BY <1>0 DEF Conversation, JobId
  <2> QED
    BY <1>0, <2>1 DEF NoJob
<1>5. /\ DOMAIN txs \subseteq 1..MaxTxs /\ \A p \in DOMAIN txs : txs[p] \in Tx
      /\ missing \subseteq DOMAIN txs /\ DOMAIN filled = DOMAIN txs
      /\ \A p \in missing : filled[p] = None
      /\ \A p \in DOMAIN txs \ missing : filled[p] = txs[p]
  BY ListType
<1>6. new \in Job
  <2>1. filled \in Lists(Tx \cup {None})
    BY <1>5, SameLength
  <2> HIDE DEF missing, filled, id
  <2> QED
    BY <1>0, <1>5, <2>1 DEF Job
<1>7. /\ new.id = id /\ new.txs = txs /\ new.filled = filled /\ new.missing = missing
  OBVIOUS
<1>8. CASE /\ declared' = [declared EXCEPT ![d] = new]
           /\ adding' = [adding EXCEPT ![<<d, id, "known">>] = Adding(txs, DOMAIN txs \ missing)]
           /\ acknowledged' = [acknowledged EXCEPT ![d] = IF missing = {} THEN @ \cup {id} ELSE @]
  <2> HIDE DEF id, cleared, missing, filled, new
  <2>1. declared' \in [Client -> Job] /\ declared'[d] = new
    BY <1>0, <1>6, <1>8 DEF TypeOK
  <2>2. adding' \in [Adder -> Call]
    <3>1. <<d, id, "known">> \in Adder
      BY <1>0, AdderNames
    <3> QED
      BY <1>0, <1>5, <1>8, <3>1, CallType
  <2>3. /\ acknowledged' \in [Client -> SUBSET JobId]
        /\ acknowledged'[d] = IF missing = {} THEN acknowledged[d] \cup {id} ELSE acknowledged[d]
        /\ \A c \in Client : acknowledged[c] \subseteq acknowledged'[c]
    BY <1>0, <1>8 DEF TypeOK
  <2>4. TypeOK'
    BY <1>0, <1>1, <1>2, <1>3, <2>1, <2>2, <2>3 DEF TypeOK, serverVars
  <2>5. JobState(d)'
    <3>1. id \in acknowledged'[d] <=> missing = {}
      BY <1>4, <2>3
    <3> QED
      BY <1>5, <1>7, <2>1, <3>1 DEF JobState
  <2>6. Conversation(d)'
    BY <1>2, <1>4, <1>7, <2>1, <2>3, <2>5 DEF Conversation
  <2> QED
    BY <1>0, <1>1, <1>8, <2>3, <2>4, <2>6, OtherConversations, SameBlocks DEF IInv, TypeOK
<1>9. CASE declared' = [declared EXCEPT ![d].id = NoJob] /\ UNCHANGED <<adding, acknowledged>>
  <2> HIDE DEF id, cleared, missing, filled, new
  <2>1. declared' \in [Client -> Job] /\ declared'[d].id = NoJob
    BY <1>0, <1>9 DEF TypeOK, Job
  <2>2. TypeOK'
    BY <1>0, <1>1, <1>2, <1>3, <1>9, <2>1 DEF TypeOK, serverVars
  <2>3. Conversation(d)'
    BY <1>2, <1>4, <1>9, <2>1 DEF Conversation
  <2> QED
    BY <1>0, <1>1, <1>9, <2>2, <2>3, OtherConversations, SameBlocks DEF IInv, TypeOK
<1> QED
  BY <1>8, <1>9 DEF DeclareMiningJob

\* Answering keeps the invariant, whatever is given and however old the id is.
LEMMA ProvideInv ==
  ASSUME IInv, NEW d \in Client, NEW id \in JobId, NEW given \in Lists(Tx),
         ProvideMissingTransactionsSuccess(d, id, given)
  PROVE  IInv'
<1> USE JobIds
<1> DEFINE job == declared[d]
           filled == [p \in DOMAIN job.filled |->
                        IF p \in job.missing THEN given[Slot(job.missing, p)] ELSE job.filled[p]]
<1>0. /\ TypeOK /\ job \in Job /\ Conversation(d) /\ jobs[d] \in Nat
      /\ acknowledged[d] \subseteq JobId /\ id <= jobs[d]
  BY DEF IInv, TypeOK, ProvideMissingTransactionsSuccess
<1>1. /\ answer' = IF id = job.id THEN [answer EXCEPT ![d] = given] ELSE answer
      /\ id = job.id => answer[d] = None
      /\ UNCHANGED <<serverVars, tokens, jobs, mempool, blocks>>
  BY DEF ProvideMissingTransactionsSuccess
<1>2. /\ answer' \in [Client -> Lists(Tx) \cup {None}]
      /\ answer'[d] = IF id = job.id THEN given ELSE answer[d]
      /\ \A c \in Client \ {d} : answer'[c] = answer[c]
  BY <1>0, <1>1 DEF TypeOK
<1>3. CASE /\ AnswersDeclared(d, id) /\ DOMAIN given = 1..Cardinality(job.missing)
           /\ declared' = [declared EXCEPT ![d].filled = filled]
           /\ adding' = [adding EXCEPT ![<<d, job.id, "unknown">>] = Adding(given, DOMAIN given)]
           /\ acknowledged' = [acknowledged EXCEPT ![d] = @ \cup {id}]
           /\ UNCHANGED phase
  <2>1. job.id = id /\ id # NoJob /\ answer'[d] = given /\ JobState(d)
    BY <1>0, <1>2, <1>3 DEF AnswersDeclared, Conversation
  <2>2. given # None /\ given \in Lists(Tx)
    BY NoneAssumption
  <2>3. /\ job.missing \subseteq 1..MaxTxs /\ DOMAIN job.filled = DOMAIN job.txs
        /\ job.filled \in Lists(Tx \cup {None}) /\ job.txs \in Lists(Tx)
        /\ job.missing \subseteq DOMAIN job.filled
    BY <1>0, <2>1 DEF Job, JobState
  <2>4. \A p \in job.missing : Slot(job.missing, p) \in DOMAIN given
    BY <1>3, <2>3, SlotType
  <2>5. \A p \in job.missing : given[Slot(job.missing, p)] \in Tx
    BY <2>4, ListType
  <2>6. /\ DOMAIN filled = DOMAIN job.filled
        /\ \A p \in job.missing : filled[p] = given[Slot(job.missing, p)]
        /\ \A p \in DOMAIN job.filled \ job.missing : filled[p] = job.filled[p]
    BY <2>3
  <2>7. \A p \in DOMAIN job.filled : filled[p] \in Tx \cup {None}
    BY <2>3, <2>5, <2>6, ListType
  <2>8. filled \in Lists(Tx \cup {None})
    <3>1. filled = [p \in DOMAIN job.filled |-> filled[p]]
      OBVIOUS
    <3> HIDE DEF filled, job
    <3> QED
      BY <2>3, <2>7, <3>1, SameLength
  <2> HIDE DEF filled
  <2>9. /\ declared' \in [Client -> Job]
        /\ declared'[d].id = id /\ declared'[d].txs = job.txs
        /\ declared'[d].filled = filled /\ declared'[d].missing = job.missing
    BY <1>0, <1>3, <2>1, <2>8 DEF TypeOK, Job
  <2>10. adding' \in [Adder -> Call]
    <3>1. <<d, job.id, "unknown">> \in Adder
      BY <2>1, AdderNames
    <3>2. \A p \in DOMAIN given : given[p] \in Tx
      BY ListType
    <3> QED
      BY <1>0, <1>3, <3>1, <3>2, CallType
  <2>11. /\ acknowledged' \in [Client -> SUBSET JobId]
         /\ acknowledged'[d] = acknowledged[d] \cup {id}
         /\ \A c \in Client : acknowledged[c] \subseteq acknowledged'[c]
    BY <1>0, <1>3 DEF TypeOK
  <2>12. TypeOK'
    BY <1>0, <1>1, <1>2, <1>3, <2>9, <2>10, <2>11 DEF TypeOK, serverVars
  <2>13. JobState(d)'
    <3>1. id \in acknowledged'[d]
      BY <2>11
    <3>2. \A p \in DOMAIN job.txs \ job.missing : filled[p] = job.txs[p]
      BY <2>1, <2>3, <2>6 DEF JobState
    <3> QED
      BY <2>1, <2>2, <2>3, <2>5, <2>6, <2>9, <3>1, <3>2 DEF JobState
  <2>14. Conversation(d)'
    BY <1>0, <1>1, <2>9, <2>11, <2>13 DEF Conversation
  <2> QED
    BY <1>0, <1>1, <1>2, <1>3, <2>11, <2>12, <2>14, OtherConversations, SameBlocks
    DEF IInv, TypeOK
<1>4. CASE /\ UNCHANGED <<declared, adding, acknowledged>>
           /\ phase' \in {phase, [phase EXCEPT ![d] = "closed"]}
  <2>1. phase' \in [Client -> {"absent", "setup", "open", "pushing", "closed"}]
    BY <1>0, <1>4 DEF TypeOK
  <2>2. TypeOK'
    BY <1>0, <1>1, <1>2, <1>4, <2>1 DEF TypeOK, serverVars
  \* An answer that is not taken says nothing of a job whose missing positions were
  \* filled: those had their answer.
  <2>3. job.id # NoJob => JobState(d)'
    <3> SUFFICES ASSUME job.id # NoJob PROVE JobState(d)'
      OBVIOUS
    <3>1. JobState(d)
      BY <1>0 DEF Conversation
    <3>2. job.id \in acknowledged[d] /\ job.missing # {} => answer'[d] = answer[d]
      BY <1>1, <1>2, <3>1 DEF JobState
    <3> QED
      BY <1>4, <3>1, <3>2 DEF JobState
  <2>4. Conversation(d)'
    BY <1>0, <1>1, <1>4, <2>3 DEF Conversation
  <2> QED
    BY <1>0, <1>1, <1>2, <1>4, <2>2, <2>4, OtherConversations, SameBlocks DEF IInv, TypeOK
<1> QED
  BY <1>3, <1>4 DEF ProvideMissingTransactionsSuccess, Closes

-----------------------------------------------------------------------------
\* Every step of a client, of an adder and of the server keeps the invariant.
THEOREM NextInv == IInv /\ [Next]_vars => IInv'
<1> SUFFICES ASSUME IInv, [Next]_vars PROVE IInv'
  OBVIOUS
<1>0. TypeOK
  BY DEF IInv
<1>1. ASSUME NEW c \in Client,
             Accept(c) \/ SetupConnection(c) \/ Disconnect(c)
      PROVE  IInv'
  <2>1. /\ UNCHANGED <<running, clientVars, mempool, adding, blocks>>
        /\ listener' \in {"accept", "waiting", "panicked"}
        /\ \E state \in {"setup", "open", "closed"} : phase' = [phase EXCEPT ![c] = state]
    BY <1>0, <1>1 DEF Accept, SetupConnection, Disconnect, Closes, serverVars, TypeOK
  <2>2. phase' \in [Client -> {"absent", "setup", "open", "pushing", "closed"}]
    BY <1>0, <2>1 DEF TypeOK
  <2>3. TypeOK'
    BY <1>0, <2>1, <2>2 DEF TypeOK, clientVars
  <2> QED
    BY <2>1, <2>3, SameConversations, SameBlocks DEF IInv, clientVars
<1>2. ASSUME NEW c \in Client, AllocateMiningJobToken(c) PROVE IInv'
  <2>1. /\ tokens' = [tokens EXCEPT ![c] = @ + 1] /\ tokens[c] < MaxTokens
        /\ UNCHANGED <<serverVars, phase, jobs, declared, answer, acknowledged, mempool,
                       adding, blocks>>
    BY <1>2 DEF AllocateMiningJobToken
  <2>2. tokens' \in [Client -> 0..MaxTokens]
    BY <1>0, <2>1, BoundsAssumption DEF TypeOK
  <2>3. TypeOK'
    BY <1>0, <2>1, <2>2 DEF TypeOK, serverVars
  <2>4. \A d \in Client : Conversation(d)'
    BY <2>1 DEF IInv, Conversation, JobState
  <2> QED
    BY <2>1, <2>3, <2>4, SameBlocks DEF IInv
<1>3. ASSUME NEW c \in Client, NEW token, NEW txs \in Lists(Tx), DeclareMiningJob(c, token, txs)
      PROVE  IInv'
  BY <1>3, DeclareInv
<1>4. ASSUME NEW c \in Client, NEW id \in JobId, NEW given \in Lists(Tx),
             ProvideMissingTransactionsSuccess(c, id, given)
      PROVE  IInv'
  BY <1>4, ProvideInv
<1>5. ASSUME NEW c \in Client, PushSolution(c) \/ Retrieved(c) \/ RetrievalTimeout(c)
      PROVE  IInv'
  <2>1. UNCHANGED <<serverVars, clientVars, mempool>>
    BY <1>5 DEF PushSolution, Retrieved, RetrievalTimeout
  <2>2. phase' \in [Client -> {"absent", "setup", "open", "pushing", "closed"}]
    BY <1>0, <1>5 DEF TypeOK, PushSolution, Retrieved, RetrievalTimeout, Closes
  <2>3. adding' \in [Adder -> Call]
    <3>1. Retrieval(c) \in Adder
      BY AdderNames
    <3>2. [adding EXCEPT ![Retrieval(c)] = Adding(declared[c].filled, Filled(c))] \in [Adder -> Call]
      <4>1. declared[c].filled \in Lists(Tx \cup {None})
        BY <1>0 DEF TypeOK, Job
      <4>2. /\ Filled(c) \in SUBSET DOMAIN declared[c].filled
            /\ \A p \in Filled(c) : declared[c].filled[p] \in Tx
        BY <4>1, ListType DEF Filled
      <4> QED
        BY <1>0, <3>1, <4>1, <4>2, CallType
    <3>3. [adding EXCEPT ![Retrieval(c)] = Idle] \in [Adder -> Call]
      BY <1>0, <3>1, AddingType DEF Idle
    <3>4. adding \in [Adder -> Call]
      BY <1>0 DEF TypeOK
    <3> QED
      BY <1>5, <3>2, <3>3, <3>4 DEF PushSolution, Retrieved, RetrievalTimeout
  <2>4. blocks' \subseteq Block /\ BlocksWereAcknowledged'
    <3>1. UNCHANGED acknowledged
      BY <2>1 DEF clientVars
    <3>2. CASE UNCHANGED blocks
      BY <1>0, <3>1, <3>2, SameBlocks DEF TypeOK
    <3>3. CASE CollectTxsInJob(c) /\ declared[c].id # NoJob /\ SendBlock(c)
      BY <3>1, <3>3, SentBlock
    <3> QED
      BY <1>5, <3>2, <3>3 DEF PushSolution, Retrieved, RetrievalTimeout
  <2>5. TypeOK'
    BY <1>0, <2>1, <2>2, <2>3, <2>4 DEF TypeOK, serverVars, clientVars
  <2> QED
    BY <2>1, <2>4, <2>5, SameConversations DEF IInv
<1>6. ASSUME NEW a \in Adder, AdderStep(a) PROVE IInv'
  <2>1. UNCHANGED <<serverVars, phase, clientVars, blocks>>
    BY <1>6 DEF AdderStep, Look, AddUnknown, Fetched, FetchFails
  <2>2. adding[a] \in Call
    BY <1>0, <1>6 DEF TypeOK
  <2> DEFINE AddingAndMempool ==
        /\ adding' \in [Adder -> Call]
        /\ mempool' \in [Tx -> (Nat \ {0}) \cup {Absent, Thin}]
  <2>3. AddingAndMempool
    <3>1. ASSUME NEW p \in 1..MaxTxs, NEW t \in Tx, Look(a, p, t)
          PROVE  AddingAndMempool
      BY <1>0, <2>2, <3>1 DEF TypeOK, Look, Call
    <3>2. ASSUME NEW p \in 1..MaxTxs, NEW t \in Tx, AddUnknown(a, p, t)
          PROVE  AddingAndMempool
      <4>1. mempool' \in [Tx -> (Nat \ {0}) \cup {Absent, Thin}]
        BY <1>0, <3>2, CountedType DEF AddUnknown
      <4>2. adding' \in [Adder -> Call]
        BY <1>0, <2>2, <3>2 DEF TypeOK, AddUnknown, Call
      <4> QED
        BY <4>1, <4>2
    <3>3. CASE Fetched(a)
      <4>1. mempool' \in [Tx -> (Nat \ {0}) \cup {Absent, Thin}]
        BY <1>0, <2>2, <3>3, CountedType DEF Fetched, Call
      <4>2. adding' \in [Adder -> Call]
        BY <1>0, <2>2, <3>3 DEF TypeOK, Fetched, Call
      <4> QED
        BY <4>1, <4>2
    <3>4. CASE FetchFails(a)
      BY <1>0, <2>2, <3>4 DEF TypeOK, FetchFails, Idle, Call
    <3> QED
      BY <1>6, <3>1, <3>2, <3>3, <3>4 DEF AdderStep
  <2>4. TypeOK'
    BY <1>0, <2>1, <2>3 DEF TypeOK, serverVars, clientVars
  <2> QED
    BY <2>1, <2>4, SameConversations, SameBlocks DEF IInv, clientVars
<1>7. ASSUME NEW txids \in SUBSET Tx, UpdateMempool(txids) PROVE IInv'
  <2>1. mempool' \in [Tx -> (Nat \ {0}) \cup {Absent, Thin}]
    BY <1>0, <1>7 DEF TypeOK, UpdateMempool
  <2>2. UNCHANGED <<serverVars, phase, clientVars, adding, blocks>>
    BY <1>7 DEF UpdateMempool
  <2>3. TypeOK'
    BY <1>0, <2>1, <2>2 DEF TypeOK, serverVars, clientVars
  <2> QED
    BY <2>2, <2>3, SameConversations, SameBlocks DEF IInv, clientVars
<1>8. CASE Stop
  <2>1. running' = FALSE /\ UNCHANGED <<listener, phase, clientVars, mempool, adding, blocks>>
    BY <1>8 DEF Stop
  <2>2. TypeOK'
    BY <1>0, <2>1 DEF TypeOK, clientVars
  <2> QED
    BY <2>1, <2>2, SameConversations, SameBlocks DEF IInv, clientVars
<1>9. CASE UNCHANGED vars
  <2>1. TypeOK'
    BY <1>0, <1>9 DEF TypeOK, vars, serverVars, clientVars
  <2> QED
    BY <1>9, <2>1, SameConversations, SameBlocks DEF vars, IInv, clientVars
<1> QED
  BY <1>1, <1>2, <1>3, <1>4, <1>5, <1>6, <1>7, <1>8, <1>9 DEF Next, ClientMessage

-----------------------------------------------------------------------------
(* The theorems. *)

\* The invariant holds in every reachable state.
THEOREM Invariance == Spec => []IInv
BY InitInv, NextInv, PTL DEF Spec

\* Whatever clients, adders and the node do, no counter of the mempool reaches
\* zero or goes below, and every message is about a job that was declared.
THEOREM JdServerTypes == Spec => []TypeOK
<1>1. IInv => TypeOK
  BY DEF IInv
<1> QED
  BY <1>1, Invariance, PTL

\* A DeclareMiningJobSuccess leaves no position open, and a position holds the
\* transaction that was declared there, or the one the client gave for it when it
\* was asked about this job: never what it gave about an earlier one.
THEOREM SuccessIsComplete == Spec => []AcknowledgedIsComplete
<1>1. IInv => AcknowledgedIsComplete
  <2> SUFFICES ASSUME IInv, NEW c \in Client, declared[c].id \in acknowledged[c],
                      NEW p \in DOMAIN declared[c].txs
               PROVE  \/ /\ p \notin declared[c].missing
                         /\ declared[c].filled[p] = declared[c].txs[p]
                      \/ /\ p \in declared[c].missing /\ answer[c] # None
                         /\ declared[c].filled[p] = answer[c][Slot(declared[c].missing, p)]
    BY DEF AcknowledgedIsComplete
  <2>1. declared[c].id # NoJob
    BY JobIds DEF IInv, TypeOK
  <2> QED
    BY <2>1 DEF IInv, Conversation, JobState
<1> QED
  BY <1>1, Invariance, PTL

\* No solution becomes a block of a job that was not acknowledged, or one that
\* lacks a transaction of its job.
THEOREM BlocksAcknowledged == Spec => []BlocksWereAcknowledged
<1>1. IInv => BlocksWereAcknowledged
  BY DEF IInv
<1> QED
  BY <1>1, Invariance, PTL

=============================================================================
