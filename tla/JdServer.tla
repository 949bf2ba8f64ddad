------------------------------ MODULE JdServer ------------------------------
(***************************************************************************)
(* The job declarator server (pool-apps/jd-server/src/lib): one task per   *)
(* client handles its messages in order; the transactions of a declared    *)
(* job are brought into the shared mempool by tasks spawned for that,      *)
(* which fetch them from the Bitcoin node one RPC at a time; another task  *)
(* copies the ids of the node's mempool.                                   *)
(*                                                                         *)
(* A job is a list of transactions, of which any may be declared twice.    *)
(* Clients answer with what they like: late, in part, too much, or with    *)
(* transactions nobody asked for.                                          *)
(***************************************************************************)
EXTENDS Integers, FiniteSets

CONSTANTS
  Client,        \* connections
  Tx,            \* transactions
  MaxTokens,     \* bound: tokens a client allocates
  MaxJobs,       \* bound: jobs a client declares
  MaxTxs,        \* bound: transactions in a message
  None           \* neither a transaction nor a list of them

ASSUME BoundsAssumption == MaxTokens \in Nat /\ MaxJobs \in Nat /\ MaxTxs \in Nat
VARIABLES
  running,         \* JobDeclaratorServer::start has not returned
  listener,        \* where accept_incoming_connection is
  phase,           \* how far a connection is
  tokens,          \* tokens 1..tokens[c] are keys of token_to_job_map
  jobs,            \* how many jobs c has declared; the last one's request_id
  declared,        \* declared_mining_job
  answer,          \* history: what the client answered about its last job,
  acknowledged,    \* and the request_ids it was sent DeclareMiningJobSuccess for
  mempool,         \* JDsMempool.mempool: Absent, Thin, or the counter of a fat entry
  adding,          \* the calls of add_tx_data_to_mempool under way
  blocks           \* blocks sent to the task that submits them

clientVars == <<tokens, jobs, declared, answer, acknowledged>>
serverVars == <<running, listener>>
vars == <<serverVars, phase, clientVars, mempool, adding, blocks>>

Absent == -2
Thin == -1
NoJob == 0
JobId == 1..MaxJobs

\* The lists of elements of S that fit into a message.
Lists(S) == UNION {[1..n -> S] : n \in 0..MaxTxs}
ASSUME NoneAssumption == None \notin Tx /\ None \notin Lists(Tx)

\* What a list names, and how often.
Listed(list) == {list[p] : p \in DOMAIN list}
Times(list, t) == Cardinality({p \in DOMAIN list : list[p] = t})

\* filled is transactions_with_state, with None for Missing; missing is
\* missing_indexes, which keeps its positions when they are filled.
Job == [id : JobId \cup {NoJob}, txs : Lists(Tx), filled : Lists(Tx \cup {None}),
        missing : SUBSET (1..MaxTxs)]
NothingDeclared == [id |-> NoJob, txs |-> <<>>, filled |-> <<>>, missing |-> {}]

\* A task spawned for the known or the unknown transactions of a job; with
\* NoJob, the call a client's own task makes for a solution.
Adder == Client \X (JobId \cup {NoJob}) \X {"known", "unknown"}
Retrieval(c) == <<c, NoJob, "known">>
Call == [left : SUBSET ((1..MaxTxs) \X Tx), fetching : Tx \cup {None}]
Idle == [left |-> {}, fetching |-> None]
\* The call for the transactions of a list, at the positions given.
Adding(list, positions) ==
  [left |-> {<<p, list[p]>> : p \in positions}, fetching |-> None]

Block == [client : Client, id : JobId, txs : Lists(Tx \cup {None})]

\* The transaction itself is in the mempool, not only its id.
Fat(t) == mempool[t] \notin {Absent, Thin}

Init ==
  /\ running = TRUE
  /\ listener = "accept"
  /\ phase = [c \in Client |-> "absent"]
  /\ tokens = [c \in Client |-> 0]
  /\ jobs = [c \in Client |-> 0]
  /\ declared = [c \in Client |-> NothingDeclared]
  /\ answer = [c \in Client |-> None]
  /\ acknowledged = [c \in Client |-> {}]
  /\ mempool = [t \in Tx |-> Absent]
  /\ adding = [a \in Adder |-> Idle]
  /\ blocks = {}

-----------------------------------------------------------------------------
(* The listener serves one connection at a time, and waits for its first     *)
(* message; the answer is sent with an `unwrap`.                             *)

Accept(c) ==
  /\ running
  /\ listener = "accept"
  /\ phase[c] = "absent"
  /\ listener' = "waiting"
  /\ phase' = [phase EXCEPT ![c] = "setup"]
  /\ UNCHANGED <<running, clientVars, mempool, adding, blocks>>

SetupConnection(c) ==
  /\ running
  /\ phase[c] = "setup"
  /\ \/ listener' = "accept" /\ phase' = [phase EXCEPT ![c] = "open"]
     \/ listener' = "accept" /\ phase' = [phase EXCEPT ![c] = "closed"]
     \/ listener' = "panicked" /\ phase' = [phase EXCEPT ![c] = "closed"]
  /\ UNCHANGED <<running, clientVars, mempool, adding, blocks>>

\* The client is gone, or sent what cannot be parsed. Its job stays counted.
Closes(c) == phase' = [phase EXCEPT ![c] = "closed"]

Disconnect(c) ==
  /\ running
  /\ phase[c] = "open"
  /\ Closes(c)
  /\ UNCHANGED <<serverVars, clientVars, mempool, adding, blocks>>

-----------------------------------------------------------------------------
(* Messages of a client. *)

AllocateMiningJobToken(c) ==
  /\ running
  /\ phase[c] = "open"
  /\ tokens[c] < MaxTokens                                  \* bound
  /\ tokens' = [tokens EXCEPT ![c] = @ + 1]
  /\ UNCHANGED <<serverVars, phase, jobs, declared, answer, acknowledged, mempool,
                 adding, blocks>>

ClearKeepingZero(old, txs) ==                                          \* mutant
  [t \in Tx |-> IF old.id # NoJob /\ t \in Listed(old.txs) \ Listed(txs) /\ Fat(t)
                  THEN mempool[t] - 1 ELSE mempool[t]]

\* What the old job lists and the new one does not, once per position.
ClearDeclaredMiningJob(old, txs) ==
  [t \in Tx |-> IF old.id # NoJob /\ t \in Listed(old.txs) \ Listed(txs) /\ Fat(t)
                  THEN IF mempool[t] > Times(old.txs, t)
                         THEN mempool[t] - Times(old.txs, t) ELSE Absent
                  ELSE mempool[t]]

\* A token that is not four bytes long panics the client's task.
Malformed == 0
VerifyJob(c, token) == token \in 1..tokens[c]

\* The old job is gone also when the new one is refused, but its lists stay.
DeclareMiningJob(c, token, txs) ==
  LET id == jobs[c] + 1
      cleared == ClearDeclaredMiningJob(declared[c], txs)
      missing == {p \in DOMAIN txs : cleared[txs[p]] = Absent}
      filled == [p \in DOMAIN txs |-> IF p \in missing THEN None ELSE txs[p]]
  IN  /\ running /\ phase[c] = "open"
      /\ id \in JobId                                       \* bound
      /\ jobs' = [jobs EXCEPT ![c] = id]
      /\ answer' = [answer EXCEPT ![c] = None]
      /\ mempool' = cleared
      /\ \/ /\ VerifyJob(c, token)
            /\ declared' = [declared EXCEPT ![c] =
                 [id |-> id, txs |-> txs, filled |-> filled, missing |-> missing]]
            /\ adding' = [adding EXCEPT ![<<c, id, "known">>] =
                             Adding(txs, DOMAIN txs \ missing)]
            /\ acknowledged' = [acknowledged EXCEPT ![c] =
                                  IF missing = {} THEN @ \cup {id} ELSE @]
            /\ UNCHANGED phase
         \/ /\ ~VerifyJob(c, token)
            /\ declared' = [declared EXCEPT ![c].id = NoJob]
            /\ IF token = Malformed THEN Closes(c) ELSE UNCHANGED phase
            /\ UNCHANGED <<adding, acknowledged>>
      /\ UNCHANGED <<serverVars, tokens, blocks>>

AnyAnswer(c, id) == declared[c].id # NoJob                             \* mutant

\* "check request_id in order to ignore old ProvideMissingTransactionsSuccess"
AnswersDeclared(c, id) == declared[c].id # NoJob /\ declared[c].id = id

\* The place of a missing position among the missing ones.
Slot(missing, p) == Cardinality({q \in missing : q <= p})

\* The missing positions are filled in order with the transactions given,
\* whatever their ids are; one too few or too many ends the connection.
ProvideMissingTransactionsSuccess(c, id, given) ==
  LET job == declared[c]
      complete == DOMAIN given = 1..Cardinality(job.missing)
      filled == [p \in DOMAIN job.filled |->
                   IF p \in job.missing THEN given[Slot(job.missing, p)] ELSE job.filled[p]]
  IN  /\ running /\ phase[c] = "open"
      /\ id <= jobs[c]
      /\ id = job.id => answer[c] = None                    \* bound: answers a job once
      /\ answer' = IF id = job.id THEN [answer EXCEPT ![c] = given] ELSE answer
      /\ \/ /\ AnswersDeclared(c, id) /\ complete
            /\ declared' = [declared EXCEPT ![c].filled = filled]
            /\ adding' = [adding EXCEPT ![<<c, job.id, "unknown">>] =
                             Adding(given, DOMAIN given)]
            /\ acknowledged' = [acknowledged EXCEPT ![c] = @ \cup {id}]
            /\ UNCHANGED phase
         \/ /\ job.id # NoJob /\ ~AnswersDeclared(c, id)
            /\ UNCHANGED <<phase, declared, adding, acknowledged>>
         \/ /\ job.id = NoJob \/ (AnswersDeclared(c, id) /\ ~complete)   \* NoValidJob
            /\ Closes(c)
            /\ UNCHANGED <<declared, adding, acknowledged>>
      /\ UNCHANGED <<serverVars, tokens, jobs, mempool, blocks>>

\* The positions of c's job that stand for a transaction.
Filled(c) == {p \in DOMAIN declared[c].filled : declared[c].filled[p] # None}

CollectsKnownOnly(c) == \A p \in Filled(c) : Fat(declared[c].filled[p])  \* mutant

\* collect_txs_in_job: every position is filled and its transaction is here.
CollectTxsInJob(c) ==
  \A p \in DOMAIN declared[c].filled : p \in Filled(c) /\ Fat(declared[c].filled[p])

\* get_block_hex, whose block goes to the task that submits it.
SendBlock(c) ==
  blocks' = blocks \cup {[client |-> c, id |-> declared[c].id, txs |-> declared[c].filled]}

\* A block of the last declared job, or another try to fetch what it needs.
PushSolution(c) ==
  /\ running
  /\ phase[c] = "open"
  /\ \/ /\ CollectTxsInJob(c) /\ declared[c].id # NoJob
        /\ SendBlock(c)
        /\ UNCHANGED <<phase, adding>>
     \/ /\ CollectTxsInJob(c) /\ declared[c].id = NoJob               \* NoLastDeclaredJob
        /\ Closes(c)
        /\ UNCHANGED <<adding, blocks>>
     \/ /\ ~CollectTxsInJob(c)
        /\ phase' = [phase EXCEPT ![c] = "pushing"]
        /\ adding' = [adding EXCEPT ![Retrieval(c)] = Adding(declared[c].filled, Filled(c))]
        /\ UNCHANGED blocks
  /\ UNCHANGED <<serverVars, clientVars, mempool>>

\* The result of the call is not looked at; without a block the solution is lost.
Retrieved(c) ==
  /\ running
  /\ phase[c] = "pushing"
  /\ adding[Retrieval(c)] = Idle
  /\ phase' = [phase EXCEPT ![c] = "open"]
  /\ \/ CollectTxsInJob(c) /\ declared[c].id # NoJob /\ SendBlock(c)
     \/ ~(CollectTxsInJob(c) /\ declared[c].id # NoJob) /\ UNCHANGED blocks
  /\ UNCHANGED <<serverVars, clientVars, mempool, adding>>

\* After 60 seconds the call is dropped where it stands.
RetrievalTimeout(c) ==
  /\ running
  /\ phase[c] = "pushing"
  /\ phase' = [phase EXCEPT ![c] = "open"]
  /\ adding' = [adding EXCEPT ![Retrieval(c)] = Idle]
  /\ UNCHANGED <<serverVars, clientVars, mempool, blocks>>

-----------------------------------------------------------------------------
(* add_tx_data_to_mempool. *)

\* The entry becomes fat with a counter of 1, or its counter grows.
Counted(t) == mempool' = [mempool EXCEPT ![t] = IF Fat(t) THEN @ + 1 ELSE 1]

\* A thin entry is fetched; one that is fat, or not there, is passed over.
Look(a, p, t) ==
  /\ running
  /\ a[3] = "known"
  /\ <<p, t>> \in adding[a].left
  /\ adding[a].fetching = None
  /\ adding' = [adding EXCEPT ![a] =
       [left |-> @.left \ {<<p, t>>}, fetching |-> IF mempool[t] = Thin THEN t ELSE None]]
  /\ UNCHANGED <<serverVars, phase, clientVars, mempool, blocks>>

Fetched(a) ==
  /\ running
  /\ a[3] = "known"
  /\ adding[a].fetching # None
  /\ Counted(adding[a].fetching)
  /\ adding' = [adding EXCEPT ![a].fetching = None]
  /\ UNCHANGED <<serverVars, phase, clientVars, blocks>>

\* The node does not have it, or does not answer: the rest is not tried.
FetchFails(a) ==
  /\ running
  /\ a[3] = "known"
  /\ adding[a].fetching # None
  /\ adding' = [adding EXCEPT ![a] = Idle]
  /\ UNCHANGED <<serverVars, phase, clientVars, mempool, blocks>>

AddUnknown(a, p, t) ==
  /\ running
  /\ a[3] = "unknown"
  /\ <<p, t>> \in adding[a].left
  /\ Counted(t)
  /\ adding' = [adding EXCEPT ![a].left = @ \ {<<p, t>>}]
  /\ UNCHANGED <<serverVars, phase, clientVars, blocks>>

-----------------------------------------------------------------------------
(* The server. *)

\* The ids in the node's mempool, as it answered; none is ever taken back.
UpdateMempool(txids) ==
  /\ running
  /\ mempool' = [t \in Tx |-> IF t \in txids /\ mempool[t] = Absent THEN Thin ELSE mempool[t]]
  /\ UNCHANGED <<serverVars, phase, clientVars, adding, blocks>>

\* Ctrl+C, or the node did not answer update_mempool.
Stop ==
  /\ running
  /\ running' = FALSE
  /\ UNCHANGED <<listener, phase, clientVars, mempool, adding, blocks>>

ClientMessage(c) ==
  \/ AllocateMiningJobToken(c)
  \/ \E token \in {Malformed} \cup 1..MaxTokens, txs \in Lists(Tx) :
       DeclareMiningJob(c, token, txs)
  \/ \E id \in JobId, given \in Lists(Tx) : ProvideMissingTransactionsSuccess(c, id, given)
  \/ PushSolution(c)

AdderStep(a) ==
  \/ \E p \in 1..MaxTxs, t \in Tx : Look(a, p, t) \/ AddUnknown(a, p, t)
  \/ Fetched(a) \/ FetchFails(a)

Next ==
  \/ \E c \in Client :
       \/ Accept(c) \/ SetupConnection(c) \/ Disconnect(c)
       \/ ClientMessage(c)
       \/ Retrieved(c) \/ RetrievalTimeout(c)
  \/ \E a \in Adder : AdderStep(a)
  \/ \E txids \in SUBSET Tx : UpdateMempool(txids)
  \/ Stop

Spec == Init /\ [][Next]_vars

-----------------------------------------------------------------------------
(* Properties. *)

\* The type invariant; in particular no counter of an entry reaches zero.
TypeOK ==
  /\ running \in BOOLEAN
  /\ listener \in {"accept", "waiting", "panicked"}
  /\ phase \in [Client -> {"absent", "setup", "open", "pushing", "closed"}]
  /\ tokens \in [Client -> 0..MaxTokens]
  /\ jobs \in [Client -> 0..MaxJobs]
  /\ declared \in [Client -> Job]
  /\ answer \in [Client -> Lists(Tx) \cup {None}]
  /\ acknowledged \in [Client -> SUBSET JobId]
  /\ mempool \in [Tx -> (Nat \ {0}) \cup {Absent, Thin}]
  /\ adding \in [Adder -> Call]
  /\ blocks \subseteq Block

\* A DeclareMiningJobSuccess leaves no position open: one whose transaction was
\* recognized stands for that transaction, and one that was missing for what
\* the client gave when it was asked about this very job, however late the
\* answers to earlier requests come. Nothing compares ids, so what the client
\* gave may be another transaction than the one it declared.
AcknowledgedIsComplete ==
  \A c \in Client :
    LET job == declared[c] IN
    job.id \in acknowledged[c] =>
      \A p \in DOMAIN job.txs :
        \/ p \notin job.missing /\ job.filled[p] = job.txs[p]
        \/ /\ p \in job.missing /\ answer[c] # None
           /\ job.filled[p] = answer[c][Slot(job.missing, p)]

\* A solution only ever becomes a block of a job that was acknowledged, and no
\* transaction of it is left out.
BlocksWereAcknowledged ==
  \A b \in blocks : b.id \in acknowledged[b.client] /\ None \notin Listed(b.txs)

\* The transactions of a job in use stay in the mempool, as ids at least, from
\* when they were recognized or brought in until the job is replaced: "`u32` is
\* a reference counter for eviction", so the end of another job evicts none.
JobStaysKnown ==
  \A c \in Client :
    phase[c] \in {"open", "pushing"} /\ declared[c].id # NoJob =>
      \A p \in Filled(c) :
        \/ mempool[declared[c].filled[p]] # Absent
        \/ \E q \in 1..MaxTxs :
             <<q, declared[c].filled[p]>> \in adding[<<c, declared[c].id, "unknown">>].left

=============================================================================
