------------------------------ MODULE RagQuery ------------------------------
(***************************************************************************)
(* POST /docs/models/qa of the rag service: controllers/                   *)
(* query_controller.py with initializers.py and src/vector_store/          *)
(* qdrant_config.py.                                                       *)
(*                                                                         *)
(* The handlers are coroutines of one event loop that hand their slow work *)
(* to a pool of threads, so a handler is interrupted where it waits for    *)
(* such a job or for the lock under which the query model is loaded. The   *)
(* size of the thread pool delays jobs and does nothing else. A manager    *)
(* out of the connection pool serves one existence check; the search makes *)
(* a manager of its own.                                                   *)
(***************************************************************************)
EXTENDS Integers, Sequences, FiniteSets

CONSTANTS
  Requests,     \* HTTP requests
  Collections,  \* Qdrant collections
  MaxFaults     \* bound: failures of Qdrant, the loader, the network, the process

ASSUME RagFaultAssumption == MaxFaults \in Nat /\ Collections # {}

VARIABLES
  vectors,      \* [Collections -> {"missing", "created", "filled"}] in Qdrant
  handler,      \* [Requests -> Handlers]
  idle,         \* [Collections -> Seq(Nat)] QdrantConnectionPool.pool
  managers,     \* [Collections -> Nat] managers made for the pool
  queryModels,  \* global_state.query_models has the model
  modelCache,   \* QUERY_MODEL_CACHE has the model
  builds,       \* history: models constructed by this process
  faults        \* failures so far

queryVars == <<vectors, handler, idle, managers, queryModels, modelCache, builds, faults>>

Statuses == {"hits", "empty", "missing", "error"}
Places == {"absent", "config", "model", "loading", "building", "exists", "search"} \cup Statuses
\* manager 0: none. open: the client still waits for the response.
Handlers == [at : Places, collection : Collections, manager : Nat, open : BOOLEAN]
Absent == [at |-> "absent", collection |-> CHOOSE c \in Collections : TRUE,
           manager |-> 0, open |-> FALSE]

QueryTypeOK ==
  /\ vectors \in [Collections -> {"missing", "created", "filled"}]
  /\ handler \in [Requests -> Handlers]
  /\ idle \in [Collections -> Seq(Nat)]
  /\ managers \in [Collections -> Nat]
  /\ queryModels \in BOOLEAN /\ modelCache \in BOOLEAN
  /\ builds \in Nat
  /\ faults \in 0..MaxFaults

\* What a process has before its first request.
FreshProcess(hs, is, ms) ==
  /\ hs = [q \in Requests |-> Absent]
  /\ is = [c \in Collections |-> <<>>]
  /\ ms = [c \in Collections |-> 0]

QueryInit ==
  /\ vectors = [c \in Collections |-> "missing"]
  /\ FreshProcess(handler, idle, managers)
  /\ queryModels = FALSE /\ modelCache = FALSE
  /\ builds = 0 /\ faults = 0

-----------------------------------------------------------------------------
Fault == faults < MaxFaults /\ faults' = faults + 1

\* The client has heard the response, or is no longer there.
Forget(q) == handler' = [handler EXCEPT ![q] = Absent]

\* The response, which reaches the client if it is still there.
Respond(q, status) ==
  IF handler[q].open
  THEN handler' = [handler EXCEPT ![q].at = status, ![q].manager = 0]
  ELSE Forget(q)

\* The client gives the request up; the handler does not notice.
HangUp(q) ==
  IF handler[q].at \in Statuses THEN Forget(q)
  ELSE handler' = [handler EXCEPT ![q].open = FALSE]

MoveTo(q, place) == handler' = [handler EXCEPT ![q].at = place]

\* Part of the client's fetch.
Arrive(q, c) ==
  handler' = [handler EXCEPT ![q] = [at |-> "config", collection |-> c,
                                            manager |-> 0, open |-> TRUE]]

ReadConfig(q) ==
  /\ handler[q].at = "config"
  /\ MoveTo(q, "model")
  /\ UNCHANGED <<vectors, idle, managers, queryModels, modelCache, builds, faults>>

\* get_connection: the last idle manager of the collection, or a new one. The
\* exhaustion test looks at the length of a list that is empty, and passes.
Connect(q) ==
  LET c == handler[q].collection
  IN  IF idle[c] = <<>>
      THEN /\ managers' = [managers EXCEPT ![c] = @ + 1]
           /\ handler' = [handler EXCEPT ![q].at = "exists", ![q].manager = managers[c] + 1]
           /\ UNCHANGED idle
      ELSE /\ idle' = [idle EXCEPT ![c] = SubSeq(@, 1, Len(@) - 1)]
           /\ handler' = [handler EXCEPT ![q].at = "exists", ![q].manager = idle[c][Len(idle[c])]]
           /\ UNCHANGED managers

Always == TRUE    \* mutant: no lock around the loading of the model

LockIsFree == \A q \in Requests : handler[q].at \notin {"loading", "building"}

\* The coroutine gets the model's lock and looks for the model.
EnterModel(q) ==
  /\ handler[q].at = "model" /\ LockIsFree
  /\ IF queryModels THEN Connect(q)
                    ELSE MoveTo(q, "loading") /\ UNCHANGED <<idle, managers>>
  /\ UNCHANGED <<vectors, queryModels, modelCache, builds, faults>>

\* The thread looks into its own cache; a model whose warm-up failed is in it.
BeginBuild(q) ==
  /\ handler[q].at = "loading"
  /\ IF modelCache THEN queryModels' = TRUE /\ Connect(q)
                   ELSE MoveTo(q, "building") /\ UNCHANGED <<queryModels, idle, managers>>
  /\ UNCHANGED <<vectors, modelCache, builds, faults>>

Build(q) ==
  /\ handler[q].at = "building"
  /\ modelCache' = TRUE /\ queryModels' = TRUE /\ builds' = builds + 1
  /\ Connect(q)
  /\ UNCHANGED <<vectors, faults>>

\* The model cannot be constructed, or its first embedding fails: 500.
BuildFails(q) ==
  /\ handler[q].at = "building"
  /\ Fault
  /\ \/ UNCHANGED <<modelCache, builds>>
     \/ modelCache' = TRUE /\ builds' = builds + 1
  /\ Respond(q, "error")
  /\ UNCHANGED <<vectors, idle, managers, queryModels>>

KeptOnFailure(q, status) ==    \* mutant: the manager comes back on success only
  LET c == handler[q].collection
  IN  /\ idle' = IF status \in {"hits", "empty"}
                 THEN [idle EXCEPT ![c] = Append(@, handler[q].manager)] ELSE idle
      /\ Respond(q, status)

\* The context manager's finally block, then the response.
Leave(q, status) ==
  /\ idle' = [idle EXCEPT ![handler[q].collection] = Append(@, handler[q].manager)]
  /\ Respond(q, status)

Rewrapped(status) == "error"    \* mutant: every HTTPException becomes a 500

RaisedAs(status) == status

CheckExists(q) ==
  /\ handler[q].at = "exists"
  /\ IF vectors[handler[q].collection] = "missing"
     THEN Leave(q, RaisedAs("missing"))
     ELSE MoveTo(q, "search") /\ UNCHANGED idle
  /\ UNCHANGED <<vectors, managers, queryModels, modelCache, builds, faults>>

\* collection_exists answers FALSE when it cannot ask.
CheckFails(q) ==
  /\ handler[q].at = "exists"
  /\ Fault
  /\ Leave(q, RaisedAs("missing"))
  /\ UNCHANGED <<vectors, managers, queryModels, modelCache, builds>>

Search(q) ==
  /\ handler[q].at = "search"
  /\ Leave(q, IF vectors[handler[q].collection] = "filled" THEN "hits" ELSE "empty")
  /\ UNCHANGED <<vectors, managers, queryModels, modelCache, builds, faults>>

SearchFails(q) ==
  /\ handler[q].at = "search"
  /\ Fault
  /\ Leave(q, "error")
  /\ UNCHANGED <<vectors, managers, queryModels, modelCache, builds>>

-----------------------------------------------------------------------------
\* The ingestion side: a collection is made before its first point.
EnsureCollection(c) ==
  /\ vectors[c] = "missing"
  /\ vectors' = [vectors EXCEPT ![c] = "created"]
  /\ UNCHANGED <<handler, idle, managers, queryModels, modelCache, builds, faults>>

UpsertPoints(c) ==
  /\ vectors[c] = "created"
  /\ vectors' = [vectors EXCEPT ![c] = "filled"]
  /\ UNCHANGED <<handler, idle, managers, queryModels, modelCache, builds, faults>>

\* The service dies and is started again; Qdrant keeps its collections.
RagRestart ==
  /\ Fault
  /\ FreshProcess(handler', idle', managers')
  /\ queryModels' = FALSE /\ modelCache' = FALSE /\ builds' = 0
  /\ UNCHANGED vectors

Work(q) ==
  \/ ReadConfig(q) \/ EnterModel(q) \/ BeginBuild(q) \/ Build(q)
  \/ CheckExists(q) \/ Search(q)

WorkFails(q) == BuildFails(q) \/ CheckFails(q) \/ SearchFails(q)

QueryStep ==
  \/ \E q \in Requests : Work(q) \/ WorkFails(q)
  \/ \E c \in Collections : EnsureCollection(c) \/ UpsertPoints(c)
  \/ RagRestart

-----------------------------------------------------------------------------
Users(c, n) == {q \in Requests : handler[q].manager = n /\ handler[q].collection = c}
Resting(c, n) == {i \in DOMAIN idle[c] : idle[c][i] = n}

\* However requests overlap, fail or are given up by their callers, every
\* manager the pool has made is in it once or with one request.
PoolIsWhole ==
  \A c \in Collections : \A n \in 1..managers[c] :
    Cardinality(Users(c, n)) + Cardinality(Resting(c, n)) = 1

\* Requests that find no model at the same time build one model, and one whose
\* warm-up failed is used and not built again.
BuiltOnce == builds <= 1

\* rag.ts:25-28: the missing collection stands for something that was never
\* ingested. The service answers so too when it cannot ask Qdrant.
EmptyMeansMissing ==
  [][\A q \in Requests :
       handler[q].at # "missing" /\ handler'[q].at = "missing"
         => vectors[handler[q].collection] = "missing"]_queryVars

=============================================================================
