-------------------------- MODULE RagClient_proofs --------------------------
(***************************************************************************)
(* Proofs about RagClient and the query service behind it, for any number  *)
(* of runs, calls, retries, collections and failures.                      *)
(***************************************************************************)
EXTENDS RagClient, SequenceTheorems, FiniteSetTheorems, TLAPS

USE RagFaultAssumption, ClientAssumption

-----------------------------------------------------------------------------
(* Types.                                                                  *)

HandlerType == handler \in [Requests -> Handlers]

PoolType ==
  /\ idle \in [Collections -> Seq(Nat)]
  /\ managers \in [Collections -> Nat]

\* While a retrieval pauses there is an attempt left.
PauseMeansRetry ==
  \A r \in Runs : retrieval[r].pc = "sleeping" => retrieval[r].attempt <= Retries

\* At most one thread is about to load the model, and it does so only while
\* the cache is empty.
OneLoader ==
  /\ \A p, q \in Requests :
       /\ handler[p].at \in {"loading", "building"}
       /\ handler[q].at \in {"loading", "building"}
       => p = q
  /\ \A q \in Requests : handler[q].at = "building" => ~modelCache

BuiltIsCached == builds = 0 \/ (builds = 1 /\ modelCache)

IInv == TypeOK /\ PauseMeansRetry /\ OneLoader /\ BuiltIsCached

LEMMA AbsentType == Absent \in Handlers /\ NoCall \in Retrievals
  <1>1. (CHOOSE c \in Collections : TRUE) \in Collections
    OBVIOUS
  <1>2. 1 \in 1..Retries + 1
    OBVIOUS
  <1> QED
    BY <1>1, <1>2 DEF Absent, Handlers, Places, Statuses, NoCall, Retrievals

\* One request moves: the others stay where they are.
OnlyMoves(q, place) ==
  /\ handler' \in [Requests -> Handlers]
  /\ \A p \in Requests : handler'[p] = handler[p] \/ (p = q /\ handler'[p].at = place)

LEMMA MoveToMoves ==
  ASSUME HandlerType, NEW q, NEW place \in Places, MoveTo(q, place)
  PROVE  OnlyMoves(q, place)
  <1>1. CASE q \in Requests
    <2>1. [handler[q] EXCEPT !.at = place] \in Handlers
      BY <1>1 DEF HandlerType, Handlers
    <2>2. handler' = [handler EXCEPT ![q] = [handler[q] EXCEPT !.at = place]]
      BY DEF MoveTo
    <2>3. [handler[q] EXCEPT !.at = place].at = place
      BY <1>1 DEF HandlerType, Handlers
    <2> QED
      BY <1>1, <2>1, <2>2, <2>3 DEF HandlerType, OnlyMoves
  <1>2. CASE q \notin Requests
    BY <1>2 DEF HandlerType, MoveTo, OnlyMoves
  <1> QED
    BY <1>1, <1>2

LEMMA ForgetMoves ==
  ASSUME HandlerType, NEW q, Forget(q)
  PROVE  OnlyMoves(q, "absent")
  BY AbsentType DEF HandlerType, Forget, OnlyMoves, Absent

LEMMA RespondMoves ==
  ASSUME HandlerType, NEW q, NEW status \in Statuses, Respond(q, status)
  PROVE  OnlyMoves(q, status) \/ OnlyMoves(q, "absent")
  <1>1. CASE Forget(q)
    BY <1>1, ForgetMoves
  <1>2. CASE handler' = [handler EXCEPT ![q] = [handler[q] EXCEPT !.at = status, !.manager = 0]]
    <2>1. CASE q \in Requests
      <3>1. /\ [handler[q] EXCEPT !.at = status, !.manager = 0] \in Handlers
            /\ [handler[q] EXCEPT !.at = status, !.manager = 0].at = status
        BY <2>1 DEF HandlerType, Handlers, Places
      <3> QED
        BY <1>2, <2>1, <3>1 DEF HandlerType, OnlyMoves
    <2>2. CASE q \notin Requests
      BY <1>2, <2>2 DEF HandlerType, OnlyMoves
    <2> QED
      BY <2>1, <2>2
  <1> QED
    BY <1>1, <1>2 DEF Respond

\* Giving up moves nobody but a request that has its answer.
LEMMA HangUpMoves ==
  ASSUME HandlerType, NEW q, HangUp(q)
  PROVE  /\ handler' \in [Requests -> Handlers]
         /\ \A p \in Requests : handler'[p].at \in {handler[p].at, "absent"}
  <1>1. CASE Forget(q)
    BY <1>1, ForgetMoves DEF OnlyMoves
  <1>2. CASE handler' = [handler EXCEPT ![q] = [handler[q] EXCEPT !.open = FALSE]]
    <2>1. CASE q \in Requests
      <3>1. /\ [handler[q] EXCEPT !.open = FALSE] \in Handlers
            /\ [handler[q] EXCEPT !.open = FALSE].at = handler[q].at
        BY <2>1 DEF HandlerType, Handlers
      <3> QED
        BY <1>2, <2>1, <3>1 DEF HandlerType
    <2>2. CASE q \notin Requests
      BY <1>2, <2>2 DEF HandlerType
    <2> QED
      BY <2>1, <2>2
  <1> QED
    BY <1>1, <1>2 DEF HangUp

LEMMA ArriveMoves ==
  ASSUME HandlerType, NEW q, NEW c \in Collections, Arrive(q, c)
  PROVE  OnlyMoves(q, "config")
  <1> DEFINE h == [at |-> "config", collection |-> c, manager |-> 0, open |-> TRUE]
  <1>1. h \in Handlers /\ h.at = "config"
    BY DEF Handlers, Places
  <1>2. handler' = [handler EXCEPT ![q] = h]
    BY DEF Arrive
  <1> HIDE DEF h
  <1> QED
    BY <1>1, <1>2 DEF HandlerType, OnlyMoves

LEMMA LastIdle ==
  ASSUME NEW s \in Seq(Nat), s # <<>>
  PROVE  s[Len(s)] \in Nat /\ SubSeq(s, 1, Len(s) - 1) \in Seq(Nat)
  <1>1. Len(s) \in Nat /\ Len(s) # 0
    BY EmptySeq
  <1>2. Len(s) \in 1..Len(s) /\ Len(s) - 1 \in Nat
    BY <1>1
  <1>3. \A i \in 1..Len(s) - 1 : s[i] \in Nat
    BY <1>1
  <1> QED
    BY <1>1, <1>2, <1>3

LEMMA ConnectMoves ==
  ASSUME HandlerType, PoolType, NEW q \in Requests, Connect(q)
  PROVE  OnlyMoves(q, "exists") /\ PoolType'
  <1> DEFINE c == handler[q].collection
             Moved(n) == [handler[q] EXCEPT !.at = "exists", !.manager = n]
  <1>1. c \in Collections
    BY DEF HandlerType, Handlers
  <1>2. \A n \in Nat : Moved(n) \in Handlers /\ Moved(n).at = "exists"
    BY DEF HandlerType, Handlers, Places
  <1>3. \A n \in Nat : handler' = [handler EXCEPT ![q] = Moved(n)] => OnlyMoves(q, "exists")
    <2> TAKE n \in Nat
    <2>1. Moved(n) \in Handlers /\ Moved(n).at = "exists"
      BY <1>2
    <2> HIDE DEF Moved
    <2> QED
      BY <2>1 DEF HandlerType, OnlyMoves
  <1>4. CASE idle[c] = <<>>
    <2>1. /\ managers' = [managers EXCEPT ![c] = managers[c] + 1]
          /\ handler' = [handler EXCEPT ![q] = Moved(managers[c] + 1)]
          /\ idle' = idle
      BY <1>4 DEF Connect
    <2>2. managers[c] + 1 \in Nat
      BY <1>1 DEF PoolType
    <2> HIDE DEF Moved
    <2> QED
      BY <1>1, <1>3, <2>1, <2>2 DEF PoolType
  <1>5. CASE idle[c] # <<>>
    <2>1. /\ idle' = [idle EXCEPT ![c] = SubSeq(idle[c], 1, Len(idle[c]) - 1)]
          /\ handler' = [handler EXCEPT ![q] = Moved(idle[c][Len(idle[c])])]
          /\ managers' = managers
      BY <1>5 DEF Connect
    <2>2. idle[c][Len(idle[c])] \in Nat /\ SubSeq(idle[c], 1, Len(idle[c]) - 1) \in Seq(Nat)
      BY <1>1, <1>5, LastIdle DEF PoolType
    <2> HIDE DEF Moved
    <2> QED
      BY <1>1, <1>3, <2>1, <2>2 DEF PoolType
  <1> QED
    BY <1>4, <1>5

LEMMA LeaveMoves ==
  ASSUME HandlerType, PoolType, NEW q \in Requests, NEW status \in Statuses, Leave(q, status)
  PROVE  /\ OnlyMoves(q, status) \/ OnlyMoves(q, "absent")
         /\ idle' \in [Collections -> Seq(Nat)]
  <1> DEFINE c == handler[q].collection
  <1>1. c \in Collections /\ handler[q].manager \in Nat
    BY DEF HandlerType, Handlers
  <1>2. idle' = [idle EXCEPT ![c] = Append(idle[c], handler[q].manager)]
    BY DEF Leave
  <1>3. Append(idle[c], handler[q].manager) \in Seq(Nat)
    BY <1>1 DEF PoolType
  <1>4. idle' \in [Collections -> Seq(Nat)]
    BY <1>1, <1>2, <1>3 DEF PoolType
  <1> QED
    BY <1>4, RespondMoves DEF Leave

-----------------------------------------------------------------------------
(* The service.                                                            *)

ServiceInv ==
  /\ QueryTypeOK
  /\ OneLoader
  /\ BuiltIsCached

LEMMA ServiceTypes ==
  ServiceInv => HandlerType /\ PoolType
  BY DEF ServiceInv, QueryTypeOK, HandlerType, PoolType

\* Whoever goes anywhere but to the model's lock disturbs nobody there.
LEMMA LoaderUndisturbed ==
  ASSUME OneLoader, UNCHANGED modelCache,
         \A p \in Requests : \/ handler'[p].at = handler[p].at
                             \/ handler'[p].at \notin {"loading", "building"}
  PROVE  OneLoader'
  BY DEF OneLoader

LEMMA ReadConfigKeeps ==
  ASSUME ServiceInv, NEW q \in Requests, ReadConfig(q)
  PROVE  ServiceInv'
  <1>1. /\ OnlyMoves(q, "model")
        /\ UNCHANGED <<vectors, idle, managers, queryModels, modelCache, builds, faults>>
    BY ServiceTypes, MoveToMoves DEF ReadConfig, Places
  <1>2. OneLoader'
    BY <1>1, LoaderUndisturbed DEF ServiceInv, OnlyMoves
  <1> QED
    BY <1>1, <1>2 DEF ServiceInv, QueryTypeOK, BuiltIsCached, OnlyMoves

LEMMA EnterModelKeeps ==
  ASSUME ServiceInv, NEW q \in Requests, EnterModel(q)
  PROVE  ServiceInv'
  <1>1. UNCHANGED <<vectors, queryModels, modelCache, builds, faults>>
    BY DEF EnterModel
  <1>2. CASE Connect(q)
    <2>1. OnlyMoves(q, "exists") /\ PoolType'
      BY <1>2, ServiceTypes, ConnectMoves
    <2>2. OneLoader'
      BY <1>1, <2>1, LoaderUndisturbed DEF ServiceInv, OnlyMoves
    <2> QED
      BY <1>1, <2>1, <2>2 DEF ServiceInv, QueryTypeOK, BuiltIsCached, OnlyMoves, PoolType
  <1>3. CASE MoveTo(q, "loading") /\ UNCHANGED <<idle, managers>>
    <2>1. OnlyMoves(q, "loading")
      BY <1>3, ServiceTypes, MoveToMoves DEF Places
    <2>2. \A p \in Requests : handler'[p].at \in {"loading", "building"} =>
            p = q /\ handler'[p].at = "loading"
      BY <2>1 DEF OnlyMoves, EnterModel, LockIsFree
    <2>3. OneLoader'
      BY <2>2 DEF OneLoader
    <2> QED
      BY <1>1, <1>3, <2>1, <2>3 DEF ServiceInv, QueryTypeOK, BuiltIsCached, OnlyMoves
  <1> QED
    BY <1>2, <1>3 DEF EnterModel

LEMMA BeginBuildKeeps ==
  ASSUME ServiceInv, NEW q \in Requests, BeginBuild(q)
  PROVE  ServiceInv'
  <1>1. UNCHANGED <<vectors, modelCache, builds, faults>> /\ handler[q].at = "loading"
    BY DEF BeginBuild
  <1>2. CASE modelCache
    <2>1. queryModels' = TRUE /\ Connect(q)
      BY <1>2 DEF BeginBuild
    <2>2. OnlyMoves(q, "exists") /\ PoolType'
      BY <2>1, ServiceTypes, ConnectMoves
    <2>3. OneLoader'
      BY <1>1, <2>2, LoaderUndisturbed DEF ServiceInv, OnlyMoves
    <2> QED
      BY <1>1, <2>1, <2>2, <2>3 DEF ServiceInv, QueryTypeOK, BuiltIsCached, OnlyMoves, PoolType
  <1>3. CASE ~modelCache
    <2>1. MoveTo(q, "building") /\ UNCHANGED <<queryModels, idle, managers>>
      BY <1>3 DEF BeginBuild
    <2>2. OnlyMoves(q, "building")
      BY <2>1, ServiceTypes, MoveToMoves DEF Places
    <2>3. \A p \in Requests : handler'[p].at \in {"loading", "building"} => p = q
      BY <1>1, <2>2 DEF OnlyMoves, ServiceInv, OneLoader
    <2>4. OneLoader'
      BY <1>1, <1>3, <2>3 DEF OneLoader
    <2> QED
      BY <1>1, <2>1, <2>2, <2>4 DEF ServiceInv, QueryTypeOK, BuiltIsCached, OnlyMoves
  <1> QED
    BY <1>2, <1>3

\* The thread that builds was alone, and the cache was empty: the first model.
LEMMA FirstBuild ==
  ASSUME ServiceInv, NEW q \in Requests, handler[q].at = "building",
         NEW place \in Places \ {"loading", "building"}, OnlyMoves(q, place),
         handler'[q].at # "building"
  PROVE  /\ builds = 0
         /\ \A p \in Requests : handler'[p].at \notin {"loading", "building"}
  <1>1. builds = 0
    BY DEF ServiceInv, OneLoader, BuiltIsCached
  <1>2. handler'[q].at \notin {"loading", "building"}
    BY DEF OnlyMoves
  <1> QED
    BY <1>1, <1>2 DEF OnlyMoves, ServiceInv, OneLoader

LEMMA BuildKeeps ==
  ASSUME ServiceInv, NEW q \in Requests, Build(q)
  PROVE  ServiceInv'
  <1>1. /\ handler[q].at = "building" /\ modelCache' = TRUE /\ queryModels' = TRUE
        /\ builds' = builds + 1 /\ Connect(q) /\ UNCHANGED <<vectors, faults>>
    BY DEF Build
  <1>2. OnlyMoves(q, "exists") /\ PoolType' /\ handler'[q].at = "exists"
    <2>1. OnlyMoves(q, "exists") /\ PoolType'
      BY <1>1, ServiceTypes, ConnectMoves
    <2>2. handler'[q].at = "exists"
      BY <1>1 DEF Connect, ServiceInv, QueryTypeOK, Handlers
    <2> QED
      BY <2>1, <2>2
  <1>3. builds = 0 /\ \A p \in Requests : handler'[p].at \notin {"loading", "building"}
    BY <1>1, <1>2, FirstBuild DEF Places
  <1> QED
    BY <1>1, <1>2, <1>3 DEF ServiceInv, QueryTypeOK, OneLoader, BuiltIsCached, OnlyMoves, PoolType

LEMMA BuildFailsKeeps ==
  ASSUME ServiceInv, NEW q \in Requests, BuildFails(q)
  PROVE  ServiceInv'
  <1>1. /\ handler[q].at = "building" /\ Fault
        /\ \/ UNCHANGED <<modelCache, builds>>
           \/ modelCache' = TRUE /\ builds' = builds + 1
        /\ Respond(q, "error")
        /\ UNCHANGED <<vectors, idle, managers, queryModels>>
    BY DEF BuildFails
  <1>2. /\ OnlyMoves(q, "error") \/ OnlyMoves(q, "absent")
        /\ handler'[q].at \in {"error", "absent"}
    <2>1. OnlyMoves(q, "error") \/ OnlyMoves(q, "absent")
      BY <1>1, ServiceTypes, RespondMoves DEF Statuses
    <2>2. handler'[q].at \in {"error", "absent"}
      BY <1>1 DEF Respond, Forget, Absent, ServiceInv, QueryTypeOK, Handlers
    <2> QED
      BY <2>1, <2>2
  <1>3. builds = 0 /\ \A p \in Requests : handler'[p].at \notin {"loading", "building"}
    BY <1>1, <1>2, FirstBuild DEF Places, Statuses
  <1>4. handler' \in [Requests -> Handlers] /\ faults' \in 0..MaxFaults
    BY <1>1, <1>2 DEF OnlyMoves, Fault, ServiceInv, QueryTypeOK
  <1>5. builds' \in Nat /\ modelCache' \in BOOLEAN /\ BuiltIsCached'
    <2>1. builds = 0 /\ modelCache \in BOOLEAN
      BY <1>3 DEF ServiceInv, QueryTypeOK
    <2>2. CASE UNCHANGED <<modelCache, builds>>
      BY <2>1, <2>2 DEF BuiltIsCached
    <2>3. CASE modelCache' = TRUE /\ builds' = builds + 1
      BY <2>1, <2>3 DEF BuiltIsCached
    <2> QED
      BY <1>1, <2>2, <2>3
  <1>6. QueryTypeOK'
    BY <1>1, <1>4, <1>5 DEF ServiceInv, QueryTypeOK
  <1> QED
    BY <1>3, <1>5, <1>6 DEF ServiceInv, OneLoader

\* Every request that has a manager gives it back with its answer.
LEMMA AnswerKeeps ==
  ASSUME ServiceInv, NEW q \in Requests,
         CheckExists(q) \/ CheckFails(q) \/ Search(q) \/ SearchFails(q)
  PROVE  ServiceInv'
  <1>1. /\ UNCHANGED <<vectors, managers, queryModels, modelCache, builds>>
        /\ faults' = faults \/ Fault
        /\ \/ MoveTo(q, "search") /\ UNCHANGED idle
           \/ \E status \in Statuses : Leave(q, status)
    BY DEF CheckExists, CheckFails, Search, SearchFails, RaisedAs, Statuses
  <1>2. faults' \in 0..MaxFaults
    BY <1>1 DEF Fault, ServiceInv, QueryTypeOK
  <1>3. /\ \E place \in Statuses \cup {"search", "absent"} : OnlyMoves(q, place)
        /\ idle' \in [Collections -> Seq(Nat)]
    <2>1. CASE MoveTo(q, "search") /\ UNCHANGED idle
      BY <2>1, ServiceTypes, MoveToMoves DEF Places, PoolType
    <2>2. CASE \E status \in Statuses : Leave(q, status)
      BY <2>2, ServiceTypes, LeaveMoves
    <2> QED
      BY <1>1, <2>1, <2>2
  <1>4. OneLoader'
    BY <1>1, <1>3, LoaderUndisturbed DEF ServiceInv, OnlyMoves, Statuses
  <1> QED
    BY <1>1, <1>2, <1>3, <1>4 DEF ServiceInv, QueryTypeOK, BuiltIsCached, OnlyMoves

\* A new process has no handler, no manager and no model.
LEMMA FreshType ==
  ASSUME NEW hs, NEW is, NEW ms, FreshProcess(hs, is, ms)
  PROVE  /\ hs \in [Requests -> Handlers] /\ \A q \in Requests : hs[q].at = "absent"
         /\ is \in [Collections -> Seq(Nat)] /\ ms \in [Collections -> Nat]
  <1>1. Absent \in Handlers /\ Absent.at = "absent"
    BY AbsentType DEF Absent
  <1>2. <<>> \in Seq(Nat) /\ 0 \in Nat
    OBVIOUS
  <1>3. hs \in [Requests -> Handlers] /\ \A q \in Requests : hs[q].at = "absent"
    BY <1>1 DEF FreshProcess
  <1>4. is \in [Collections -> Seq(Nat)]
    BY <1>2 DEF FreshProcess
  <1>5. ms \in [Collections -> Nat]
    BY <1>2 DEF FreshProcess
  <1> QED
    BY <1>3, <1>4, <1>5

LEMMA ServiceKeeps ==
  ASSUME ServiceInv, QueryStep
  PROVE  ServiceInv'
  <1>1. ASSUME NEW q \in Requests, Work(q) \/ WorkFails(q)
        PROVE  ServiceInv'
    BY <1>1, ReadConfigKeeps, EnterModelKeeps, BeginBuildKeeps, BuildKeeps, BuildFailsKeeps,
       AnswerKeeps DEF Work, WorkFails
  <1>2. ASSUME NEW c \in Collections, EnsureCollection(c) \/ UpsertPoints(c)
        PROVE  ServiceInv'
    <2>1. /\ vectors' \in [Collections -> {"missing", "created", "filled"}]
          /\ UNCHANGED <<handler, idle, managers, queryModels, modelCache, builds, faults>>
      BY <1>2 DEF EnsureCollection, UpsertPoints, ServiceInv, QueryTypeOK
    <2>2. QueryTypeOK'
      BY <2>1 DEF ServiceInv, QueryTypeOK
    <2>3. OneLoader' /\ BuiltIsCached'
      BY <2>1 DEF ServiceInv, OneLoader, BuiltIsCached
    <2> QED
      BY <2>2, <2>3 DEF ServiceInv
  <1>3. CASE RagRestart
    <2>1. /\ handler' \in [Requests -> Handlers]
          /\ \A q \in Requests : handler'[q].at = "absent"
          /\ idle' \in [Collections -> Seq(Nat)] /\ managers' \in [Collections -> Nat]
      BY <1>3, FreshType DEF RagRestart
    <2>2. /\ queryModels' = FALSE /\ modelCache' = FALSE /\ builds' = 0
          /\ UNCHANGED vectors /\ faults' \in 0..MaxFaults
      BY <1>3 DEF RagRestart, Fault, ServiceInv, QueryTypeOK
    <2> QED
      BY <2>1, <2>2 DEF ServiceInv, QueryTypeOK, OneLoader, BuiltIsCached
  <1> QED
    BY <1>1, <1>2, <1>3 DEF QueryStep

-----------------------------------------------------------------------------
(* The client.                                                             *)

ClientInv ==
  /\ retrieval \in [Runs -> Retrievals]
  /\ calls \in [Runs -> 0..MaxCalls]
  /\ cancelled \in [Runs -> BOOLEAN]
  /\ found \in [Runs -> [Collections -> Outcomes]]
  /\ PauseMeansRetry

LEMMA EndCallKeeps ==
  ASSUME ClientInv, NEW r \in Runs, NEW c \in Collections, NEW outcome \in Outcomes,
         EndCall(r, c, outcome)
  PROVE  /\ retrieval' \in [Runs -> Retrievals]
         /\ found' \in [Runs -> [Collections -> Outcomes]]
         /\ PauseMeansRetry'
  <1>1. retrieval' = [retrieval EXCEPT ![r] = NoCall] /\ NoCall \in Retrievals
    BY AbsentType DEF EndCall
  <1>2. NoCall.pc = "idle"
    BY DEF NoCall
  <1>3. found' = [found EXCEPT ![r] = [found[r] EXCEPT ![c] = outcome]]
    BY DEF EndCall
  <1>4. [found[r] EXCEPT ![c] = outcome] \in [Collections -> Outcomes]
    BY DEF ClientInv
  <1>5. retrieval' \in [Runs -> Retrievals] /\ PauseMeansRetry'
    <2> HIDE DEF NoCall
    <2> QED
      BY <1>1, <1>2 DEF ClientInv, PauseMeansRetry
  <1>6. found' \in [Runs -> [Collections -> Outcomes]]
    BY <1>3, <1>4 DEF ClientInv
  <1> QED
    BY <1>5, <1>6

LEMMA RetrievalOf ==
  ASSUME ClientInv, NEW r \in Runs
  PROVE  /\ retrieval[r] \in Retrievals
         /\ retrieval[r].collection \in Collections
         /\ retrieval[r].attempt \in 1..Retries + 1
  BY DEF ClientInv, Retrievals

LEMMA PauseOrFailKeeps ==
  ASSUME ClientInv, NEW r \in Runs, RetryOrFail(r)
  PROVE  /\ retrieval' \in [Runs -> Retrievals]
         /\ found' \in [Runs -> [Collections -> Outcomes]]
         /\ PauseMeansRetry'
  <1>1. CASE EndCall(r, retrieval[r].collection, "failed")
    BY <1>1, RetrievalOf, EndCallKeeps DEF Outcomes
  <1>2. CASE retrieval[r].attempt <= Retries /\ Pause(r)
    <2> DEFINE t == [retrieval[r] EXCEPT !.pc = "sleeping"]
    <2>1. /\ t \in Retrievals /\ t.attempt <= Retries
      BY <1>2, RetrievalOf DEF Retrievals
    <2>2. retrieval' = [retrieval EXCEPT ![r] = t] /\ UNCHANGED found
      BY <1>2 DEF Pause
    <2> HIDE DEF t
    <2> QED
      BY <2>1, <2>2 DEF ClientInv, PauseMeansRetry
  <1> QED
    BY <1>1, <1>2 DEF RetryOrFail

\* What the client does to its own request at the service.
ClientMoves ==
  /\ handler' \in [Requests -> Handlers]
  /\ \A p \in Requests : handler'[p].at \in {handler[p].at, "absent", "config"}
  /\ UNCHANGED <<vectors, idle, managers, queryModels, modelCache, builds>>
  /\ faults' \in 0..MaxFaults

LEMMA ServiceUndisturbed ==
  ASSUME ServiceInv, ClientMoves
  PROVE  ServiceInv'
  <1>1. OneLoader'
    BY LoaderUndisturbed DEF ServiceInv, ClientMoves
  <1> QED
    BY <1>1 DEF ClientMoves, ServiceInv, QueryTypeOK, BuiltIsCached

LEMMA RunRagCallKeeps ==
  ASSUME ServiceInv, ClientInv, NEW r \in Runs, NEW c \in Collections, RunRagCall(r, c)
  PROVE  ClientMoves /\ ClientInv'
  <1>1. /\ calls[r] < MaxCalls /\ calls' = [calls EXCEPT ![r] = calls[r] + 1]
        /\ UNCHANGED <<vectors, idle, managers, queryModels, modelCache, builds, faults, cancelled>>
    BY DEF RunRagCall
  <1>2. calls' \in [Runs -> 0..MaxCalls] /\ cancelled' \in [Runs -> BOOLEAN]
    <2>1. calls[r] + 1 \in 0..MaxCalls
      BY <1>1 DEF ClientInv
    <2> QED
      BY <1>1, <2>1 DEF ClientInv
  <1>3. CASE cancelled[r]
    <2>1. EndCall(r, c, "failed") /\ UNCHANGED handler
      BY <1>3 DEF RunRagCall
    <2> QED
      BY <1>1, <1>2, <2>1, EndCallKeeps DEF Outcomes, ClientInv, ClientMoves, ServiceInv,
                                            QueryTypeOK
  <1>4. CASE ~cancelled[r]
    <2> DEFINE t == [pc |-> "fetching", attempt |-> 1, collection |-> c, armed |-> TRUE]
    <2>1. /\ retrieval' = [retrieval EXCEPT ![r] = t]
          /\ Arrive(<<r, calls[r] + 1, 1>>, c)
          /\ UNCHANGED found
      BY <1>4 DEF RunRagCall
    <2>2. t \in Retrievals /\ t.pc # "sleeping"
      BY DEF Retrievals
    <2>3. retrieval' \in [Runs -> Retrievals] /\ PauseMeansRetry'
      <3> HIDE DEF t
      <3> QED
        BY <2>1, <2>2 DEF ClientInv, PauseMeansRetry
    <2>4. OnlyMoves(<<r, calls[r] + 1, 1>>, "config")
      BY <2>1, ServiceTypes, ArriveMoves
    <2> QED
      BY <1>1, <1>2, <2>1, <2>3, <2>4 DEF ClientInv, ClientMoves, OnlyMoves, ServiceInv,
                                          QueryTypeOK
  <1> QED
    BY <1>3, <1>4

LEMMA AnsweredKeeps ==
  ASSUME ServiceInv, ClientInv, NEW r \in Runs, Answered(r)
  PROVE  ClientMoves /\ ClientInv'
  <1> DEFINE q == Current(r)
             status == handler[q].at
  <1>1. /\ status \in Statuses /\ Forget(q)
        /\ IF status = "error" THEN RetryOrFail(r)
                               ELSE EndCall(r, retrieval[r].collection, status)
        /\ UNCHANGED <<vectors, idle, managers, queryModels, modelCache, builds, faults,
                       calls, cancelled>>
    BY DEF Answered
  <1>2. /\ retrieval' \in [Runs -> Retrievals]
        /\ found' \in [Runs -> [Collections -> Outcomes]]
        /\ PauseMeansRetry'
    <2>1. CASE RetryOrFail(r)
      BY <2>1, PauseOrFailKeeps
    <2>2. CASE status # "error" /\ EndCall(r, retrieval[r].collection, status)
      <3>1. status \in Outcomes
        BY <1>1, <2>2 DEF Statuses, Outcomes
      <3> HIDE DEF status
      <3> QED
        BY <2>2, <3>1, RetrievalOf, EndCallKeeps
    <2> QED
      BY <1>1, <2>1, <2>2
  <1>3. OnlyMoves(q, "absent")
    BY <1>1, ServiceTypes, ForgetMoves
  <1> QED
    BY <1>1, <1>2, <1>3 DEF ClientInv, ClientMoves, OnlyMoves, ServiceInv, QueryTypeOK

\* The attempt fails without an answer.
LEMMA BrokenKeeps ==
  ASSUME ServiceInv, ClientInv, NEW r \in Runs, Broken(r) \/ Foreign(r)
  PROVE  ClientMoves /\ ClientInv'
  <1>1. /\ UNCHANGED <<vectors, idle, managers, queryModels, modelCache, builds,
                       calls, cancelled>>
        /\ UNCHANGED <<handler, faults>> \/ (Fault /\ HangUp(Current(r)))
        /\ RetryOrFail(r) \/ EndCall(r, retrieval[r].collection, "failed")
    BY DEF Broken, Foreign
  <1>2. /\ retrieval' \in [Runs -> Retrievals]
        /\ found' \in [Runs -> [Collections -> Outcomes]]
        /\ PauseMeansRetry'
    BY <1>1, PauseOrFailKeeps, RetrievalOf, EndCallKeeps DEF Outcomes
  <1>3. ClientMoves
    <2>1. CASE UNCHANGED <<handler, faults>>
      BY <1>1, <2>1 DEF ClientMoves, ServiceInv, QueryTypeOK
    <2>2. CASE Fault /\ HangUp(Current(r))
      <3>1. faults' \in 0..MaxFaults
        BY <2>2 DEF Fault, ServiceInv, QueryTypeOK
      <3> QED
        BY <1>1, <2>2, <3>1, ServiceTypes, HangUpMoves DEF ClientMoves
    <2> QED
      BY <1>1, <2>1, <2>2
  <1> QED
    BY <1>1, <1>2, <1>3 DEF ClientInv

LEMMA RetryKeeps ==
  ASSUME ServiceInv, ClientInv, NEW r \in Runs, Retry(r)
  PROVE  ClientMoves /\ ClientInv'
  <1> DEFINE t == [retrieval[r] EXCEPT !.pc = "fetching", !.attempt = retrieval[r].attempt + 1]
  <1>1. /\ retrieval[r].pc = "sleeping"
        /\ retrieval' = [retrieval EXCEPT ![r] = t]
        /\ Arrive(<<r, calls[r], retrieval[r].attempt + 1>>, retrieval[r].collection)
        /\ UNCHANGED <<vectors, idle, managers, queryModels, modelCache, builds, faults,
                       calls, cancelled, found>>
    BY DEF Retry
  <1>2. t \in Retrievals /\ t.pc # "sleeping"
    <2>1. retrieval[r].attempt + 1 \in 1..Retries + 1
      BY <1>1, RetrievalOf DEF ClientInv, PauseMeansRetry
    <2> QED
      BY <2>1, RetrievalOf DEF Retrievals
  <1>3. retrieval' \in [Runs -> Retrievals] /\ PauseMeansRetry'
    <2> HIDE DEF t
    <2> QED
      BY <1>1, <1>2 DEF ClientInv, PauseMeansRetry
  <1>4. OnlyMoves(<<r, calls[r], retrieval[r].attempt + 1>>, "config")
    BY <1>1, ServiceTypes, RetrievalOf, ArriveMoves
  <1> QED
    BY <1>1, <1>3, <1>4 DEF ClientInv, ClientMoves, OnlyMoves, ServiceInv, QueryTypeOK

LEMMA GiveUpKeeps ==
  ASSUME ServiceInv, ClientInv, NEW r \in Runs, GiveUp(r),
         UNCHANGED <<vectors, idle, managers, queryModels, modelCache, builds, faults, calls>>,
         cancelled' \in [Runs -> BOOLEAN]
  PROVE  ClientMoves /\ ClientInv'
  <1>1. /\ retrieval' \in [Runs -> Retrievals]
        /\ found' \in [Runs -> [Collections -> Outcomes]]
        /\ PauseMeansRetry'
    BY RetrievalOf, EndCallKeeps DEF GiveUp, Outcomes
  <1>2. /\ handler' \in [Requests -> Handlers]
        /\ \A p \in Requests : handler'[p].at \in {handler[p].at, "absent", "config"}
    <2>1. CASE HangUp(Current(r))
      BY <2>1, ServiceTypes, HangUpMoves
    <2>2. CASE UNCHANGED handler
      BY <2>2 DEF ServiceInv, QueryTypeOK
    <2> QED
      BY <2>1, <2>2 DEF GiveUp
  <1> QED
    BY <1>1, <1>2 DEF ClientInv, ClientMoves, ServiceInv, QueryTypeOK

LEMMA ClientKeeps ==
  ASSUME ServiceInv, ClientInv, NEW r \in Runs, ClientStep(r)
  PROVE  ServiceInv' /\ ClientInv'
  <1>1. CASE Deadline(r)
    BY <1>1, GiveUpKeeps, ServiceUndisturbed DEF Deadline, ClientInv
  <1>2. CASE Cancel(r)
    <2>1. /\ cancelled' \in [Runs -> BOOLEAN]
          /\ UNCHANGED <<vectors, idle, managers, queryModels, modelCache, builds, faults, calls>>
          /\ GiveUp(r) \/ UNCHANGED <<handler, retrieval, found>>
      BY <1>2 DEF Cancel, ClientInv
    <2>2. CASE GiveUp(r)
      BY <2>1, <2>2, GiveUpKeeps, ServiceUndisturbed
    <2>3. CASE UNCHANGED <<handler, retrieval, found>>
      <3>1. ClientMoves
        BY <2>1, <2>3 DEF ClientMoves, ServiceInv, QueryTypeOK
      <3>2. ClientInv'
        BY <2>1, <2>3 DEF ClientInv, PauseMeansRetry
      <3> QED
        BY <3>1, <3>2, ServiceUndisturbed
    <2> QED
      BY <2>1, <2>2, <2>3
  <1>3. CASE \E c \in Collections : RunRagCall(r, c)
    BY <1>3, RunRagCallKeeps, ServiceUndisturbed
  <1>4. CASE Answered(r) \/ Broken(r) \/ Foreign(r) \/ Retry(r)
    BY <1>4, AnsweredKeeps, BrokenKeeps, RetryKeeps, ServiceUndisturbed
  <1> QED
    BY <1>1, <1>2, <1>3, <1>4 DEF ClientStep

-----------------------------------------------------------------------------
LEMMA Parts == IInv <=> ServiceInv /\ ClientInv
  BY DEF IInv, ServiceInv, ClientInv, TypeOK

LEMMA RagInductive ==
  IInv /\ [Next]_vars => IInv'
  <1> SUFFICES ASSUME ServiceInv, ClientInv, [Next]_vars
               PROVE  ServiceInv' /\ ClientInv'
    BY Parts DEF IInv, ServiceInv, ClientInv, TypeOK
  <1>1. CASE QueryStep /\ UNCHANGED clientVars
    <2>1. ClientInv'
      BY <1>1 DEF clientVars, ClientInv, PauseMeansRetry
    <2> QED
      BY <1>1, <2>1, ServiceKeeps
  <1>2. ASSUME NEW r \in Runs, ClientStep(r)
        PROVE  ServiceInv' /\ ClientInv'
    BY <1>2, ClientKeeps
  <1>3. CASE UNCHANGED vars
    BY <1>3 DEF vars, queryVars, clientVars, ServiceInv, ClientInv, QueryTypeOK, OneLoader,
                BuiltIsCached, PauseMeansRetry
  <1> QED
    BY <1>1, <1>2, <1>3 DEF Next

LEMMA RagInvariant == Spec => []IInv
  <1>1. Init => IInv
    <2> SUFFICES ASSUME Init
                 PROVE  ServiceInv /\ ClientInv
      BY Parts
    <2>1. /\ handler \in [Requests -> Handlers]
          /\ \A q \in Requests : handler[q].at = "absent"
          /\ idle \in [Collections -> Seq(Nat)] /\ managers \in [Collections -> Nat]
      BY FreshType DEF Init, QueryInit
    <2>2. ServiceInv
      <3>1. QueryTypeOK
        <4>1. vectors \in [Collections -> {"missing", "created", "filled"}]
          BY DEF Init, QueryInit
        <4>2. queryModels \in BOOLEAN /\ modelCache \in BOOLEAN /\ builds \in Nat
          BY DEF Init, QueryInit
        <4>3. faults \in 0..MaxFaults
          BY DEF Init, QueryInit
        <4> QED
          BY <2>1, <4>1, <4>2, <4>3 DEF QueryTypeOK
      <3>2. OneLoader /\ BuiltIsCached
        BY <2>1 DEF Init, QueryInit, OneLoader, BuiltIsCached
      <3> QED
        BY <3>1, <3>2 DEF ServiceInv
    <2>3. retrieval \in [Runs -> Retrievals] /\ PauseMeansRetry
      <3>1. retrieval = [r \in Runs |-> NoCall] /\ NoCall.pc = "idle"
        BY DEF Init, ClientInit, NoCall
      <3> QED
        BY <3>1, AbsentType DEF PauseMeansRetry
    <2>4. ClientInv
      BY <2>3 DEF Init, ClientInit, ClientInv, Outcomes
    <2> QED
      BY <2>2, <2>4
  <1> QED
    BY <1>1, RagInductive, PTL DEF Spec

\* The state of client and service keeps its types: no attempt beyond the last.
THEOREM RagTypeCorrect == Spec => []TypeOK
  <1>1. IInv => TypeOK
    BY DEF IInv
  <1> QED
    BY <1>1, RagInvariant, PTL

\* However many requests find no model at the same time, hang up, fail or are
\* repeated, a process of the service constructs the query model once.
THEOREM OneModelPerProcess == Spec => []BuiltOnce
  <1>1. IInv => BuiltOnce
    BY DEF IInv, BuiltIsCached, BuiltOnce
  <1> QED
    BY <1>1, RagInvariant, PTL

-----------------------------------------------------------------------------
(* A service that fails nobody. As long as nothing has failed, a retrieval *)
(* is at its first attempt, whose request is with the service, and no      *)
(* request is answered by an error.                                        *)

FirstAttempt(r) ==
  /\ retrieval[r].pc \in {"idle", "fetching"} /\ retrieval[r].attempt = 1
  /\ retrieval[r].pc = "fetching" =>
       /\ calls[r] >= 1
       /\ handler[Current(r)].at # "absent" /\ handler[Current(r)].open

NoRetries == \A q \in Requests : q[3] > 1 => handler[q].at = "absent"
NoErrors == \A q \in Requests : handler[q].at # "error"

QuietInv == faults = 0 => (\A r \in Runs : FirstAttempt(r)) /\ NoRetries /\ NoErrors

LEMMA CurrentIsARequest ==
  ASSUME ClientInv, NEW r \in Runs, FirstAttempt(r), retrieval[r].pc = "fetching"
  PROVE  Current(r) \in Requests /\ Current(r)[1] = r /\ Current(r)[3] = 1
  <1>1. calls[r] \in 1..MaxCalls /\ 1 \in 1..Retries + 1 /\ retrieval[r].attempt = 1
    BY DEF FirstAttempt, ClientInv
  <1>2. Current(r) = <<r, calls[r], 1>>
    BY <1>1 DEF Current
  <1>3. <<r, calls[r], 1>> \in Requests
    BY <1>1
  <1> QED
    BY <1>2, <1>3

\* A handler goes on: no answer is an error, and who waits for it is not
\* forgotten.
GoesOn(q) ==
  /\ \A p \in Requests : p # q => handler'[p] = handler[p]
  /\ handler[q].at # "absent" /\ handler'[q].at # "error"
  /\ handler[q].open => handler'[q].at # "absent" /\ handler'[q].open

LEMMA MoveToGoesOn ==
  ASSUME HandlerType, NEW q \in Requests, NEW place, MoveTo(q, place),
         handler[q].at # "absent", place \notin {"absent", "error"}
  PROVE  GoesOn(q)
  <1> DEFINE h == [handler[q] EXCEPT !.at = place]
  <1>1. h.at = place /\ h.open = handler[q].open
    BY DEF HandlerType, Handlers
  <1>2. handler' = [handler EXCEPT ![q] = h]
    BY DEF MoveTo
  <1> HIDE DEF h
  <1> QED
    BY <1>1, <1>2 DEF HandlerType, GoesOn

LEMMA ConnectGoesOn ==
  ASSUME HandlerType, NEW q \in Requests, Connect(q), handler[q].at # "absent"
  PROVE  GoesOn(q)
  <1> DEFINE h(n) == [handler[q] EXCEPT !.at = "exists", !.manager = n]
  <1>1. \A n : h(n).at = "exists" /\ h(n).open = handler[q].open
    BY DEF HandlerType, Handlers
  <1>2. \E n : handler' = [handler EXCEPT ![q] = h(n)]
    BY DEF Connect
  <1> HIDE DEF h
  <1>3. PICK n : handler' = [handler EXCEPT ![q] = h(n)]
    BY <1>2
  <1>4. h(n).at = "exists" /\ h(n).open = handler[q].open
    BY <1>1
  <1> QED
    BY <1>3, <1>4 DEF HandlerType, GoesOn

LEMMA LeaveGoesOn ==
  ASSUME HandlerType, NEW q \in Requests, NEW status, Leave(q, status),
         handler[q].at # "absent", status \notin {"absent", "error"}
  PROVE  GoesOn(q)
  <1>1. CASE handler[q].open
    <2> DEFINE h == [handler[q] EXCEPT !.at = status, !.manager = 0]
    <2>1. h.at = status /\ h.open = handler[q].open
      BY DEF HandlerType, Handlers
    <2>2. handler' = [handler EXCEPT ![q] = h]
      BY <1>1 DEF Leave, Respond
    <2> HIDE DEF h
    <2> QED
      BY <2>1, <2>2 DEF HandlerType, GoesOn
  <1>2. CASE ~handler[q].open
    <2>1. handler' = [handler EXCEPT ![q] = Absent] /\ Absent.at = "absent"
      BY <1>2 DEF Leave, Respond, Forget, Absent
    <2> HIDE DEF Absent
    <2> QED
      BY <1>2, <2>1 DEF HandlerType, GoesOn
  <1> QED
    BY <1>1, <1>2

LEMMA WorkGoesOn ==
  ASSUME HandlerType, NEW q \in Requests, Work(q)
  PROVE  GoesOn(q) /\ UNCHANGED faults
  <1>1. CASE ReadConfig(q)
    BY <1>1, MoveToGoesOn DEF ReadConfig
  <1>2. CASE EnterModel(q)
    BY <1>2, MoveToGoesOn, ConnectGoesOn DEF EnterModel
  <1>3. CASE BeginBuild(q)
    BY <1>3, MoveToGoesOn, ConnectGoesOn DEF BeginBuild
  <1>4. CASE Build(q)
    BY <1>4, ConnectGoesOn DEF Build
  <1>5. CASE CheckExists(q)
    BY <1>5, MoveToGoesOn, LeaveGoesOn DEF CheckExists, RaisedAs
  <1>6. CASE Search(q)
    BY <1>6, LeaveGoesOn DEF Search
  <1> QED
    BY <1>1, <1>2, <1>3, <1>4, <1>5, <1>6 DEF Work

\* The service's own steps.
LEMMA QuietService ==
  ASSUME ServiceInv, ClientInv, QuietInv, QueryStep, UNCHANGED clientVars
  PROVE  QuietInv'
  <1> SUFFICES ASSUME faults' = 0
               PROVE  (\A r \in Runs : FirstAttempt(r)') /\ NoRetries' /\ NoErrors'
    BY DEF QuietInv
  <1> USE DEF clientVars
  <1>1. faults \in Nat
    BY DEF ServiceInv, QueryTypeOK
  <1>2. CASE \E q \in Requests : Work(q)
    <2>1. PICK q \in Requests : GoesOn(q) /\ UNCHANGED faults
      BY <1>2, ServiceTypes, WorkGoesOn
    <2>2. (\A r \in Runs : FirstAttempt(r)) /\ NoRetries /\ NoErrors
      BY <2>1 DEF QuietInv
    <2>3. ASSUME NEW r \in Runs
          PROVE  FirstAttempt(r)'
      <3>1. FirstAttempt(r) /\ Current(r)' = Current(r)
        BY <2>2 DEF Current
      <3>2. ASSUME retrieval[r].pc = "fetching"
            PROVE  handler'[Current(r)].at # "absent" /\ handler'[Current(r)].open
        <4>1. Current(r) \in Requests
          BY <3>1, <3>2, CurrentIsARequest
        <4>2. handler[Current(r)].at # "absent" /\ handler[Current(r)].open
          BY <3>1, <3>2 DEF FirstAttempt
        <4> QED
          BY <2>1, <4>1, <4>2 DEF GoesOn
      <3> QED
        BY <3>1, <3>2 DEF FirstAttempt
    <2>4. NoRetries' /\ NoErrors'
      BY <2>1, <2>2 DEF GoesOn, NoRetries, NoErrors
    <2> QED
      BY <2>3, <2>4
  <1>3. CASE \E c \in Collections : EnsureCollection(c) \/ UpsertPoints(c)
    BY <1>3 DEF EnsureCollection, UpsertPoints, QuietInv, FirstAttempt, Current, NoRetries,
                NoErrors
  <1>4. CASE RagRestart \/ \E q \in Requests : WorkFails(q)
    <2>1. Fault
      BY <1>4 DEF RagRestart, WorkFails, BuildFails, CheckFails, SearchFails
    <2> QED
      BY <1>1, <2>1 DEF Fault
  <1> QED
    BY <1>2, <1>3, <1>4 DEF QueryStep

\* What a step of run r does while nothing fails: it moves requests of its own,
\* and only first ones.
OwnStep(r) ==
  /\ \A p \in Runs : p # r => retrieval'[p] = retrieval[p] /\ calls'[p] = calls[p]
  /\ \A q \in Requests : \/ handler'[q] = handler[q]
                         \/ q[1] = r /\ q[3] = 1 /\ handler'[q].at # "error"
  /\ FirstAttempt(r)'

LEMMA OwnStepIsQuiet ==
  ASSUME ClientInv, NEW r \in Runs, OwnStep(r),
         \A p \in Runs : FirstAttempt(p), NoRetries, NoErrors
  PROVE  (\A p \in Runs : FirstAttempt(p)') /\ NoRetries' /\ NoErrors'
  <1>1. ASSUME NEW p \in Runs, p # r
        PROVE  FirstAttempt(p)'
    <2>1. retrieval'[p] = retrieval[p] /\ calls'[p] = calls[p]
      BY <1>1 DEF OwnStep
    <2>2. Current(p)' = Current(p)
      BY <2>1 DEF Current
    <2>3. ASSUME retrieval[p].pc = "fetching"
          PROVE  handler'[Current(p)] = handler[Current(p)]
      BY <1>1, <2>3, CurrentIsARequest DEF OwnStep
    <2> QED
      BY <2>1, <2>2, <2>3 DEF FirstAttempt
  <1>2. NoRetries'
    BY DEF OwnStep, NoRetries
  <1>3. NoErrors'
    BY DEF OwnStep, NoErrors
  <1> QED
    BY <1>1, <1>2, <1>3 DEF OwnStep

\* The call returns: the run retrieves nothing.
LEMMA EndedIsIdle ==
  ASSUME ClientInv, NEW r \in Runs, NEW c, NEW outcome, EndCall(r, c, outcome)
  PROVE  /\ FirstAttempt(r)'
         /\ \A p \in Runs : p # r => retrieval'[p] = retrieval[p]
  <1>1. NoCall.pc = "idle" /\ NoCall.attempt = 1
    BY DEF NoCall
  <1>2. retrieval' = [retrieval EXCEPT ![r] = NoCall]
    BY DEF EndCall
  <1> HIDE DEF NoCall
  <1> QED
    BY <1>1, <1>2 DEF ClientInv, FirstAttempt

LEMMA QuietGiveUp ==
  ASSUME HandlerType, ClientInv, NEW r \in Runs, FirstAttempt(r), NoErrors,
         GiveUp(r), UNCHANGED calls
  PROVE  OwnStep(r)
  <1>1. /\ FirstAttempt(r)'
        /\ \A p \in Runs : p # r => retrieval'[p] = retrieval[p]
    BY EndedIsIdle DEF GiveUp
  <1>2. ASSUME NEW q \in Requests
        PROVE  \/ handler'[q] = handler[q]
               \/ q[1] = r /\ q[3] = 1 /\ handler'[q].at # "error"
    <2>1. CASE retrieval[r].pc = "fetching"
      <3>1. HangUp(Current(r)) /\ Current(r)[1] = r /\ Current(r)[3] = 1
        BY <2>1, CurrentIsARequest DEF GiveUp
      <3>2. \A p \in Requests : handler'[p].at \in {handler[p].at, "absent"}
        BY <3>1, HangUpMoves
      <3>3. q # Current(r) => handler'[q] = handler[q]
        BY <3>1 DEF HangUp, Forget, HandlerType
      <3> QED
        BY <3>1, <3>2, <3>3 DEF NoErrors
    <2>2. CASE retrieval[r].pc # "fetching"
      BY <2>2 DEF GiveUp
    <2> QED
      BY <2>1, <2>2
  <1> QED
    BY <1>1, <1>2 DEF OwnStep

LEMMA QuietCall ==
  ASSUME HandlerType, ClientInv, NEW r \in Runs, NEW c \in Collections, RunRagCall(r, c)
  PROVE  OwnStep(r)
  <1>1. /\ calls[r] \in Nat /\ calls[r] < MaxCalls
        /\ calls' = [calls EXCEPT ![r] = calls[r] + 1]
    BY DEF RunRagCall, ClientInv
  <1>2. \A p \in Runs : p # r => calls'[p] = calls[p]
    BY <1>1 DEF ClientInv
  <1>3. CASE cancelled[r]
    <2>1. EndCall(r, c, "failed") /\ UNCHANGED handler
      BY <1>3 DEF RunRagCall
    <2> QED
      BY <1>2, <2>1, EndedIsIdle DEF OwnStep
  <1>4. CASE ~cancelled[r]
    <2> DEFINE t == [pc |-> "fetching", attempt |-> 1, collection |-> c, armed |-> TRUE]
               h == [at |-> "config", collection |-> c, manager |-> 0, open |-> TRUE]
               q == <<r, calls[r] + 1, 1>>
    <2>1. /\ retrieval' = [retrieval EXCEPT ![r] = t]
          /\ handler' = [handler EXCEPT ![q] = h]
      BY <1>4 DEF RunRagCall, Arrive
    <2>2. q \in Requests /\ q[1] = r /\ q[3] = 1
      <3>1. calls[r] + 1 \in 1..MaxCalls /\ 1 \in 1..Retries + 1
        BY <1>1
      <3> QED
        BY <3>1
    <2>3. t.pc = "fetching" /\ t.attempt = 1 /\ h.at = "config" /\ h.open
      OBVIOUS
    <2> HIDE DEF t, h
    <2>4. retrieval'[r] = t /\ \A p \in Runs : p # r => retrieval'[p] = retrieval[p]
      BY <2>1 DEF ClientInv
    <2>5. calls'[r] = calls[r] + 1 /\ Current(r)' = q
      BY <1>1, <2>3, <2>4 DEF Current, ClientInv
    <2> HIDE DEF q
    <2>6. handler'[q] = h /\ \A p \in Requests : p # q => handler'[p] = handler[p]
      BY <2>1, <2>2 DEF HandlerType
    <2>7. FirstAttempt(r)'
      BY <1>1, <2>3, <2>4, <2>5, <2>6 DEF FirstAttempt
    <2> QED
      BY <1>2, <2>2, <2>3, <2>4, <2>6, <2>7 DEF OwnStep
  <1> QED
    BY <1>3, <1>4

LEMMA QuietAnswer ==
  ASSUME HandlerType, ClientInv, NEW r \in Runs, FirstAttempt(r), NoErrors, Answered(r)
  PROVE  OwnStep(r)
  <1>1. /\ retrieval[r].pc = "fetching" /\ Forget(Current(r)) /\ UNCHANGED calls
        /\ IF handler[Current(r)].at = "error"
           THEN RetryOrFail(r)
           ELSE EndCall(r, retrieval[r].collection, handler[Current(r)].at)
    BY DEF Answered
  <1>2. Current(r) \in Requests /\ Current(r)[1] = r /\ Current(r)[3] = 1
    BY <1>1, CurrentIsARequest
  <1>3. EndCall(r, retrieval[r].collection, handler[Current(r)].at)
    BY <1>1, <1>2 DEF NoErrors
  <1>4. \A q \in Requests : \/ q # Current(r) /\ handler'[q] = handler[q]
                            \/ q = Current(r) /\ handler'[q].at = "absent"
    BY <1>1, <1>2, ForgetMoves DEF Forget, HandlerType, Absent
  <1> QED
    BY <1>1, <1>2, <1>3, <1>4, EndedIsIdle DEF OwnStep

LEMMA QuietClient ==
  ASSUME ServiceInv, ClientInv, QuietInv, NEW r \in Runs, ClientStep(r)
  PROVE  QuietInv'
  <1> SUFFICES ASSUME faults' = 0
               PROVE  (\A p \in Runs : FirstAttempt(p)') /\ NoRetries' /\ NoErrors'
    BY DEF QuietInv
  <1>1. faults = 0
    <2>1. faults \in Nat /\ (faults' = faults \/ Fault)
      BY DEF ClientStep, RunRagCall, Answered, Broken, Foreign, Retry, Deadline, Cancel,
             ServiceInv, QueryTypeOK
    <2> QED
      BY <2>1 DEF Fault
  <1>2. (\A p \in Runs : FirstAttempt(p)) /\ NoRetries /\ NoErrors
    BY <1>1 DEF QuietInv
  <1>3. ~Fault
    BY <1>1 DEF Fault
  <1>4. HandlerType
    BY ServiceTypes
  <1>5. CASE \E c \in Collections : RunRagCall(r, c)
    BY <1>2, <1>4, <1>5, QuietCall, OwnStepIsQuiet
  <1>6. CASE Answered(r)
    BY <1>2, <1>4, <1>6, QuietAnswer, OwnStepIsQuiet
  <1>7. CASE Broken(r)
    <2>1. retrieval[r].pc = "fetching" /\ handler[Current(r)] = Absent
      BY <1>3, <1>7 DEF Broken
    <2>2. Absent.at = "absent"
      BY DEF Absent
    <2> QED
      BY <1>2, <2>1, <2>2 DEF FirstAttempt
  <1>8. CASE Foreign(r)
    BY <1>3, <1>8 DEF Foreign
  <1>9. CASE Retry(r)
    BY <1>2, <1>9 DEF Retry, FirstAttempt
  <1>10. CASE Deadline(r)
    BY <1>2, <1>4, <1>10, QuietGiveUp, OwnStepIsQuiet DEF Deadline
  <1>11. CASE Cancel(r)
    <2>1. CASE GiveUp(r)
      BY <1>2, <1>4, <1>11, <2>1, QuietGiveUp, OwnStepIsQuiet DEF Cancel
    <2>2. CASE UNCHANGED <<handler, retrieval, found>>
      BY <1>2, <1>11, <2>2 DEF Cancel, FirstAttempt, Current, NoRetries, NoErrors
    <2> QED
      BY <1>11, <2>1, <2>2 DEF Cancel
  <1> QED
    BY <1>5, <1>6, <1>7, <1>8, <1>9, <1>10, <1>11 DEF ClientStep

LEMMA QuietInductive ==
  IInv /\ QuietInv /\ [Next]_vars => QuietInv'
  <1> SUFFICES ASSUME ServiceInv, ClientInv, QuietInv, [Next]_vars
               PROVE  QuietInv'
    BY Parts
  <1>1. CASE UNCHANGED vars
    BY <1>1 DEF vars, queryVars, clientVars, QuietInv, FirstAttempt, Current, NoRetries, NoErrors
  <1> QED
    BY <1>1, QuietService, QuietClient DEF Next

LEMMA QuietInitially == Init => QuietInv
  <1> SUFFICES ASSUME Init
               PROVE  QuietInv
    OBVIOUS
  <1>1. \A q \in Requests : handler[q].at = "absent"
    BY FreshType DEF Init, QueryInit
  <1>2. NoCall.pc = "idle" /\ NoCall.attempt = 1
    BY DEF NoCall
  <1>3. \A r \in Runs : retrieval[r] = NoCall
    BY DEF Init, ClientInit
  <1> HIDE DEF NoCall
  <1> QED
    BY <1>1, <1>2, <1>3 DEF QuietInv, FirstAttempt, NoRetries, NoErrors

\* While nothing fails, the answer for a missing collection, like any other,
\* ends its retrieval: no request is a repetition.
THEOREM MissingIsAskedOnce == Spec => []QuietServiceIsAskedOnce
  <1>1. QuietInv => QuietServiceIsAskedOnce
    BY DEF QuietInv, NoRetries, QuietServiceIsAskedOnce
  <1> QED
    BY <1>1, QuietInitially, QuietInductive, RagInvariant, PTL DEF Spec

-----------------------------------------------------------------------------
(* The pool. A request has a manager exactly while it checks or searches,  *)
(* no two requests of a collection have the same, none of them is idle as  *)
(* well, and each that was made is somewhere.                              *)

Uses(q) == handler[q].at \in {"exists", "search"}

UsersHaveOne ==
  \A q \in Requests :
    IF Uses(q) THEN handler[q].manager \in 1..managers[handler[q].collection]
               ELSE handler[q].manager = 0

NoneShared ==
  \A p, q \in Requests :
    p # q /\ Uses(p) /\ Uses(q) /\ handler[p].collection = handler[q].collection
      => handler[p].manager # handler[q].manager

IdleOnce ==
  \A c \in Collections : \A i, j \in 1..Len(idle[c]) :
    idle[c][i] \in 1..managers[c] /\ (i # j => idle[c][i] # idle[c][j])

UsedIsNotIdle ==
  \A q \in Requests : Uses(q) =>
    \A i \in 1..Len(idle[handler[q].collection]) :
      idle[handler[q].collection][i] # handler[q].manager

NoneLost ==
  \A c \in Collections : \A n \in 1..managers[c] :
    \/ \E q \in Requests : Uses(q) /\ handler[q].collection = c /\ handler[q].manager = n
    \/ \E i \in 1..Len(idle[c]) : idle[c][i] = n

PoolInv == UsersHaveOne /\ NoneShared /\ IdleOnce /\ UsedIsNotIdle /\ NoneLost

\* The client's next request has not been sent.
Unsent(q) ==
  \/ q[2] > calls[q[1]]
  \/ q[2] = calls[q[1]] /\ retrieval[q[1]].pc # "idle" /\ q[3] > retrieval[q[1]].attempt

UnsentInv == \A q \in Requests : Unsent(q) => handler[q].at = "absent"

\* A request keeps what it has, or has nothing before and after.
KeepsHold(q) ==
  \/ /\ Uses(q) /\ Uses(q)'
     /\ handler'[q].collection = handler[q].collection
     /\ handler'[q].manager = handler[q].manager
  \/ ~Uses(q) /\ ~Uses(q)' /\ handler'[q].manager = 0

LEMMA HoldsKept ==
  ASSUME PoolInv, UNCHANGED <<idle, managers>>, \A q \in Requests : KeepsHold(q)
  PROVE  PoolInv'
  <1> USE DEF KeepsHold
  <1>1. UsersHaveOne'
    BY DEF PoolInv, UsersHaveOne
  <1>2. NoneShared'
    BY DEF PoolInv, NoneShared
  <1>3. IdleOnce'
    BY DEF PoolInv, IdleOnce
  <1>4. UsedIsNotIdle'
    BY DEF PoolInv, UsedIsNotIdle
  <1>5. NoneLost'
    BY DEF PoolInv, NoneLost
  <1> QED
    BY <1>1, <1>2, <1>3, <1>4, <1>5 DEF PoolInv

LEMMA Untouched ==
  ASSUME PoolInv, NEW q \in Requests, handler'[q] = handler[q]
  PROVE  KeepsHold(q)
  BY DEF PoolInv, UsersHaveOne, KeepsHold, Uses

LEMMA CollectionOf ==
  ASSUME HandlerType, PoolType, NEW q \in Requests
  PROVE  /\ handler[q].collection \in Collections
         /\ idle[handler[q].collection] \in Seq(Nat)
         /\ managers[handler[q].collection] \in Nat
  BY DEF HandlerType, PoolType, Handlers

LEMMA WithoutLast ==
  ASSUME NEW s \in Seq(Nat), s # <<>>
  PROVE  LET t == SubSeq(s, 1, Len(s) - 1)
         IN  /\ Len(s) \in Nat \ {0} /\ Len(t) = Len(s) - 1
             /\ \A i \in 1..Len(s) - 1 : t[i] = s[i]
  <1> DEFINE n == Len(s)
             t == SubSeq(s, 1, n - 1)
  <1>1. n \in Nat /\ n # 0
    BY EmptySeq
  <1>2. n - 1 \in Nat /\ \A i \in 1..n - 1 : i \in 1..n
    BY <1>1
  <1>3. \A i \in 1..n - 1 : s[i] \in Nat
    BY <1>1, <1>2
  <1>4. Len(t) = IF 1 <= n - 1 THEN n - 1 - 1 + 1 ELSE 0
    BY <1>1, <1>2, <1>3, SubSeqProperties
  <1>5. Len(t) = n - 1
    <2> HIDE DEF t, n
    <2> QED
      BY <1>1, <1>4
  <1>6. \A i \in 1..n - 1 : t[i] = s[i]
    BY <1>1, <1>2
  <1> HIDE DEF t
  <1> QED
    BY <1>1, <1>5, <1>6 DEF t

LEMMA IdleFacts ==
  ASSUME PoolInv, NEW c \in Collections, NEW i \in 1..Len(idle[c]), NEW j \in 1..Len(idle[c])
  PROVE  idle[c][i] \in 1..managers[c] /\ (i # j => idle[c][i] # idle[c][j])
  BY DEF PoolInv, IdleOnce

\* A request without a manager takes the last idle one.
LEMMA TakesIdle ==
  ASSUME HandlerType, PoolType, PoolInv, NEW q \in Requests, ~Uses(q), Connect(q),
         idle[handler[q].collection] # <<>>
  PROVE  PoolInv'
  <1> DEFINE c == handler[q].collection
             L == Len(idle[c])
             m == idle[c][L]
             h == [handler[q] EXCEPT !.at = "exists", !.manager = m]
  <1>1. c \in Collections /\ idle[c] \in Seq(Nat) /\ L \in Nat \ {0}
    BY CollectionOf, EmptySeq
  <1>2. /\ idle' = [idle EXCEPT ![c] = SubSeq(idle[c], 1, L - 1)]
        /\ handler' = [handler EXCEPT ![q] = h]
        /\ managers' = managers
    BY DEF Connect
  <1>3. h.at = "exists" /\ h.collection = c /\ h.manager = m
    BY DEF HandlerType, Handlers
  <1>4. /\ Len(idle'[c]) = L - 1
        /\ \A i \in 1..L - 1 : idle'[c][i] = idle[c][i]
        /\ \A d \in Collections : d # c => idle'[d] = idle[d]
    <2>1. /\ idle'[c] = SubSeq(idle[c], 1, L - 1)
          /\ \A d \in Collections : d # c => idle'[d] = idle[d]
      BY <1>1, <1>2 DEF PoolType
    <2> QED
      BY <1>1, <2>1, WithoutLast
  <1> HIDE DEF h
  <1>5. /\ handler'[q] = h /\ Uses(q)'
        /\ \A p \in Requests : p # q => handler'[p] = handler[p] /\ Uses(p)' = Uses(p)
    BY <1>2, <1>3 DEF HandlerType, Uses
  <1>6. L \in 1..L /\ m \in 1..managers[c]
    <2>1. L \in 1..L
      BY <1>1
    <2> QED
      BY <1>1, <2>1, IdleFacts
  <1> HIDE DEF m, L
  <1>7. UsersHaveOne'
    BY <1>2, <1>3, <1>5, <1>6 DEF PoolInv, UsersHaveOne
  <1>8. \A p \in Requests : p # q /\ Uses(p) /\ handler[p].collection = c => handler[p].manager # m
    BY <1>1, <1>6 DEF PoolInv, UsedIsNotIdle, L, m
  <1>9. NoneShared'
    BY <1>3, <1>5, <1>8 DEF PoolInv, NoneShared
  <1>10. IdleOnce'
    <2> SUFFICES ASSUME NEW d \in Collections, NEW i \in 1..Len(idle'[d]), NEW j \in 1..Len(idle'[d])
                 PROVE  idle'[d][i] \in 1..managers[d] /\ (i # j => idle'[d][i] # idle'[d][j])
      BY <1>2 DEF IdleOnce
    <2>1. CASE d = c
      <3>1. /\ i \in 1..L /\ j \in 1..L
            /\ idle'[c][i] = idle[c][i] /\ idle'[c][j] = idle[c][j]
        BY <1>1, <1>4, <2>1
      <3> QED
        BY <1>1, <2>1, <3>1 DEF PoolInv, IdleOnce, L
    <2>2. CASE d # c
      BY <1>4, <2>2 DEF PoolInv, IdleOnce
    <2> QED
      BY <2>1, <2>2
  <1>11. \A i \in 1..L - 1 : idle[c][i] # m
    <2> SUFFICES ASSUME NEW i \in 1..L - 1
                 PROVE  idle[c][i] # m
      OBVIOUS
    <2>1. i \in 1..L /\ L \in 1..L /\ i # L
      BY <1>1
    <2> QED
      BY <1>1, <2>1, IdleFacts DEF m, L
  <1>12. UsedIsNotIdle'
    <2> SUFFICES ASSUME NEW p \in Requests, Uses(p)', NEW i \in 1..Len(idle'[handler'[p].collection])
                 PROVE  idle'[handler'[p].collection][i] # handler'[p].manager
      BY DEF UsedIsNotIdle
    <2>1. CASE p = q
      BY <1>3, <1>4, <1>5, <1>11, <2>1
    <2>2. CASE p # q
      <3>1. handler'[p] = handler[p] /\ Uses(p) /\ handler[p].collection \in Collections
        BY <1>5, <2>2, CollectionOf
      <3>2. CASE handler[p].collection = c
        <4>1. i \in 1..L - 1 /\ i \in 1..L
          BY <1>1, <1>4, <3>1, <3>2
        <4> QED
          BY <1>4, <3>1, <3>2, <4>1 DEF PoolInv, UsedIsNotIdle, L
      <3>3. CASE handler[p].collection # c
        BY <1>4, <3>1, <3>3 DEF PoolInv, UsedIsNotIdle
      <3> QED
        BY <3>2, <3>3
    <2> QED
      BY <2>1, <2>2
  <1>13. NoneLost'
    <2> SUFFICES ASSUME NEW d \in Collections, NEW n \in 1..managers[d]
                 PROVE  \/ \E p \in Requests : /\ Uses(p)'
                                               /\ handler'[p].collection = d
                                               /\ handler'[p].manager = n
                        \/ \E i \in 1..Len(idle'[d]) : idle'[d][i] = n
      <3>1. managers' = managers
        BY <1>2
      <3> QED
        BY <3>1 DEF NoneLost
    <2>1. CASE \E p \in Requests : Uses(p) /\ handler[p].collection = d /\ handler[p].manager = n
      <3>1. PICK p \in Requests : Uses(p) /\ handler[p].collection = d /\ handler[p].manager = n
        BY <2>1
      <3>2. handler'[p] = handler[p] /\ Uses(p)'
        BY <1>5, <3>1
      <3> QED
        BY <3>1, <3>2
    <2>2. CASE \E i \in 1..Len(idle[d]) : idle[d][i] = n
      <3>1. PICK i \in 1..Len(idle[d]) : idle[d][i] = n
        BY <2>2
      <3>2. CASE d = c /\ i = L
        BY <1>3, <1>5, <3>1, <3>2 DEF m
      <3>3. CASE d = c /\ i # L
        <4>1. i \in 1..L - 1
          BY <1>1, <3>1, <3>3 DEF L
        <4> QED
          BY <1>4, <3>1, <3>3, <4>1
      <3>4. CASE d # c
        BY <1>4, <3>1, <3>4
      <3> QED
        BY <3>2, <3>3, <3>4
    <2> QED
      BY <2>1, <2>2 DEF PoolInv, NoneLost
  <1> QED
    BY <1>7, <1>9, <1>10, <1>12, <1>13 DEF PoolInv

\* With none idle it gets a new one.
LEMMA TakesNew ==
  ASSUME HandlerType, PoolType, PoolInv, NEW q \in Requests, ~Uses(q), Connect(q),
         idle[handler[q].collection] = <<>>
  PROVE  PoolInv'
  <1> DEFINE c == handler[q].collection
             m == managers[c] + 1
             h == [handler[q] EXCEPT !.at = "exists", !.manager = m]
  <1>1. c \in Collections /\ managers[c] \in Nat /\ Len(idle[c]) = 0
    BY CollectionOf, EmptySeq
  <1>2. /\ managers' = [managers EXCEPT ![c] = m]
        /\ handler' = [handler EXCEPT ![q] = h]
        /\ idle' = idle
    BY DEF Connect
  <1>3. h.at = "exists" /\ h.collection = c /\ h.manager = m
    BY DEF HandlerType, Handlers
  <1>4. managers'[c] = m /\ \A d \in Collections : d # c => managers'[d] = managers[d]
    BY <1>1, <1>2 DEF PoolType
  <1> HIDE DEF h
  <1>5. /\ handler'[q] = h /\ Uses(q)'
        /\ \A p \in Requests : p # q => handler'[p] = handler[p] /\ Uses(p)' = Uses(p)
    BY <1>2, <1>3 DEF HandlerType, Uses
  <1>6. UsersHaveOne'
    <2> SUFFICES ASSUME NEW p \in Requests
                 PROVE  IF Uses(p)' THEN handler'[p].manager \in 1..managers'[handler'[p].collection]
                                    ELSE handler'[p].manager = 0
      BY DEF UsersHaveOne
    <2>1. CASE p = q
      BY <1>1, <1>3, <1>4, <1>5, <2>1
    <2>2. CASE p # q
      <3>1. handler[p].collection \in Collections
        BY CollectionOf
      <3>2. IF Uses(p) THEN handler[p].manager \in 1..managers[handler[p].collection]
                       ELSE handler[p].manager = 0
        BY DEF PoolInv, UsersHaveOne
      <3>3. handler'[p] = handler[p] /\ Uses(p)' = Uses(p)
        BY <1>5, <2>2
      <3>4. managers[handler[p].collection] <= managers'[handler[p].collection]
        <4>1. managers[handler[p].collection] \in Nat /\ managers[c] <= m
          BY <1>1, CollectionOf
        <4> QED
          BY <1>4, <3>1, <4>1
      <3>5. managers'[handler[p].collection] \in Nat
        <4>1. managers[handler[p].collection] \in Nat /\ m \in Nat
          BY <1>1, CollectionOf
        <4> QED
          BY <1>4, <3>1, <4>1
      <3>6. CASE Uses(p)
        BY <3>2, <3>3, <3>4, <3>5, <3>6, CollectionOf
      <3>7. CASE ~Uses(p)
        BY <3>2, <3>3, <3>7
      <3> QED
        BY <3>6, <3>7
    <2> QED
      BY <2>1, <2>2
  <1>7. NoneShared'
    <2>1. \A p \in Requests : Uses(p) /\ handler[p].collection = c => handler[p].manager # m
      BY <1>1 DEF PoolInv, UsersHaveOne
    <2> QED
      BY <1>3, <1>5, <2>1 DEF PoolInv, NoneShared
  <1>8. IdleOnce'
    <2> SUFFICES ASSUME NEW d \in Collections, NEW i \in 1..Len(idle[d]), NEW j \in 1..Len(idle[d])
                 PROVE  idle[d][i] \in 1..managers'[d] /\ (i # j => idle[d][i] # idle[d][j])
      BY <1>2 DEF IdleOnce
    <2>1. d # c
      BY <1>1
    <2> QED
      BY <1>4, <2>1 DEF PoolInv, IdleOnce
  <1>9. UsedIsNotIdle'
    <2> SUFFICES ASSUME NEW p \in Requests, Uses(p)', NEW i \in 1..Len(idle[handler'[p].collection])
                 PROVE  idle[handler'[p].collection][i] # handler'[p].manager
      BY <1>2 DEF UsedIsNotIdle
    <2>1. p # q
      BY <1>1, <1>3, <1>5
    <2> QED
      BY <1>5, <2>1 DEF PoolInv, UsedIsNotIdle
  <1>10. NoneLost'
    <2> SUFFICES ASSUME NEW d \in Collections, NEW n \in 1..managers'[d]
                 PROVE  \/ \E p \in Requests : /\ Uses(p)'
                                               /\ handler'[p].collection = d
                                               /\ handler'[p].manager = n
                        \/ \E i \in 1..Len(idle[d]) : idle[d][i] = n
      BY <1>2 DEF NoneLost
    <2>1. CASE d = c /\ n = m
      BY <1>3, <1>5, <2>1
    <2>2. CASE ~(d = c /\ n = m)
      <3>1. n \in 1..managers[d]
        BY <1>1, <1>4, <2>2
      <3>2. \/ \E p \in Requests : /\ Uses(p) /\ handler[p].collection = d
                                   /\ handler[p].manager = n
            \/ \E i \in 1..Len(idle[d]) : idle[d][i] = n
        BY <3>1 DEF PoolInv, NoneLost
      <3> QED
        BY <1>5, <3>2
    <2> QED
      BY <2>1, <2>2
  <1> QED
    BY <1>6, <1>7, <1>8, <1>9, <1>10 DEF PoolInv


\* The finally block puts it back.
LEMMA PutsBack ==
  ASSUME HandlerType, PoolType, PoolInv, NEW q \in Requests, Uses(q),
         NEW status \in Statuses, Leave(q, status), managers' = managers
  PROVE  PoolInv'
  <1> DEFINE c == handler[q].collection
             L == Len(idle[c])
             m == handler[q].manager
  <1>1. c \in Collections /\ idle[c] \in Seq(Nat) /\ L \in Nat
    BY CollectionOf
  <1>2. m \in 1..managers[c] /\ managers[c] \in Nat
    BY CollectionOf DEF PoolInv, UsersHaveOne
  <1>3. /\ idle'[c] = Append(idle[c], m)
        /\ \A d \in Collections : d # c => idle'[d] = idle[d]
    BY <1>1 DEF Leave, PoolType
  <1>4. /\ Len(idle'[c]) = L + 1 /\ idle'[c][L + 1] = m
        /\ \A i \in 1..L : idle'[c][i] = idle[c][i]
    BY <1>1, <1>2, <1>3, AppendProperties
  <1>5. /\ handler'[q].manager = 0 /\ ~Uses(q)'
        /\ \A p \in Requests : p # q => handler'[p] = handler[p]
    <2>1. CASE handler[q].open
      <3> DEFINE h == [handler[q] EXCEPT !.at = status, !.manager = 0]
      <3>1. handler' = [handler EXCEPT ![q] = h]
        BY <2>1 DEF Leave, Respond
      <3>2. h.at \notin {"exists", "search"} /\ h.manager = 0
        BY DEF HandlerType, Handlers, Statuses
      <3> HIDE DEF h
      <3> QED
        BY <3>1, <3>2 DEF HandlerType, Uses
    <2>2. CASE ~handler[q].open
      <3>1. handler' = [handler EXCEPT ![q] = Absent]
        BY <2>2 DEF Leave, Respond, Forget
      <3>2. Absent.at = "absent" /\ Absent.manager = 0
        BY DEF Absent
      <3> HIDE DEF Absent
      <3> QED
        BY <3>1, <3>2 DEF HandlerType, Uses
    <2> QED
      BY <2>1, <2>2
  <1> HIDE DEF m, L
  <1>6. \A p \in Requests : Uses(p)' => p # q /\ Uses(p) /\ handler'[p] = handler[p]
    BY <1>5 DEF Uses
  <1>7. \A p \in Requests : p # q /\ Uses(p) => Uses(p)' /\ handler'[p] = handler[p]
    BY <1>5 DEF Uses
  <1>8. UsersHaveOne'
    BY <1>5, <1>6, <1>7 DEF PoolInv, UsersHaveOne
  <1>9. NoneShared'
    BY <1>6 DEF PoolInv, NoneShared
  <1>10. \A i \in 1..L : idle[c][i] # m
    BY <1>1 DEF PoolInv, UsedIsNotIdle, L, m
  <1>11. IdleOnce'
    <2> SUFFICES ASSUME NEW d \in Collections, NEW i \in 1..Len(idle'[d]), NEW j \in 1..Len(idle'[d])
                 PROVE  idle'[d][i] \in 1..managers[d] /\ (i # j => idle'[d][i] # idle'[d][j])
      BY DEF IdleOnce
    <2>1. CASE d # c
      BY <1>3, <2>1, IdleFacts
    <2>2. CASE d = c
      <3>1. /\ i \in 1..L \/ i = L + 1
            /\ j \in 1..L \/ j = L + 1
        BY <1>1, <1>4, <2>2
      <3>2. CASE i \in 1..L /\ j \in 1..L
        <4>1. idle[c][i] \in 1..managers[c] /\ (i # j => idle[c][i] # idle[c][j])
          BY <1>1, <3>2, IdleFacts DEF L
        <4> QED
          BY <1>4, <2>2, <3>2, <4>1
      <3>3. CASE i = L + 1 \/ j = L + 1
        <4>1. i \in 1..L => idle[c][i] \in 1..managers[c]
          BY <1>1, IdleFacts DEF L
        <4> QED
          BY <1>2, <1>4, <1>10, <2>2, <3>1, <3>3, <4>1
      <3> QED
        BY <3>1, <3>2, <3>3
    <2> QED
      BY <2>1, <2>2
  <1>12. UsedIsNotIdle'
    <2> SUFFICES ASSUME NEW p \in Requests, Uses(p)', NEW i \in 1..Len(idle'[handler'[p].collection])
                 PROVE  idle'[handler'[p].collection][i] # handler'[p].manager
      BY DEF UsedIsNotIdle
    <2>1. p # q /\ Uses(p) /\ handler'[p] = handler[p] /\ handler[p].collection \in Collections
      BY <1>6, CollectionOf
    <2>2. CASE handler[p].collection # c
      BY <1>3, <2>1, <2>2 DEF PoolInv, UsedIsNotIdle
    <2>3. CASE handler[p].collection = c
      <3>1. i \in 1..L \/ i = L + 1
        BY <1>1, <1>4, <2>1, <2>3
      <3>2. handler[p].manager # m
        BY <2>1, <2>3 DEF PoolInv, NoneShared, m
      <3>3. i \in 1..L => idle[c][i] # handler[p].manager
        BY <2>1, <2>3 DEF PoolInv, UsedIsNotIdle, L
      <3> QED
        BY <1>4, <2>1, <2>3, <3>1, <3>2, <3>3
    <2> QED
      BY <2>2, <2>3
  <1>13. NoneLost'
    <2> SUFFICES ASSUME NEW d \in Collections, NEW n \in 1..managers[d]
                 PROVE  \/ \E p \in Requests : /\ Uses(p)'
                                               /\ handler'[p].collection = d
                                               /\ handler'[p].manager = n
                        \/ \E i \in 1..Len(idle'[d]) : idle'[d][i] = n
      BY DEF NoneLost
    <2>1. CASE d = c /\ n = m
      <3>1. L + 1 \in 1..Len(idle'[c])
        BY <1>1, <1>4
      <3> QED
        BY <1>4, <2>1, <3>1
    <2>2. CASE \E p \in Requests : /\ Uses(p) /\ handler[p].collection = d
                                   /\ handler[p].manager = n /\ ~(d = c /\ n = m)
      BY <1>7, <2>2 DEF m
    <2>3. CASE \E i \in 1..Len(idle[d]) : idle[d][i] = n
      <3>1. PICK i \in 1..Len(idle[d]) : idle[d][i] = n
        BY <2>3
      <3>2. CASE d # c
        BY <1>3, <3>1, <3>2
      <3>3. CASE d = c
        <4>1. i \in 1..L /\ i \in 1..Len(idle'[c])
          BY <1>1, <1>4, <3>1, <3>3 DEF L
        <4> QED
          BY <1>4, <3>1, <3>3, <4>1
      <3> QED
        BY <3>2, <3>3
    <2> QED
      BY <2>1, <2>2, <2>3 DEF PoolInv, NoneLost
  <1> QED
    BY <1>8, <1>9, <1>11, <1>12, <1>13 DEF PoolInv

\* Where a request goes without the pool.
LEMMA MoveToHolds ==
  ASSUME HandlerType, PoolInv, NEW q \in Requests, NEW place, MoveTo(q, place),
         Uses(q) <=> place \in {"exists", "search"}
  PROVE  \A p \in Requests : KeepsHold(p)
  <1> DEFINE h == [handler[q] EXCEPT !.at = place]
  <1>1. handler' = [handler EXCEPT ![q] = h]
    BY DEF MoveTo
  <1>2. h.at = place /\ h.collection = handler[q].collection /\ h.manager = handler[q].manager
    BY DEF HandlerType, Handlers
  <1> HIDE DEF h
  <1>3. handler'[q] = h /\ \A p \in Requests : p # q => handler'[p] = handler[p]
    BY <1>1 DEF HandlerType
  <1>4. KeepsHold(q)
    <2>1. ~Uses(q) => handler[q].manager = 0
      BY DEF PoolInv, UsersHaveOne
    <2> QED
      BY <1>2, <1>3, <2>1 DEF KeepsHold, Uses
  <1> QED
    BY <1>3, <1>4, Untouched

\* A request that holds nothing is replaced by one that holds nothing.
LEMMA ReplaceHolds ==
  ASSUME HandlerType, PoolInv, NEW q, NEW h, handler' = [handler EXCEPT ![q] = h],
         q \in Requests => ~Uses(q), h.at \notin {"exists", "search"}, h.manager = 0
  PROVE  \A p \in Requests : KeepsHold(p)
  <1> SUFFICES ASSUME NEW p \in Requests
               PROVE  KeepsHold(p)
    OBVIOUS
  <1>1. CASE p = q
    BY <1>1 DEF HandlerType, KeepsHold, Uses
  <1>2. CASE p # q
    <2>1. handler'[p] = handler[p]
      BY <1>2 DEF HandlerType
    <2> QED
      BY <2>1, Untouched
  <1> QED
    BY <1>1, <1>2

LEMMA ForgetHolds ==
  ASSUME HandlerType, PoolInv, NEW q, Forget(q), q \in Requests => ~Uses(q)
  PROVE  \A p \in Requests : KeepsHold(p)
  <1>1. Absent.at = "absent" /\ Absent.manager = 0
    BY DEF Absent
  <1>2. handler' = [handler EXCEPT ![q] = Absent]
    BY DEF Forget
  <1> HIDE DEF Absent
  <1> QED
    BY <1>1, <1>2, ReplaceHolds

\* Hanging up takes a manager from nobody: the handler goes on.
LEMMA HangUpHolds ==
  ASSUME HandlerType, PoolInv, NEW q, HangUp(q)
  PROVE  \A p \in Requests : KeepsHold(p)
  <1>1. CASE handler[q].at \in Statuses /\ Forget(q)
    BY <1>1, ForgetHolds DEF Uses, Statuses
  <1>2. CASE handler' = [handler EXCEPT ![q] = [handler[q] EXCEPT !.open = FALSE]]
    <2> SUFFICES ASSUME NEW p \in Requests
                 PROVE  KeepsHold(p)
      OBVIOUS
    <2> DEFINE h == [handler[q] EXCEPT !.open = FALSE]
    <2>1. CASE p = q
      <3>1. /\ h.at = handler[q].at /\ h.collection = handler[q].collection
            /\ h.manager = handler[q].manager
        BY <2>1 DEF HandlerType, Handlers
      <3>2. handler'[q] = h
        BY <1>2, <2>1 DEF HandlerType
      <3> HIDE DEF h
      <3>3. ~Uses(q) => handler[q].manager = 0
        BY <2>1 DEF PoolInv, UsersHaveOne
      <3> QED
        BY <2>1, <3>1, <3>2, <3>3 DEF KeepsHold, Uses
    <2>2. CASE p # q
      <3>1. handler'[p] = handler[p]
        BY <1>2, <2>2 DEF HandlerType
      <3> QED
        BY <3>1, Untouched
    <2> QED
      BY <2>1, <2>2
  <1> QED
    BY <1>1, <1>2 DEF HangUp

LEMMA WorkKeepsPool ==
  ASSUME HandlerType, PoolType, PoolInv, NEW q \in Requests, Work(q) \/ WorkFails(q)
  PROVE  PoolInv'
  <1>1. CASE MoveTo(q, "model") /\ ~Uses(q) /\ UNCHANGED <<idle, managers>>
    BY <1>1, MoveToHolds, HoldsKept
  <1>2. CASE MoveTo(q, "loading") /\ ~Uses(q) /\ UNCHANGED <<idle, managers>>
    BY <1>2, MoveToHolds, HoldsKept
  <1>3. CASE MoveTo(q, "building") /\ ~Uses(q) /\ UNCHANGED <<idle, managers>>
    BY <1>3, MoveToHolds, HoldsKept
  <1>4. CASE MoveTo(q, "search") /\ Uses(q) /\ UNCHANGED <<idle, managers>>
    BY <1>4, MoveToHolds, HoldsKept
  <1>5. CASE Connect(q) /\ ~Uses(q)
    BY <1>5, TakesIdle, TakesNew
  <1>6. CASE Respond(q, "error") /\ ~Uses(q) /\ UNCHANGED <<idle, managers>>
    <2>1. CASE Forget(q)
      BY <1>6, <2>1, ForgetHolds, HoldsKept
    <2>2. CASE handler' = [handler EXCEPT ![q] = [handler[q] EXCEPT !.at = "error", !.manager = 0]]
      <3> DEFINE h == [handler[q] EXCEPT !.at = "error", !.manager = 0]
      <3>1. h.at = "error" /\ h.manager = 0
        BY DEF HandlerType, Handlers
      <3>2. handler' = [handler EXCEPT ![q] = h]
        BY <2>2
      <3> HIDE DEF h
      <3> QED
        BY <1>6, <3>1, <3>2, ReplaceHolds, HoldsKept
    <2> QED
      BY <1>6, <2>1, <2>2 DEF Respond
  <1>7. CASE (\E status \in Statuses : Leave(q, status)) /\ Uses(q) /\ UNCHANGED managers
    BY <1>7, PutsBack
  <1>8. CASE ReadConfig(q)
    BY <1>1, <1>8 DEF ReadConfig, Uses
  <1>9. CASE EnterModel(q)
    BY <1>2, <1>5, <1>9 DEF EnterModel, Uses
  <1>10. CASE BeginBuild(q)
    BY <1>3, <1>5, <1>10 DEF BeginBuild, Uses
  <1>11. CASE Build(q)
    BY <1>5, <1>11 DEF Build, Uses
  <1>12. CASE BuildFails(q)
    BY <1>6, <1>12 DEF BuildFails, Uses
  <1>13. CASE CheckExists(q)
    BY <1>4, <1>7, <1>13 DEF CheckExists, RaisedAs, Uses, Statuses
  <1>14. CASE CheckFails(q)
    BY <1>7, <1>14 DEF CheckFails, RaisedAs, Uses, Statuses
  <1>15. CASE Search(q)
    BY <1>7, <1>15 DEF Search, Uses, Statuses
  <1>16. CASE SearchFails(q)
    BY <1>7, <1>16 DEF SearchFails, Uses, Statuses
  <1> QED
    BY <1>8, <1>9, <1>10, <1>11, <1>12, <1>13, <1>14, <1>15, <1>16 DEF Work, WorkFails

\* A step of the service wakes no request that was not sent.
LEMMA WorkNeedsRequest ==
  ASSUME HandlerType, NEW q \in Requests, Work(q) \/ WorkFails(q)
  PROVE  handler[q].at # "absent" /\ \A p \in Requests : p # q => handler'[p] = handler[p]
  BY DEF Work, WorkFails, ReadConfig, EnterModel, BeginBuild, Build, BuildFails, CheckExists,
         CheckFails, Search, SearchFails, MoveTo, Connect, Leave, Respond, Forget, Statuses,
         HandlerType

LEMMA ServiceKeepsPool ==
  ASSUME ServiceInv, PoolInv, UnsentInv, QueryStep, UNCHANGED clientVars
  PROVE  PoolInv' /\ UnsentInv'
  <1>1. \A p \in Requests : Unsent(p)' <=> Unsent(p)
    BY DEF clientVars, Unsent
  <1>2. ASSUME NEW q \in Requests, Work(q) \/ WorkFails(q)
        PROVE  PoolInv' /\ UnsentInv'
    BY <1>1, <1>2, ServiceTypes, WorkKeepsPool, WorkNeedsRequest DEF UnsentInv
  <1>3. CASE \E c \in Collections : EnsureCollection(c) \/ UpsertPoints(c)
    <2>1. UNCHANGED <<handler, idle, managers>>
      BY <1>3 DEF EnsureCollection, UpsertPoints
    <2> QED
      BY <1>1, <2>1, Untouched, HoldsKept DEF UnsentInv
  <1>4. CASE RagRestart
    <2>1. \A q \in Requests : handler'[q] = Absent
      BY <1>4 DEF RagRestart, FreshProcess
    <2>2. Absent.at = "absent" /\ Absent.manager = 0
      BY DEF Absent
    <2>3. \A c \in Collections : idle'[c] = <<>> /\ managers'[c] = 0
      BY <1>4 DEF RagRestart, FreshProcess
    <2>4. \A c \in Collections : Len(idle'[c]) = 0
      BY <2>3, EmptySeq
    <2> HIDE DEF Absent
    <2>5. \A q \in Requests : ~Uses(q)' /\ handler'[q].manager = 0
      BY <2>1, <2>2 DEF Uses
    <2>6. UsersHaveOne' /\ NoneShared' /\ UsedIsNotIdle'
      BY <2>5 DEF UsersHaveOne, NoneShared, UsedIsNotIdle
    <2>7. IdleOnce' /\ NoneLost'
      BY <2>3, <2>4 DEF IdleOnce, NoneLost
    <2>8. UnsentInv'
      BY <2>1, <2>2 DEF UnsentInv
    <2> QED
      BY <2>6, <2>7, <2>8 DEF PoolInv
  <1> QED
    BY <1>2, <1>3, <1>4 DEF QueryStep

\* What a run does to the requests: a new one was not sent before, and a later
\* one is not sent yet.
Orderly ==
  /\ \A p \in Requests : KeepsHold(p)
  /\ \A p \in Requests : Unsent(p)' => handler'[p].at = "absent"

LEMMA ArriveIsOrderly ==
  ASSUME HandlerType, PoolInv, NEW q \in Requests, NEW c \in Collections, Arrive(q, c),
         handler[q].at = "absent",
         \A p \in Requests : Unsent(p)' => p # q /\ handler[p].at = "absent"
  PROVE  Orderly
  <1> DEFINE h == [at |-> "config", collection |-> c, manager |-> 0, open |-> TRUE]
  <1>1. handler' = [handler EXCEPT ![q] = h] /\ h.at = "config" /\ h.manager = 0
    BY DEF Arrive
  <1> HIDE DEF h
  <1>2. \A p \in Requests : KeepsHold(p)
    BY <1>1, ReplaceHolds DEF Uses
  <1>3. \A p \in Requests : p # q => handler'[p] = handler[p]
    BY <1>1 DEF HandlerType
  <1> QED
    BY <1>2, <1>3 DEF Orderly

LEMMA GivenUpIsOrderly ==
  ASSUME HandlerType, ClientInv, PoolInv, UnsentInv, NEW r \in Runs, NEW q,
         \/ UNCHANGED handler
         \/ HangUp(q)
         \/ Forget(q) /\ handler[q].at \in Statuses,
         UNCHANGED calls,
         \A p \in Runs : p # r => retrieval'[p] = retrieval[p],
         \/ retrieval'[r].pc = "idle"
         \/ retrieval[r].pc # "idle" /\ retrieval'[r].attempt = retrieval[r].attempt
  PROVE  Orderly
  <1>1. \A p \in Requests : KeepsHold(p)
    BY Untouched, HangUpHolds, ForgetHolds DEF Uses, Statuses
  <1>2. \A p \in Requests : handler'[p].at \in {handler[p].at, "absent"}
    BY HangUpMoves, ForgetMoves DEF OnlyMoves
  <1>3. \A p \in Requests : Unsent(p)' => Unsent(p)
    <2> SUFFICES ASSUME NEW p \in Requests, Unsent(p)'
                 PROVE  Unsent(p)
      OBVIOUS
    <2>1. p[1] \in Runs
      OBVIOUS
    <2> QED
      BY <2>1 DEF Unsent
  <1> QED
    BY <1>1, <1>2, <1>3 DEF Orderly, UnsentInv

LEMMA PausedOrEnded ==
  ASSUME ClientInv, NEW r \in Runs, NEW c, NEW outcome, EndCall(r, c, outcome) \/ RetryOrFail(r)
  PROVE  /\ \A p \in Runs : p # r => retrieval'[p] = retrieval[p]
         /\ retrieval'[r].pc = "idle" \/ retrieval'[r].attempt = retrieval[r].attempt
  <1>1. ASSUME NEW d, NEW o, EndCall(r, d, o)
        PROVE  /\ \A p \in Runs : p # r => retrieval'[p] = retrieval[p]
               /\ retrieval'[r].pc = "idle"
    <2>1. retrieval' = [retrieval EXCEPT ![r] = NoCall] /\ NoCall.pc = "idle"
      BY <1>1 DEF EndCall, NoCall
    <2> HIDE DEF NoCall
    <2> QED
      BY <2>1 DEF ClientInv
  <1>2. CASE Pause(r)
    <2> DEFINE t == [retrieval[r] EXCEPT !.pc = "sleeping"]
    <2>1. retrieval' = [retrieval EXCEPT ![r] = t] /\ t.attempt = retrieval[r].attempt
      BY <1>2, RetrievalOf DEF Pause, Retrievals
    <2> HIDE DEF t
    <2> QED
      BY <2>1 DEF ClientInv
  <1> QED
    BY <1>1, <1>2 DEF RetryOrFail

LEMMA CallIsOrderly ==
  ASSUME ServiceInv, ClientInv, PoolInv, UnsentInv, NEW r \in Runs, NEW c \in Collections,
         RunRagCall(r, c)
  PROVE  Orderly
  <1>1. /\ calls[r] \in Nat /\ calls[r] < MaxCalls
        /\ calls' = [calls EXCEPT ![r] = calls[r] + 1]
    BY DEF RunRagCall, ClientInv
  <1>2. calls'[r] = calls[r] + 1 /\ \A p \in Runs : p # r => calls'[p] = calls[p]
    BY <1>1 DEF ClientInv
  <1>3. CASE cancelled[r]
    <2>1. EndCall(r, c, "failed") /\ UNCHANGED handler
      BY <1>3 DEF RunRagCall
    <2>2. /\ retrieval'[r].pc = "idle"
          /\ \A p \in Runs : p # r => retrieval'[p] = retrieval[p]
      <3>1. retrieval' = [retrieval EXCEPT ![r] = NoCall] /\ NoCall.pc = "idle"
        BY <2>1 DEF EndCall, NoCall
      <3> HIDE DEF NoCall
      <3> QED
        BY <3>1 DEF ClientInv
    <2>3. \A p \in Requests : Unsent(p)' => Unsent(p)
      <3> SUFFICES ASSUME NEW p \in Requests, Unsent(p)'
                   PROVE  Unsent(p)
        OBVIOUS
      <3>1. p[1] \in Runs /\ p[2] \in Nat
        OBVIOUS
      <3> QED
        BY <1>1, <1>2, <2>2, <3>1 DEF Unsent
    <2> QED
      BY <2>1, <2>3, Untouched DEF Orderly, UnsentInv
  <1>4. CASE ~cancelled[r]
    <2> DEFINE t == [pc |-> "fetching", attempt |-> 1, collection |-> c, armed |-> TRUE]
               q == <<r, calls[r] + 1, 1>>
    <2>1. retrieval' = [retrieval EXCEPT ![r] = t] /\ Arrive(q, c) /\ t.attempt = 1
      BY <1>4 DEF RunRagCall
    <2>2. q \in Requests /\ q[1] = r /\ q[2] = calls[r] + 1 /\ q[3] = 1
      <3>1. calls[r] + 1 \in 1..MaxCalls /\ 1 \in 1..Retries + 1
        BY <1>1
      <3> QED
        BY <3>1
    <2> HIDE DEF t, q
    <2>3. retrieval'[r].attempt = 1 /\ \A p \in Runs : p # r => retrieval'[p] = retrieval[p]
      BY <2>1 DEF ClientInv
    <2>4. handler[q].at = "absent"
      BY <1>1, <2>2 DEF UnsentInv, Unsent
    <2>5. \A p \in Requests : Unsent(p)' => p # q /\ handler[p].at = "absent"
      <3> SUFFICES ASSUME NEW p \in Requests, Unsent(p)'
                   PROVE  p # q /\ Unsent(p)
        BY DEF UnsentInv
      <3>1. p[1] \in Runs /\ p[2] \in Nat /\ p[3] \in Nat
        OBVIOUS
      <3>2. p # q
        BY <1>1, <1>2, <2>2, <2>3 DEF Unsent
      <3>3. Unsent(p)
        BY <1>1, <1>2, <2>2, <2>3, <3>1 DEF Unsent
      <3> QED
        BY <3>2, <3>3
    <2> QED
      BY <2>1, <2>2, <2>4, <2>5, ServiceTypes, ArriveIsOrderly
  <1> QED
    BY <1>3, <1>4

LEMMA RetryIsOrderly ==
  ASSUME ServiceInv, ClientInv, PoolInv, UnsentInv, NEW r \in Runs, Retry(r)
  PROVE  Orderly
  <1> DEFINE a == retrieval[r].attempt
             t == [retrieval[r] EXCEPT !.pc = "fetching", !.attempt = a + 1]
             q == <<r, calls[r], a + 1>>
  <1>1. /\ retrieval[r].pc = "sleeping" /\ retrieval' = [retrieval EXCEPT ![r] = t]
        /\ Arrive(q, retrieval[r].collection) /\ UNCHANGED calls
    BY DEF Retry
  <1>2. t.pc = "fetching" /\ t.attempt = a + 1 /\ a \in Nat
    BY RetrievalOf DEF Retrievals
  <1>3. q[1] = r /\ q[2] = calls[r] /\ q[3] = a + 1
    OBVIOUS
  <1> HIDE DEF t
  <1>4. /\ retrieval'[r].pc = "fetching" /\ retrieval'[r].attempt = a + 1
        /\ \A p \in Runs : p # r => retrieval'[p] = retrieval[p]
    BY <1>1, <1>2 DEF ClientInv
  <1>5. \A p \in Requests : Unsent(p)' => p # q /\ handler[p].at = "absent"
    <2> SUFFICES ASSUME NEW p \in Requests, Unsent(p)'
                 PROVE  p # q /\ Unsent(p)
      BY DEF UnsentInv
    <2>1. p[1] \in Runs /\ p[2] \in Nat /\ p[3] \in Nat /\ calls[r] \in Nat
      BY DEF ClientInv
    <2> HIDE DEF a, q
    <2>2. p # q
      BY <1>1, <1>2, <1>3, <1>4, <2>1 DEF Unsent
    <2>3. Unsent(p)
      BY <1>1, <1>2, <1>4, <2>1 DEF Unsent, a
    <2> QED
      BY <2>2, <2>3
  <1>6. CASE q \in Requests
    <2>1. handler[q].at = "absent"
      <3>1. Unsent(q)
        BY <1>1, <1>2, <1>3 DEF Unsent
      <3> QED
        BY <1>6, <3>1 DEF UnsentInv
    <2> HIDE DEF q
    <2> QED
      BY <1>1, <1>5, <1>6, <2>1, ServiceTypes, RetrievalOf, ArriveIsOrderly
  <1>7. CASE q \notin Requests
    <2> HIDE DEF q
    <2>1. \A p \in Requests : handler'[p] = handler[p]
      BY <1>1, <1>7 DEF Arrive, ServiceInv, QueryTypeOK
    <2> QED
      BY <1>5, <2>1, Untouched DEF Orderly
  <1> QED
    BY <1>6, <1>7

LEMMA ClientKeepsPool ==
  ASSUME ServiceInv, ClientInv, PoolInv, UnsentInv, NEW r \in Runs, ClientStep(r)
  PROVE  PoolInv' /\ UnsentInv'
  <1>1. UNCHANGED <<idle, managers>>
    BY DEF ClientStep, RunRagCall, Answered, Broken, Foreign, Retry, Deadline, Cancel
  <1>2. ASSUME Orderly
        PROVE  PoolInv' /\ UnsentInv'
    BY <1>1, <1>2, HoldsKept DEF Orderly, UnsentInv
  <1>3. CASE \E c \in Collections : RunRagCall(r, c)
    BY <1>2, <1>3, CallIsOrderly
  <1>4. CASE Answered(r)
    <2>1. /\ handler[Current(r)].at \in Statuses /\ Forget(Current(r)) /\ UNCHANGED calls
          /\ retrieval[r].pc = "fetching"
          /\ RetryOrFail(r) \/ \E c, o : EndCall(r, c, o)
      BY <1>4 DEF Answered
    <2> QED
      BY <1>2, <2>1, ServiceTypes, PausedOrEnded, GivenUpIsOrderly
  <1>5. CASE Broken(r) \/ Foreign(r)
    <2>1. /\ UNCHANGED handler \/ HangUp(Current(r))
          /\ UNCHANGED calls /\ retrieval[r].pc = "fetching"
          /\ RetryOrFail(r) \/ \E c, o : EndCall(r, c, o)
      BY <1>5 DEF Broken, Foreign
    <2> QED
      BY <1>2, <2>1, ServiceTypes, PausedOrEnded, GivenUpIsOrderly
  <1>6. CASE Retry(r)
    BY <1>2, <1>6, RetryIsOrderly
  <1>7. CASE GiveUp(r) /\ UNCHANGED calls
    <2>1. /\ UNCHANGED handler \/ HangUp(Current(r))
          /\ \E c, o : EndCall(r, c, o)
      BY <1>7 DEF GiveUp
    <2>2. /\ \A p \in Runs : p # r => retrieval'[p] = retrieval[p]
          /\ retrieval'[r].pc = "idle"
      <3>1. retrieval' = [retrieval EXCEPT ![r] = NoCall] /\ NoCall.pc = "idle"
        BY <2>1 DEF EndCall, NoCall
      <3> HIDE DEF NoCall
      <3> QED
        BY <3>1 DEF ClientInv
    <2> QED
      BY <1>2, <1>7, <2>1, <2>2, ServiceTypes, GivenUpIsOrderly
  <1>8. CASE UNCHANGED <<handler, retrieval, calls>>
    <2>1. \A p \in Requests : Unsent(p)' <=> Unsent(p)
      BY <1>8 DEF Unsent
    <2> QED
      BY <1>1, <1>8, <2>1, Untouched, HoldsKept DEF UnsentInv
  <1>9. CASE Deadline(r) \/ Cancel(r)
    BY <1>7, <1>8, <1>9 DEF Deadline, Cancel
  <1> QED
    BY <1>3, <1>4, <1>5, <1>6, <1>9 DEF ClientStep

LEMMA PoolInductive ==
  IInv /\ PoolInv /\ UnsentInv /\ [Next]_vars => (PoolInv /\ UnsentInv)'
  <1> SUFFICES ASSUME ServiceInv, ClientInv, PoolInv, UnsentInv, [Next]_vars
               PROVE  PoolInv' /\ UnsentInv'
    BY Parts
  <1>1. CASE UNCHANGED vars
    <2>1. UNCHANGED <<handler, idle, managers, retrieval, calls>>
      BY <1>1 DEF vars, queryVars, clientVars
    <2>2. \A p \in Requests : Unsent(p)' <=> Unsent(p)
      BY <2>1 DEF Unsent
    <2> QED
      BY <2>1, <2>2, Untouched, HoldsKept DEF UnsentInv
  <1> QED
    BY <1>1, ServiceKeepsPool, ClientKeepsPool DEF Next

LEMMA PoolInitially == Init => PoolInv /\ UnsentInv
  <1> SUFFICES ASSUME Init
               PROVE  PoolInv /\ UnsentInv
    OBVIOUS
  <1>1. \A q \in Requests : handler[q] = Absent
    BY DEF Init, QueryInit, FreshProcess
  <1>2. Absent.at = "absent" /\ Absent.manager = 0
    BY DEF Absent
  <1>3. \A c \in Collections : idle[c] = <<>> /\ managers[c] = 0
    BY DEF Init, QueryInit, FreshProcess
  <1>4. \A c \in Collections : Len(idle[c]) = 0
    BY <1>3, EmptySeq
  <1> HIDE DEF Absent
  <1>5. \A q \in Requests : ~Uses(q) /\ handler[q].manager = 0
    BY <1>1, <1>2 DEF Uses
  <1>6. UsersHaveOne /\ NoneShared /\ UsedIsNotIdle
    BY <1>5 DEF UsersHaveOne, NoneShared, UsedIsNotIdle
  <1>7. IdleOnce /\ NoneLost
    BY <1>3, <1>4 DEF IdleOnce, NoneLost
  <1>8. UnsentInv
    BY <1>1, <1>2 DEF UnsentInv
  <1> QED
    BY <1>6, <1>7, <1>8 DEF PoolInv

LEMMA PoolCounts ==
  ASSUME PoolType, PoolInv
  PROVE  PoolIsWhole
  <1> SUFFICES ASSUME NEW c \in Collections, NEW n \in 1..managers[c]
               PROVE  Cardinality(Users(c, n)) + Cardinality(Resting(c, n)) = 1
    BY DEF PoolIsWhole
  <1>1. n # 0 /\ DOMAIN idle[c] = 1..Len(idle[c])
    BY DEF PoolType
  <1>2. \A q \in Users(c, n) : /\ q \in Requests /\ Uses(q)
                               /\ handler[q].collection = c /\ handler[q].manager = n
    BY <1>1 DEF Users, PoolInv, UsersHaveOne
  <1>3. \A i \in Resting(c, n) : i \in 1..Len(idle[c]) /\ idle[c][i] = n
    BY <1>1 DEF Resting
  <1>4. \A p, q \in Users(c, n) : p = q
    BY <1>2 DEF PoolInv, NoneShared
  <1>5. \A i, j \in Resting(c, n) : i = j
    BY <1>3, IdleFacts
  <1>6. Users(c, n) = {} \/ Resting(c, n) = {}
    BY <1>2, <1>3 DEF PoolInv, UsedIsNotIdle
  <1>7. Users(c, n) # {} \/ Resting(c, n) # {}
    BY <1>1 DEF PoolInv, NoneLost, Users, Resting
  <1>8. CASE Users(c, n) = {}
    <2>1. PICK i : Resting(c, n) = {i}
      BY <1>5, <1>7, <1>8
    <2>2. Cardinality(Users(c, n)) = 0
      BY <1>8, FS_EmptySet
    <2>3. Cardinality(Resting(c, n)) = 1
      BY <2>1, FS_Singleton
    <2> QED
      BY <2>2, <2>3
  <1>9. CASE Resting(c, n) = {}
    <2>1. PICK q : Users(c, n) = {q}
      BY <1>4, <1>7, <1>9
    <2>2. Cardinality(Resting(c, n)) = 0
      BY <1>9, FS_EmptySet
    <2>3. Cardinality(Users(c, n)) = 1
      BY <2>1, FS_Singleton
    <2> QED
      BY <2>2, <2>3
  <1> QED
    BY <1>6, <1>8, <1>9

\* For any number of overlapping requests, whatever fails, hangs up or is
\* repeated: a manager that was made is in the pool once or with one request.
THEOREM NoManagerIsLost == Spec => []PoolIsWhole
  <1>1. IInv /\ PoolInv => PoolIsWhole
    BY Parts, ServiceTypes, PoolCounts
  <1> QED
    BY <1>1, PoolInitially, PoolInductive, RagInvariant, PTL DEF Spec
=============================================================================
