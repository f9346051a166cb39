----------------------------- MODULE RagClient -----------------------------
(***************************************************************************)
(* Retrieval as the workflow sees it: retrieveFromCollection of            *)
(* mastra/tools/rag.ts, called through runRagCall of workflows/triage.ts by *)
(* the retrieve step of several runs, in front of the query service.       *)
(*                                                                         *)
(* A retrieval is fetched, retried after a pause, and cut by one deadline  *)
(* or by the run's abort signal. What the client gives up goes on at the   *)
(* service. A retrieval that fails is no error of the step: it counts as   *)
(* no hits, and the last answer for a collection is the one that counts.   *)
(***************************************************************************)
EXTENDS RagQuery

CONSTANTS
  Runs,      \* runs that retrieve at the same time
  MaxCalls,  \* retrievals of one retrieve step: its maxIterations
  Retries    \* attempts after the first

ASSUME ClientAssumption ==
  /\ MaxCalls \in Nat /\ Retries \in Nat
  /\ Requests = Runs \X (1..MaxCalls) \X (1..Retries + 1)

VARIABLES
  retrieval,   \* [Runs -> Retrievals] the call of runRagCall that is under way
  calls,       \* [Runs -> Nat] tool calls of the step so far
  cancelled,   \* [Runs -> BOOLEAN] the run's abort signal has fired
  found        \* [Runs -> [Collections -> Outcomes]] produceOutput's last wins

clientVars == <<retrieval, calls, cancelled, found>>
vars == <<queryVars, clientVars>>

Outcomes == {"unasked", "hits", "empty", "missing", "failed"}
Retrievals == [pc : {"idle", "fetching", "sleeping"}, attempt : 1..Retries + 1,
               collection : Collections, armed : BOOLEAN]
NoCall == [pc |-> "idle", attempt |-> 1, collection |-> CHOOSE c \in Collections : TRUE,
           armed |-> FALSE]

TypeOK ==
  /\ QueryTypeOK
  /\ retrieval \in [Runs -> Retrievals]
  /\ calls \in [Runs -> 0..MaxCalls]
  /\ cancelled \in [Runs -> BOOLEAN]
  /\ found \in [Runs -> [Collections -> Outcomes]]

ClientInit ==
  /\ retrieval = [r \in Runs |-> NoCall]
  /\ calls = [r \in Runs |-> 0]
  /\ cancelled = [r \in Runs |-> FALSE]
  /\ found = [r \in Runs |-> [c \in Collections |-> "unasked"]]

-----------------------------------------------------------------------------
Current(r) == <<r, calls[r], retrieval[r].attempt>>

\* The promise settles: the finally block clears the timer, runRagCall returns.
EndCall(r, c, outcome) ==
  /\ retrieval' = [retrieval EXCEPT ![r] = NoCall]
  /\ found' = [found EXCEPT ![r][c] = outcome]

\* A tool call of the retrieve step. With a signal that has fired already the
\* first fetch rejects before it leaves.
RunRagCall(r, c) ==
  /\ retrieval[r].pc = "idle" /\ calls[r] < MaxCalls
  /\ calls' = [calls EXCEPT ![r] = @ + 1]
  /\ IF cancelled[r]
     THEN EndCall(r, c, "failed") /\ UNCHANGED handler
     ELSE /\ retrieval' = [retrieval EXCEPT ![r] = [pc |-> "fetching", attempt |-> 1,
                                                    collection |-> c, armed |-> TRUE]]
          /\ Arrive(<<r, calls[r] + 1, 1>>, c)
          /\ UNCHANGED found
  /\ UNCHANGED <<vectors, idle, managers, queryModels, modelCache, builds, faults, cancelled>>

\* p-retry: a failure that may pass is tried again after a pause, while
\* attempts are left.
DisarmedRetry(r) ==    \* mutant: the timer is cleared at the end of each attempt
  /\ retrieval' = [retrieval EXCEPT ![r].pc = "sleeping", ![r].armed = FALSE]
  /\ UNCHANGED found

Pause(r) ==
  /\ retrieval' = [retrieval EXCEPT ![r].pc = "sleeping"]
  /\ UNCHANGED found

RetryOrFail(r) ==
  IF retrieval[r].attempt <= Retries THEN Pause(r)
                                     ELSE EndCall(r, retrieval[r].collection, "failed")

\* The service has answered the attempt. A 500 is tried again; a 404 is the
\* empty result.
Answered(r) ==
  LET q == Current(r)
      status == handler[q].at
  IN  /\ retrieval[r].pc = "fetching" /\ status \in Statuses
      /\ Forget(q)
      /\ IF status = "error" THEN RetryOrFail(r)
                             ELSE EndCall(r, retrieval[r].collection, status)
      /\ UNCHANGED <<vectors, idle, managers, queryModels, modelCache, builds, faults,
                     calls, cancelled>>

\* The connection broke: it was refused, or the service died under it.
Broken(r) ==
  /\ retrieval[r].pc = "fetching"
  /\ IF handler[Current(r)] = Absent THEN UNCHANGED <<handler, faults>>
                                     ELSE Fault /\ HangUp(Current(r))
  /\ RetryOrFail(r)
  /\ UNCHANGED <<vectors, idle, managers, queryModels, modelCache, builds,
                 calls, cancelled>>

\* Something at RAG_URL that is not this service answers: 408 and 429 are
\* tried again; any other 4xx and a body that does not parse are final.
Foreign(r) ==
  /\ retrieval[r].pc = "fetching"
  /\ Fault /\ HangUp(Current(r))
  /\ RetryOrFail(r) \/ EndCall(r, retrieval[r].collection, "failed")
  /\ UNCHANGED <<vectors, idle, managers, queryModels, modelCache, builds,
                 calls, cancelled>>

Retry(r) ==
  /\ retrieval[r].pc = "sleeping"
  /\ retrieval' = [retrieval EXCEPT ![r].pc = "fetching", ![r].attempt = @ + 1]
  /\ Arrive(<<r, calls[r], retrieval[r].attempt + 1>>, retrieval[r].collection)
  /\ UNCHANGED <<vectors, idle, managers, queryModels, modelCache, builds, faults,
                 calls, cancelled, found>>

\* The controller is aborted: the fetch is torn down, or the pause cut short.
GiveUp(r) ==
  /\ EndCall(r, retrieval[r].collection, "failed")
  /\ IF retrieval[r].pc = "fetching" THEN HangUp(Current(r)) ELSE UNCHANGED handler

\* The deadline of the whole call, over fetches and pauses.
Deadline(r) ==
  /\ retrieval[r].armed
  /\ GiveUp(r)
  /\ UNCHANGED <<vectors, idle, managers, queryModels, modelCache, builds, faults,
                 calls, cancelled>>

\* The run is aborted, with or without a call under way.
Cancel(r) ==
  /\ ~cancelled[r]
  /\ cancelled' = [cancelled EXCEPT ![r] = TRUE]
  /\ IF retrieval[r].pc # "idle" THEN GiveUp(r) ELSE UNCHANGED <<handler, retrieval, found>>
  /\ UNCHANGED <<vectors, idle, managers, queryModels, modelCache, builds, faults, calls>>

-----------------------------------------------------------------------------
Init == QueryInit /\ ClientInit

ClientStep(r) ==
  \/ \E c \in Collections : RunRagCall(r, c)
  \/ Answered(r) \/ Broken(r) \/ Foreign(r) \/ Retry(r) \/ Deadline(r) \/ Cancel(r)

Next ==
  \/ QueryStep /\ UNCHANGED clientVars
  \/ \E r \in Runs : ClientStep(r)

Spec == Init /\ [][Next]_vars

\* Timers fire. Nothing is assumed of the service, which may never answer.
Fairness == \A r \in Runs : WF_vars(Retry(r)) /\ WF_vars(Deadline(r))

FairSpec == Spec /\ Fairness

-----------------------------------------------------------------------------
\* A missing collection costs one request: as long as nothing has failed, the
\* error handling of the service and that of the client together never ask a
\* second time.
QuietServiceIsAskedOnce ==
  faults = 0 => \A q \in Requests : q[3] > 1 => handler[q].at = "absent"

\* Whatever the service does, and if it never answers, a retrieval ends.
EveryRetrievalEnds ==
  \A r \in Runs : (retrieval[r].pc # "idle") ~> (retrieval[r].pc = "idle")

\* Passages that a retrieval has found are there when the step ends, unless a
\* later retrieval has answered with others. A failed one replaces them.
FoundIsKept ==
  [][\A r \in Runs, c \in Collections :
       found[r][c] = "hits" => found'[r][c] # "failed"]_vars

=============================================================================
