------------------------------ MODULE GateSlots ------------------------------
(***************************************************************************)
(* The human-review gates of one run, as the event bus keeps them          *)
(* (services/agent/src/events/bus.ts): one slot register per gate step,    *)
(* the workflow that suspends on it, and the reviewers' submissions that   *)
(* reach it late, twice, out of order or not at all.                       *)
(*                                                                         *)
(* A run has one workflow coroutine, so at most one gate is awaited at a   *)
(* time; which gate it awaits next is left open here and is fixed by the   *)
(* TriageRun module.                                                       *)
(***************************************************************************)
EXTENDS Naturals, Sequences, FiniteSets

CONSTANTS
  Gates,        \* the values of GateStepId
  Submissions,  \* the clicks and POSTs reviewers may make, one verdict each
  TargetOf,     \* the gate a submission names in its stepId field
  Keys,         \* idempotency keys
  KeyOf,        \* the key a submission carries, or None
  None,
  MaxSlots,     \* bound: slots opened on one gate
  MaxSends      \* bound: times one submission is sent (first send + retries)

ASSUME GateAssumption ==
  /\ TargetOf \in [Submissions -> Gates]
  /\ KeyOf \in [Submissions -> Keys \union {None}]
  /\ None \notin Gates \union Submissions \union Keys
  /\ MaxSlots \in Nat
  /\ MaxSends \in Nat

VARIABLES
  committedDecision,  \* gate -> buffered decision, or None
  waiters,            \* gate -> number of parked wake-up callbacks
  idempotencyMap,     \* gate -> key -> decision cached in the current slot
  slotsResolved,      \* gate -> awaits that have resolved
  awaiting,           \* the gate the workflow is suspended on, or None
  handed,             \* the decision its promise resolved with, or None
  opened,             \* gate -> review.requested frames published
  inFlight,           \* submission -> copies on the wire
  sends,              \* submission -> copies sent so far
  decidedFrames,      \* gate -> review.decided frames published
  announced,          \* history: submissions a review.decided was published for
  arrivedIn,          \* history: gate -> slots opened when the buffered one came
  discarded,          \* history: gate -> stale decisions dropped by an await
  taken               \* history: gate -> the decision each slot resolved with

gateVars == <<committedDecision, waiters, idempotencyMap, slotsResolved>>
flowVars == <<awaiting, handed, opened>>
wireVars == <<inFlight, sends>>
histVars == <<decidedFrames, announced, arrivedIn, discarded, taken>>
vars == <<gateVars, flowVars, wireVars, histVars>>

EmptyMap == [k \in Keys |-> None]

\* Every end of a slot makes its idempotency scope a fresh one.
KeepScope(g) == UNCHANGED idempotencyMap
FreshScope(g) == idempotencyMap' = [idempotencyMap EXCEPT ![g] = EmptyMap]

\* A decision buffered before the first await of the gate ever resolved.
AnyBuffered(g) == TRUE
IsPreDelivery(g) == slotsResolved[g] = 0

\* the review.decided frame every committed decision puts on the timeline
Announce(s) ==
  /\ decidedFrames' = [decidedFrames EXCEPT ![TargetOf[s]] = @ + 1]
  /\ announced' = announced \union {s}

\* the slot of gate g resolves with s, which arrived after n slots were opened
ResolveUncounted(g, s, n) ==
  /\ UNCHANGED slotsResolved
  /\ FreshScope(g)
  /\ handed' = s
  /\ taken' = [taken EXCEPT ![g] = Append(@, [decision |-> s, during |-> n])]

Resolve(g, s, n) ==
  /\ slotsResolved' = [slotsResolved EXCEPT ![g] = @ + 1]
  /\ FreshScope(g)
  /\ handed' = s
  /\ taken' = [taken EXCEPT ![g] = Append(@, [decision |-> s, during |-> n])]

-----------------------------------------------------------------------------
(* Reviewers and the network.                                              *)

\* A reviewer (or a retrying HTTP client) sends a submission.  The UI renders
\* a decide button only after review.requested, a script needs no button, so
\* nothing ties the send to an open slot.
Send(s) ==
  /\ sends[s] < MaxSends
  /\ sends' = [sends EXCEPT ![s] = @ + 1]
  /\ inFlight' = [inFlight EXCEPT ![s] = @ + 1]
  /\ UNCHANGED <<gateVars, flowVars, histVars>>

\* The connection dies before the bytes reach the agent.
Lose(s) ==
  /\ inFlight[s] > 0
  /\ inFlight' = [inFlight EXCEPT ![s] = @ - 1]
  /\ UNCHANGED <<gateVars, flowVars, sends, histVars>>

-----------------------------------------------------------------------------
(* publishClientDecisionForStep: one atomic call per arriving copy.        *)

Arrive(s) ==
  /\ inFlight[s] > 0
  /\ inFlight' = [inFlight EXCEPT ![s] = @ - 1]
  /\ UNCHANGED sends

Cached(s) ==
  /\ KeyOf[s] # None
  /\ idempotencyMap[TargetOf[s]][KeyOf[s]] # None

\* no other decision is buffered on the gate
LastWriterWins(s) == TRUE
Accepts(s) == committedDecision[TargetOf[s]] = None

WaiterAssumed(s) == TRUE
HasWaiter(s) == waiters[TargetOf[s]] > 0

\* The key is cached in the current slot: the call returns the cached
\* decision and changes nothing.
Replay(s) ==
  /\ Arrive(s)
  /\ Cached(s)
  /\ UNCHANGED <<gateVars, flowVars, histVars>>

\* Another decision is buffered: ConflictError.
Conflict(s) ==
  /\ Arrive(s)
  /\ ~Cached(s)
  /\ ~Accepts(s)
  /\ UNCHANGED <<gateVars, flowVars, histVars>>

\* A waiter is parked: it is shifted and called, its callback closes the slot
\* (slotsResolved++, a fresh map), then review.decided is published.
Wake(s) ==
  LET g == TargetOf[s] IN
  /\ Arrive(s)
  /\ ~Cached(s)
  /\ Accepts(s)
  /\ HasWaiter(s)
  /\ waiters' = [waiters EXCEPT ![g] = @ - 1]
  /\ Resolve(g, s, opened[g])
  /\ Announce(s)
  /\ UNCHANGED <<committedDecision, awaiting, opened, arrivedIn, discarded>>

\* Nobody waits: the decision is buffered for the next await, its key cached,
\* and review.decided is published.
Buffer(s) ==
  LET g == TargetOf[s] IN
  /\ Arrive(s)
  /\ ~Cached(s)
  /\ Accepts(s)
  /\ ~HasWaiter(s)
  /\ committedDecision' = [committedDecision EXCEPT ![g] = s]
  /\ idempotencyMap' = IF KeyOf[s] = None THEN idempotencyMap
                       ELSE [idempotencyMap EXCEPT ![g][KeyOf[s]] = s]
  /\ arrivedIn' = [arrivedIn EXCEPT ![g] = opened[g]]
  /\ Announce(s)
  /\ UNCHANGED <<waiters, slotsResolved, flowVars, discarded, taken>>

Deliver(s) == Replay(s) \/ Conflict(s) \/ Wake(s) \/ Buffer(s)

-----------------------------------------------------------------------------
(* The workflow side: publish review.requested and, in the same tick,      *)
(* awaitDecisionForStep.                                                   *)

StartSlot(g) ==
  /\ awaiting = None
  /\ opened[g] < MaxSlots
  /\ awaiting' = g
  /\ opened' = [opened EXCEPT ![g] = @ + 1]
  /\ UNCHANGED <<wireVars, decidedFrames, announced, arrivedIn>>

\* slot 0 with a decision already buffered: legitimate pre-delivery
OpenConsume(g) ==
  /\ committedDecision[g] # None
  /\ IsPreDelivery(g)
  /\ StartSlot(g)
  /\ committedDecision' = [committedDecision EXCEPT ![g] = None]
  /\ Resolve(g, committedDecision[g], arrivedIn[g])
  /\ UNCHANGED <<waiters, discarded>>

\* a later slot with a decision buffered: stale, discarded, then wait
OpenDiscard(g) ==
  /\ committedDecision[g] # None
  /\ ~IsPreDelivery(g)
  /\ StartSlot(g)
  /\ committedDecision' = [committedDecision EXCEPT ![g] = None]
  /\ FreshScope(g)
  /\ waiters' = [waiters EXCEPT ![g] = @ + 1]
  /\ discarded' = [discarded EXCEPT ![g] = @ + 1]
  /\ UNCHANGED <<slotsResolved, handed, taken>>

OpenWait(g) ==
  /\ committedDecision[g] = None
  /\ StartSlot(g)
  /\ waiters' = [waiters EXCEPT ![g] = @ + 1]
  /\ UNCHANGED <<committedDecision, slotsResolved, idempotencyMap, handed,
                 discarded, taken>>

OpenSlot(g) == OpenConsume(g) \/ OpenDiscard(g) \/ OpenWait(g)

\* The continuation of the await runs.
Resume ==
  /\ handed # None
  /\ handed' = None
  /\ awaiting' = None
  /\ UNCHANGED <<gateVars, opened, wireVars, histVars>>

-----------------------------------------------------------------------------
Init ==
  /\ committedDecision = [g \in Gates |-> None]
  /\ waiters = [g \in Gates |-> 0]
  /\ idempotencyMap = [g \in Gates |-> EmptyMap]
  /\ slotsResolved = [g \in Gates |-> 0]
  /\ awaiting = None
  /\ handed = None
  /\ opened = [g \in Gates |-> 0]
  /\ inFlight = [s \in Submissions |-> 0]
  /\ sends = [s \in Submissions |-> 0]
  /\ decidedFrames = [g \in Gates |-> 0]
  /\ announced = {}
  /\ arrivedIn = [g \in Gates |-> 0]
  /\ discarded = [g \in Gates |-> 0]
  /\ taken = [g \in Gates |-> <<>>]

Next ==
  \/ \E s \in Submissions : Send(s) \/ Lose(s) \/ Deliver(s)
  \/ \E g \in Gates : OpenSlot(g)
  \/ Resume

Spec == Init /\ [][Next]_vars

\* The event loop delivers what has arrived and runs the continuation of a
\* resolved promise, and connections stay up.  No fairness on Send: a reviewer
\* may never answer.
ReliableNext ==
  \/ \E s \in Submissions : Send(s) \/ Deliver(s)
  \/ \E g \in Gates : OpenSlot(g)
  \/ Resume

FairSpec ==
  /\ Init
  /\ [][ReliableNext]_vars
  /\ \A s \in Submissions : WF_vars(Deliver(s))
  /\ WF_vars(Resume)

-----------------------------------------------------------------------------
(* Properties.                                                             *)

Decision == Submissions \union {None}

TypeOK ==
  /\ committedDecision \in [Gates -> Decision]
  /\ waiters \in [Gates -> Nat]
  /\ idempotencyMap \in [Gates -> [Keys -> Decision]]
  /\ slotsResolved \in [Gates -> Nat]
  /\ awaiting \in Gates \union {None}
  /\ handed \in Decision
  /\ opened \in [Gates -> 0..MaxSlots]
  /\ inFlight \in [Submissions -> Nat]
  /\ sends \in [Submissions -> 0..MaxSends]
  /\ decidedFrames \in [Gates -> Nat]
  /\ announced \in SUBSET Submissions
  /\ arrivedIn \in [Gates -> Nat]
  /\ discarded \in [Gates -> Nat]
  /\ taken \in [Gates -> Seq([decision : Submissions, during : Nat])]

\* A workflow suspended on a gate can be woken by whatever arrives next: one
\* callback is parked, no decision sits in the buffer it would never read, and
\* no cached key can turn the arriving decision into a replay (the hang the
\* StepGateState comment warns of).
WaiterIsReachable ==
  \A g \in Gates :
    IF awaiting = g /\ handed = None
    THEN /\ waiters[g] = 1
         /\ committedDecision[g] = None
         /\ idempotencyMap[g] = EmptyMap
    ELSE waiters[g] = 0

\* Only the first slot of a gate may resolve with a decision that arrived
\* before the slot opened; every later slot resolves with one that arrived
\* while it was open, so a decision on plan k never answers for plan k + 1.
StaleNeverConsumed ==
  \A g \in Gates : \A k \in DOMAIN taken[g] :
    taken[g][k].during = k \/ (k = 1 /\ taken[g][k].during = 0)

\* Every review.decided frame stands for exactly one decision that resolved a
\* slot, waits in the buffer or was discarded as stale, whatever was retried,
\* lost or refused.
DecidedFramesAccounted ==
  \A g \in Gates :
    decidedFrames[g] = slotsResolved[g] + discarded[g]
                       + (IF committedDecision[g] = None THEN 0 ELSE 1)

\* First writer wins: while a gate holds a decision (buffered, or handed to the
\* workflow and not yet resumed with) no later submission replaces it.
FirstWriterWins ==
  [][ /\ \A g \in Gates : committedDecision[g] # None =>
                            committedDecision'[g] \in {committedDecision[g], None}
      /\ handed # None => handed' \in {handed, None} ]_vars

\* A workflow suspended on a gate to which a submission is under way goes on.
ReviewedRunGoesOn ==
  \A g \in Gates :
    (awaiting = g /\ \E s \in Submissions : TargetOf[s] = g /\ inFlight[s] > 0)
      ~> (awaiting # g)

\* The register with its callbacks, keys and counters keeps the promise of
\* ReviewRounds: retries, losses and refused duplicates are stutters of it.
Rounds == INSTANCE ReviewRounds WITH
            question <- awaiting, answer <- handed,
            early <- committedDecision, rounds <- opened

GatesKeepTheirPromise == Rounds!Spec

\* What the bus and the HTTP surface say of a retry: the same (run, key) sent
\* again after it was recorded is answered from the record and decides nothing.
RetryDecidesNothing ==
  [][\A s \in announced :
       (KeyOf[s] # None /\ inFlight'[s] < inFlight[s])
         => UNCHANGED <<gateVars, decidedFrames>>]_vars

=============================================================================
