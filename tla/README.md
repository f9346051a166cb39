# A verification of the Reactive Browser Agent

The repository is an agent that answers support tickets by driving a browser.
A run plans with a language model, rehearses the plan in the browser up to the
first destructive step, asks a human, executes, verifies, asks the human again,
and may go back and plan anew. This directory holds TLA+ modules translated from
its source, TLC configurations that check them on small instances, and theorems
about them that TLAPS proves for every instance. All paths below are relative to
`src/services/agent/src/` unless they begin with another service's name.

## 1. The system

| Component | Code | State it keeps | Operations | Module |
|---|---|---|---|---|
| Gate slots | `events/bus.ts` | per gate: `committedDecision`, `waiters`, `idempotencyMap`, `slotsResolved` | `publishClientDecisionForStep`, `awaitDecisionForStep` | `GateSlots`, promise in `ReviewRounds` |
| Timeline | `events/bus.ts`, `stream.ts`, `persist.ts`, `envelope.ts` | `nextSeq`, ring buffer, listeners per run; one row per frame | `publish`, `publishTransport`, `replay`, `subscribe`, `dispose`, hello/resume of a socket, insert | `Timeline`, promise in `TimelineLog` |
| Triage workflow | `mastra/workflows/triage.ts`, `mastra/lib/blockController.ts`, `mastra/runContext.ts`, `http/triage.ts` | run context (`browser`, `tempSkillCard`), loop counters, the `runs` row | POST /triage, Block 1's passes, review gate and refines, materialize, execute, verify, human-verify gate and backtracks, the wrapper's `finally` | `TriageRun` |
| Browser session | `mastra/tools/playwrightMcp.ts` | subprocess, `closed`, `currentStepId`, profile directory | launch, tool calls with spans, abort, close | `BrowserSession` |
| ReAct runner and tools | `mastra/lib/reactRunner.ts`, `mastra/tools/reactBrowserTools.ts`, `mastra/tools/domRefs.ts` | iterations, recorded actions, the boundary | the iteration loop, tools | `ReactRunner` |
| Skill-card executor | `mastra/tools/skillCardExecutor.ts`, `materializeSteps` of `triage.ts` | index, `lastSnapshot`, skipped prefix | make a card, walk it, resume | `SkillCardWalk` |
| Review HTTP API | `http/runs.ts`, `db/schema.ts` | `reviews` row (one per run) | POST review; GET state only reads | `ReviewApi` |
| Agent process | `index.ts`, `http/triage.ts` | what lives in memory, the `runs` row | boot, serve, shut down, crash, close and dispose of a run | `AgentServer` |
| Migrations | `db/migrate.ts` | tracker table | `runMigrations`, at boot and from the command line | `Migrations` |
| Circuit breaker | `lib/circuit.ts` | `state`, `failures` window, `openedAt`, `halfOpenInFlight` | `execute` with its retry loop, `onSuccess`, `onFailure`, `prune` | `CircuitBreaker` |
| Stream mapper | `llm/streamMapper.ts` | accumulated blocks of an attempt, "a delta was emitted" | `streamMessage`, event translation | `StreamMessage` |
| Reviewer page | `test-webapp/app/agent/review/[runId]/page.tsx` | `frames`, `connStatus`, `submittedAtPlanId` | receive, decide, cancel-refine, reload | `ReviewPage` |
| RAG client | `mastra/tools/rag.ts`, `runRagCall` of `triage.ts` | attempt, pause, deadline timer; last answer per collection | `retrieveFromCollection` | `RagClient` |
| RAG queries | `rag/controllers/query_controller.py`, `rag/src/vector_store/qdrant_config.py`, `rag/initializers.py` | pool of managers, two model caches | POST /qa | `RagQuery` |
| RAG ingestion | `rag/main.py`, `rag/src/util/queue.py`, `clean_doc_queue.py`, `document_cleaning_pipline.py`, `rag/src/model/embedding_model.py`, `rag/controllers/upload_controller.py` | directories, two bounded queues, thread pools, shared configuration | upload, scan, clean, embed, refresh, restart | `RagIngest` |
| Skill-card loader | `lib/skillCardLoader.ts` | cache of immutable files | `loadSkill`, `loadAllSkills` | only a card's steps and flags, in `SkillCardWalk` |
| Step emitter | `mastra/stepEmitter.ts` | start times, for a duration only | translate engine events | none |
| Static files, health, environment, logging | `http/static.ts`, `http/health.ts`, `env.ts`, `logger.ts` | none | pure I/O and wiring | none |
| Browser viewer, demo application, card scripts | `browser-viewer/`, `test-webapp/lib/`, `agent/scripts/` | a forwarder's process; demo data | start, stop; read, reset | none |

How they interact. `POST /triage` starts the workflow without waiting for it.
The workflow publishes every step on the bus and suspends in
`awaitDecisionForStep`; the bus sends frames to the sockets of the pages and to
the database without awaiting the insert. A reviewer's decision reaches the bus
over a socket or over HTTP, at any time, and resolves the promise the workflow
waits on; the HTTP handler stores it afterwards. Model calls of all runs share
the circuit breaker, and their streams go to the bus as they arrive. Browser
and profile directory belong to a run and are handed from the rehearsal to the
execution. The retrieve step asks the rag service, whose query side shares
Qdrant and its collections with the ingestion, and nothing else. The database
outlives the agent's process; the bus, the gates and the workflows do not.

What is hard. Decisions race with gates that open and close, and nothing in a
decision names the plan it is about. Frames race with sockets that come and go.
A session and a card live on a context object that inner calls copy. Three
loops are nested around two human gates, and every step can throw. A session's
close runs behind a flag that is already up, beside the launch of the next in
the same profile directory. A stream that was shown cannot be taken back when
its attempt is repeated. Ingestion's threads share files with no locks but their
names. The list of `hazards` in `PROJECT.json` names the line where each of
these bites.

What makes each component correct:

- gates: nobody waits at a gate that a delivered decision should have opened; a
  decision is used once, and never by a later slot; the first one wins;
- timeline: a reader sees the log in order, at most once, and misses only what
  was evicted; stored rows are never replaced;
- workflow: only the plan that was approved is walked, in the session it was
  rehearsed in; every session is closed before the next is launched and at the
  end; the outcome tells what happened; it ends;
- browser: a session that works is alone in a profile of its own; the
  destructive click has exactly the rehearsed actions behind it; elements are
  looked up in the page as it is; nothing outlives the run but what a failed kill
  or a crash left behind;
- process and API: an answer tells what happened and an accepted decision is on
  record; migrations apply once; memory is dropped for closed runs only; a boot
  ends in serving;
- circuit breaker: opens on enough recent failures, probes with one call, never
  gets stuck; every call ends;
- stream: no text twice in the feed;
- page: it shows the question the run waits on and never locks for good;
- retrieval: every call ends; no manager of the pool is lost or lent twice; one
  model is built; a missing collection is no failure;
- ingestion: an acknowledged document stays on disk until it is embedded, and is
  embedded unless something recorded stopped it; cleaners share no file.

## 2. The modules

**Gates.** `ReviewRounds` says what a gate promises in terms of questions and
answers: `Ask` opens a question, `Answer` answers the open one, `KeepEarly` keeps
a decision for a gate that was never asked yet, `Continue` resumes the workflow.
`GateSlots` is the code: the reviewers' submissions travel (`Send`, `Lose`,
`Arrive` once per copy), `Deliver` is `publishClientDecisionForStep` in its four
outcomes (`Replay`, `Conflict`, `Wake`, `Buffer`), `OpenSlot` is
`awaitDecisionForStep` in its three (`OpenConsume`, `OpenDiscard`, `OpenWait`)
and `Resume` the continuation of the promise. JavaScript runs each of these
without interruption, so each is one action. `GateSlots` refines `ReviewRounds`,
and the workflow and the page use `ReviewRounds` instead of the slots.

**The run.** `TriageRun` is one run. `pc` names the await at which its coroutine
stands; each action goes from one await to the next. A cognitive pass is the
model's three calls, `Classify`, `Retrieve` and the plan; the plan's answer decides
whether it is actionable or refuses (`PlanActionable`, `PlanRefuses`), and whether it names a skill card (`skillCard`), without
which nothing is rehearsed. Model and tool calls return any result the code
distinguishes, or throw; browser processes die at any time. The run may be
aborted at any time (`Abort`): the listener of the rehearsal's session closes it
behind the workflow's back, calls fail, and the engine may stop the run between
two steps (`CancelRun`) or not get there. `Close` is what an awaited `close()` has
done when it returns: it killed the process, or missed it and logged so, or
returned at once because somebody closed the session before. `live` has the
sessions whose `close()` was never called, `lingering` counts the processes no
call will reach any more; how a teardown goes on is `BrowserSession`'s. An early
decision is modelled for the first question of a gate, the only one that takes it.
A plan is named by (backtrack, refine, pass), a session by who launched it and
for which plan; that is what the properties tell apart.

**The browser.** Four modules, each extending the one before.
`BrowserSession` has what happens by itself: the abort signal and its listener,
a crash of the whole tree or of npx alone, the two teardown steps behind `close` (kill the tree, remove the
profile), each of which may fail; and, as operators for its callers, launching
(`StartLaunch`, `Connects`, `ConnectFails`), closing and tool calls with their
spans. `ReactRunner` is the rehearsal: an iteration asks the model once and runs
at most one tool, which is a sequence of browser calls; a call may change the
page although its answer was lost. `SkillCardWalk` makes a card of the
rehearsal's record with the destructive click behind it and walks it, resuming
at the first destructive step or not. `BrowserWork` puts them together as
`runDryRunStep`, `runExecuteStep` with its liveness probe and relaunch, and the
wrapper's final close, for several rounds; what lies between rounds is
`TriageRun`'s.

**The process.** `ReviewApi` extends `GateSlots` with the handler of
POST /runs/:id/review, which decides in one step and then waits for the database.
`Migrations` has two runners that each read the list once and then apply files.
`AgentServer` extends both with the process around one run: boot, serving,
shutdown, crash, the wrapper's end (update of the row, timer, disposal), pages
that hold a socket open.

**The timeline.** `TimelineLog` is the append-only log a run's readers are
promised. `Timeline` is the bus with buffer, sockets, replay, inserts in flight,
disposal, and refines `TimelineLog`. `FramesAfter`, the filter of the replay, is
a recursive function rather than `SelectSeq`, of which nothing could be proved.

**Model calls.** `CircuitBreaker` is `execute` for overlapping calls, with a
coarse clock; the times of failures are numbered, so that the window is a set; `StreamMessage` extends it with the frames each attempt publishes,
because whether an attempt is repeated depends on them.

**The page.** `ReviewPage` is any number of pages in front of the gates. Each has
a prefix of the frames; what it shows and what may be clicked are operators over
that prefix, as in the page's memos, where `frames.filter` and `frames.findLast`
become sets of positions. Clicks are delivered later.

**Retrieval.** `RagQuery` is the handler of POST /qa, interrupted where it waits
for a thread or for the lock under which the model is loaded, while ingestion
creates and fills collections. `RagClient` extends it with the retrievals of
several runs: fetch, retry after a pause, deadline, abort. A request the client
gave up goes on at the service. `RagIngest` is the other half of the service:
upload requests, a scan that copies, queues and removes one file at a time, a
pool of cleaners that moves files and writes `finished.txt`, events of that
file, embedding, the configuration that is absent until its first refresh, and a
restart that keeps the files and forgets the queues. A copy has a number, given in the
order of the copies, and says of itself whether it is whole.

Composition: `GateSlots` => `ReviewRounds`, instantiated in `TriageRun` and
`ReviewPage`, and extended by `ReviewApi` and, with `Migrations`, by
`AgentServer`; `BrowserSession` within `ReactRunner` within `SkillCardWalk`
within `BrowserWork`; `CircuitBreaker` within `StreamMessage`; `RagQuery` within
`RagClient`; `Timeline` => `TimelineLog`. `ReviewPage` reduces the workflow to
the order in which `TriageRun` opens its gates, and the bus to an ordered channel
of frames, which `Timeline` shows it to be for a page that stays connected.

The `MC` modules (`MCGateSlots`, `MCTimeline`, `MCCircuitBreaker`,
`MCReviewPage`, `MCAgentServer`, `MCRagClient`, `MCRagIngest`) give constants
their values; the other configurations run the module itself. The `_proofs`
modules hold the theorems. Operators that no action uses and that resemble a
definition next to them (`KeepScope`, `StashOnCopy`, `ResumeAlways`,
`ReplaySkipping`, ...) are mutants: each replaces its neighbour to show that a
property notices.

## 3. What the runs show

| Run | Instance | Shows |
|---|---|---|
| `gates` | 2 gates; 4 submissions, two with one key, one without; each sent twice; 3 slots per gate | A suspended workflow always has its waiter and no stale answer in the cache (`WaiterIsReachable`); a buffered decision is consumed only by the first slot (`StaleNeverConsumed`); every `review.decided` frame is a decision taken, buffered or discarded (`DecidedFramesAccounted`); a held decision is never replaced (`FirstWriterWins`); the refinement (`GatesKeepTheirPromise`); a submission under way to an awaited gate wakes it (`ReviewedRunGoesOn`). |
| `triage` | 2 passes, 1 refine, 2 backtracks, an abort, 1 process left behind at a time | Only the approved, rehearsed, newest plan is walked, once (`WalksTheApprovedPlan`), resumed only in its own session (`WalksItsOwnSession`); no session is forgotten: the one whose `close()` was not called is in `ctx.browser`, none is left after the wrapper's `finally`, and the processes alive besides were left behind by a failed kill or a crash, or are the one an abort closed (`NoSessionIsForgotten`); the outcome is justified (`StatusTellsTheStory`); one `run.completed` closes every started run and the row agrees (`CompletedClosesTheRun`); the run ends (`RunEnds`). |
| `triage_terminate` | 1 backtrack, violation | Terminate at the review gate of a backtrack re-opens the other gate. |
| `browser` | 2 rounds of a rehearsal and an execution, 4 sessions, 3 iterations, 2 tools; crashes, lost answers, failing clean-ups, an abort | A working session is alone in its own profile (`ProfileIsOwn`); the destructive click comes behind the recorded actions, each once and in order, and happens once (`DestructiveFollowsThePlan`); clicks are found in a current snapshot (`RefsAreCurrent`); the run ends and no subprocess outlives it (`NothingSurvivesTheRun`). Excused from the first are runs that were aborted or whose clean-up failed, from the last what a failed kill or a crash of npx alone left behind. |
| `server` | 1 gate, 2 submissions over HTTP, one with a key, each sent twice; 2 slots, 2 migrations, 1 page, 1 fault | Answers to a posted review are true (`AnswersAreTrue`), an accepted one is on record through crashes (`AcceptedIsOnRecord`); migrations take effect once, in order and before the server listens (`MigratedOnce`); memory is dropped for closed runs only (`DroppedRunIsClosed`); boots serve (`BootServes`). |
| `timeline` | 2 clients, buffer of 2, 3 frames, 2 connections each | No frame falls between replay and subscription (`SubscriberIsCurrent`); gaps are evictions (`GapsAreEvictions`); an insert that failed leaves its number free (`AuditGapsAreVisible`); the refinement (`StreamsFollowTheLog`). |
| `circuit` | 3 calls, 2 attempts, threshold 2 | One probe, whose flag is never stuck (`ProbeIsAccountedFor`); the breaker opens exactly on the failures of the window (`OpensOnRecentFailures`); calls end (`EveryCallEnds`). |
| `stream` | 2 calls, 2 attempts, 2 frames per attempt | The feed holds the deltas of one attempt (`NoTextTwice`) between one start and at most one end (`Bracketed`). |
| `page` | 1 page, 2 plans, 3 clicks, lost sockets, reloads | While every decision answered a request, an up-to-date page shows the open question and nothing else (`PanelIsTruthful`); an edit's lock is released (`EditUnlocks`). |
| `page_hidden` | 1 page, violation | A second approve hides the next gate's panel from every page. |
| `rag` | 2 runs, 1 collection, 1 call each with 1 retry, 2 faults | No manager is lost or shared (`PoolIsWhole`); a process builds one model (`BuiltOnce`); with nothing failing no request is repeated, so a missing collection costs one (`QuietServiceIsAskedOnce`); every retrieval ends (`EveryRetrievalEnds`). |
| `ingest` | 2 names, one with a UUID; 2 uploads, 2 copies, queues of 1, 2 cleaners, 1 fault or restart | An acknowledged document that no scan met half-written stays on disk (`NothingIsDestroyed`); no two cleaners share a file of `temp/` (`OneCleanerPerPath`); an upload is embedded unless a recorded mishap stopped it (`UploadsGoThrough`). |

The bounds. Three slots are the smallest number with a first slot, a stale
discard and a slot after it; two copies of a submission are a request and its
retry. In `triage` each loop goes round once more than its first time and meets
its limit, and backtracks have the code's own number; one process left behind
lingers beside the next session, and an abort adds a second. Two rounds in
`browser` are a plan and the plan after it, so that a session may be relaunched
beside the teardown of one from the round before; two tools and three iterations
let a rehearsal end by the boundary, by its cap and by failing. In `server` one
fault is a failed statement, a failed query or a crash at any point, and two
migrations can be interrupted between them. A buffer of two with three frames
evicts, and two connections are a connection and a resume; a second client is
there because a resync for one reaches the others. Three calls of the breaker
allow a probe, a call let through before it opened, and one that is refused.
Three clicks on a page are a surplus decision and one that suffers from it; two
pages with two or three clicks are checked by hand (`MCReviewPage_two.cfg`,
`MCReviewPage_three.cfg`) because they take longer. In `rag` two faults are a
failed search and a failed retry of it, or a failure and a restart; two runs meet
at the lock and at the pool. In `ingest` two uploads meet at one name or at one
queue, and a copy more than the uploads is the bound where a scan stops
(`OutOfCopies` excuses exactly that). Pages and clients are interchangeable, so
symmetry is used there, and only in runs without liveness.

Type invariants exist in every module (`TypeOK`, `ApiTypeOK`, ...). All are proved,
and repeated in no run but `gates`; the same goes for `BudgetsBoundTheRun`,
`LockIsTruthful` and `ClosedBelowThreshold`. `DrainEnds` was added by hand once and
holds as well.

Deadlock is checked in `triage` and `browser`, where the end of the run stutters;
elsewhere the bounds of the instance end the behaviour and the configuration says
so.

Fairness. `GateSlots`: a request that is not lost is processed, and a resolved
promise continues, both guaranteed by the event loop. `TriageRun`: calls return
or throw, because model and tool calls have deadlines; and a reviewer answers,
which is an assumption, since the code has no timeout at a gate. `BrowserWork`:
the same, and a teardown step ends, because it is a kill and a removal with
errors swallowed; nothing has to crash and the signal need not fire.
`AgentServer`: the container is restarted, migrations and handlers go on, requests
on the wire arrive; nobody has to close a page, send a signal or decide.
`CircuitBreaker`: an attempt ends, by its own deadline at the latest, and the
timer between attempts fires. `ReviewPage`: with the connection up, frames and
clicks arrive and the workflow goes on; nobody is made to click. `RagClient`:
timers fire, and nothing is assumed of the service. `RagIngest`: its threads run,
and nothing is assumed of clients, failures or the configuration's refresh.

## 4. What is proved

All theorems hold for every value of the constants that meets the module's named
assumption, which says no more than the types of the constants and that `None`
is none of the other values (`RoundAssumption` also that there is a session for
each launch of a round, `ClientAssumption` that a request is named by run, call
and attempt).

**Gates** (first part of `AgentServer_proofs`). `GatesTypeCorrect`, `GatesWaiterReachable`,
`GatesStaleNeverConsumed`, `GatesFramesAccounted`, `GatesFirstWriterWins`, and
`GatesImplementRounds`: the slot register implements `ReviewRounds`. None of the
invariants is inductive alone. `GatesInv` adds `MapMeansBuffered` (a slot without a
committed decision has an empty key map; otherwise a replay could answer for a
decision nobody holds), `SlotsCounted` (opened slots are resolved ones, plus the
one awaited; it ties the discard branch's test of `slotsResolved` to what the
workflow sees) and `HistoryAgrees` (the history variables match the counters).
There is one lemma per action, over a few lemmas on the effect of `Resolve` and
`Announce`; the refinement maps the committed decision of a gate that has
resolved no slot to an early answer.

**Workflow** (`TriageRun_proofs`). `TriageTypeCorrect`, `OnlyTheApprovedPlan`,
`ResumesWhereItStopped`, `ApprovedPlanHasItsCard` (the guard of
`runMaterializeSkillCardStep` against a plan without a card never strikes),
`NoSessionLeaks`, `StatusIsEarned`, `EveryRunIsClosed`.
The inductive invariant adds to the types: the card on the context is the
plan's (`CardIsThePlan`), a plan is walked once (`EachPlanOnce`), the stored
session belongs to the plan at hand (`SessionIsThePlans`), a boundary was reached
only with a card (`BoundaryNeedsACard`), the only session not closed is the stored
one, and there is none at a launch and at the end (`OneOpenSession`), what lingers
was left behind or closed by the abort, to which one session listens at most
(`StraysAreCounted`), the result carried along is backed by what
happened (`StoryIsTrue`), and the frames agree with the phase
(`FramesFollowTheRun`). One lemma per phase says where its actions lead.
`BudgetsHold` bounds the questions and walks of a whole run by the product of the
two budgets (`BudgetsBoundTheRun`), and `SlotsAreNeverShort` says that the bound on
slots in the guard of `OpenGate` never cuts a run short. `BudgetsKept` counts what a
run has asked by its backtracks, its refines since the last one, and whether the
question of this round is behind it. The product stands behind a name
(`PlanRounds`), of which the proof needs only what one more backtrack adds.

**Browser** (`BrowserWork_proofs`). `SessionsAreAlone`, `ElementsAreFresh` and
`PlanBeforeDestruction`. `SessionInv`
says which process states go with which stage of a teardown, `CountInv` that
sessions are launched in order, `ControlInv` what holds at each await; `Calm`
(while nothing was aborted or left behind, whoever is not the current session is
gone, and its profile with it) is the part that makes a relaunch safe, and holds
because every launch of the coroutine comes behind a close that it awaited
itself. `WalkInv` ties the kept snapshot to the number of changes. `PlanInv`
follows the recorded actions from the rehearsal into the click: recorded numbers
grow (`TraceInv`); a browser that rehearsed has every recorded action behind it,
each once and in order, and while a tool is running it has them and perhaps that
tool (`RehearsalInv`), for an action whose answer was lost is behind it without
being recorded; a browser that walks has the actions of the steps walked so far
(`ExecutionInv`), starting from all of them when the walk resumes and from none
in a new browser. `CarriedAlone`, `CarriedOver` and `CarriedOn` say what one more
action does to that relation, over arbitrary sequences. `BrowserTypeCorrect`
needs the lengths of what a browser has behind it (`GrowthInv`): a rehearsed one
has at most the actions of its iterations, and a walk adds at most one per step.

**Process** (`AgentServer_proofs`). `MigrationsHappenOnce` (a name is in the tracker exactly if
its file ran, runners know only names that are there, and the agent's runner
knows all of them when it serves), `NoFalseAnswer` (what a handler carries, what
the register holds and what the row says are announced decisions of the key they
stand under), `AcceptedStaysOnRecord`, and `DisposalIsLast`. The gates' own
theorems carry over to a process that crashes, restarts and disposes of the run:
`WaiterStaysReachable`, `StaleStaysUnused`, and `FramesAccountedWhileServed`, which
ends where the register is emptied behind the frames. `GatesServed` says that the
register is untouched before the run starts, that `GatesInv` holds while somebody
works on the run, and that nobody waits once the run is lost or disposed of.
`ServerTypeCorrect` adds that what is on the wire was sent (`SentBefore`), which
bounds the number a handler has among the copies of its submission.

**Timeline** (`Timeline_proofs`). `RowsAreTheirFrames`: the counter counts and, before disposal,
is the number of frames, so a row stands at its own position. And
`TimelineImplementsTheLog`: the bus implements `TimelineLog`. `StreamsInv` says
that the numbers grow with the places of the log within an epoch, that the buffer
holds frames of the current epoch in order (`BufferInv`), that nothing is on the
wire of a socket that has not said hello and nobody listens twice (`SocketInv`),
and that what a client has and what is on its way to it are places of the log in
order (`OrderInv`). The replay is where this is delicate: the backlog comes behind
all that the client has, because its last frame is of the same epoch with a
smaller number, or of an earlier epoch (`BacklogIsLater`). `SubscribersMissNothing`
adds the other direction: until disposal the buffer ends with the newest frame,
whoever said hello listens (`ListenersInv`), and the backlog ends with the newest
frame unless the client has it already (`BacklogIsCurrent`). `MissedWasEvicted`
says of a client that what it misses between two frames it has was evicted before
it came back: the buffer is the end of the log, and holds all frames of the epoch
unless it is full (`WindowInv`), and a client that listens has the newest frame of
the epoch or none of it (`FollowInv`), so a live frame leaves no gap.
`TimelineTypeCorrect` adds the counters of the client and the size of the ring
buffer, which appends one frame and then drops the oldest (`BufferStaysShort`).

**Model calls** (`StreamMessage_proofs`). `OneProbe`, and for the window of
failures `OpensOnTheWindow` and `OpensInTime`: what the breaker counts was counted
since the last close, and a closed breaker has dropped nothing that is still in
the window and holds less than the threshold (`CountInv`); a probe that fails
cannot be met while it is closed (`ProbeInv`). `BreakerTypeCorrect` adds that a
delay is started only while attempts are left. `StreamUsesTheBreaker` says that
`StreamSpec` implements the breaker's `Spec`, so all of this holds behind the
stream. `NothingIsRepeated`, `MessagesAreBracketed` and `StreamTypeCorrect` come
from an invariant that tells the story of a call: its feed is in order, and a
call that waits for another attempt has shown no delta.

**Page** (`ReviewPage_proofs`). `PanelShowsTheRun`: among the frames, requests and
decisions alternate as long as every decision answered a request, so the counts
the page compares agree with the gate the workflow stands at; the page's prefix
is whole when it is up to date. `LockStandsForAPlan`: the Edit that locked a page
is on its way, or was taken at the gate of the plan it was made on, and then that
plan has been given up. Both need that `None` is no identifier of a plan.
`NoPlanAskedTwice` (each plan is put to the reviewer at most once at each gate,
since every way back to the first gate makes a new plan) bounds questions by plans,
and `PageTypeCorrect` follows from it.

**Ingestion** (`RagIngest_proofs`). `AcknowledgedStaysOnDisk` and
`CleanersDoNotMeet`. The copy a scan is about to queue is there, and is whole or
known to be spoiled (`ScanHasItsCopy`); numbers of copies are used in order, so a
new copy is no old one (`NextCopyIsNew`); a name with a UUID is in `temp/` once
(`OncePerName`), which is what the scan's test before the copy is for. It is
assumed that there is a file name. `IngestTypeCorrect` adds what the
memory of the service holds: queues and cleaners hold copies that were made and
copies are never unmade (`HeldInv`, `UsedGrows`), a cleaner leaves only when it is
idle (`PoolInv`), and a `finished.txt` that is opened has had one event, filled
two (`EventsInv`).

**Retrieval** (`RagClient_proofs`). `OneModelPerProcess` (who loads holds the lock, and what was
built is cached), `RagTypeCorrect`, `MissingIsAskedOnce` (while nothing has
failed, every retrieval is at its first attempt with its request at the service,
and no handler has failed), and `NoManagerIsLost` (a manager is idle once or used
by one request, never both, and none disappears; requests that were not sent yet
use none).

Induction over data is out of the prover's reach as the library states it, since
its induction theorems take an operator. What is needed of the recursive filter
in `Timeline` is shown by a smallest counterexample instead (`SmallestOf`, from
the well-foundedness of < on the naturals): a filter of an ordered sequence is a
part of it, in order.

Every invariant and every action property that a run checks is stated by one of
these theorems, and the type invariant of every module's specification is one. Only model-checked are the eight liveness properties
(`ReviewedRunGoesOn`, `RunEnds`, `EveryCallEnds`, `EditUnlocks`,
`NothingSurvivesTheRun`, `BootServes`, `EveryRetrievalEnds`, `UploadsGoThrough`),
which rest on fairness and so on ENABLED, out of the prover's reach.
No module declares a RECURSIVE operator,
and what a proof speaks of is written with sets of positions rather than with
`SelectSeq`, of which the provers know nothing.

## 5. Where code and comments disagree

Two disagreements are runs with expected violations and are described under
`findings`. The others have a configuration each, to be run by hand
(`tlc -config <cfg> <module>`); the property is violated in each. A `_claims`
configuration lists several, of which one at a time is to be left uncommented.

| Configuration, property | The code | The text |
|---|---|---|
| `MCGateSlots_retry`, `RetryDecidesNothing` | `bus.ts:284` looks a key up in the current slot's map, which is emptied when a slot closes; a late copy decides anew | `bus.ts:34`: "idempotency keyed on (runId, idempotencyKey)" |
| `MCTriageRun_claims`, `RefinesWithinOneCap` | `triage.ts:2161` counts refines per call of the gate, and every backtrack calls it again | `triage.ts:2218-2220`: "a mix of edits and rejects counts against the same cap (3 total refine cycles per run)" |
| `MCTriageRun_claims`, `AcceptedMeansOk` | `triage.ts:3046` returns the failed verification unchanged on approve, and the run ends as failed | `triage.ts:3040-3041`: "Mastra's workflow engine proceeds to logAndNotifyStep with status=ok" |
| `MCTimeline_claims`, `SequenceIsMonotonic` | `bus.ts:418` forgets the counter; a decision after disposal starts at 0 | `envelope.ts` on `seq`: monotonic per run |
| `MCTimeline_claims`, `StoredInSequence` | `bus.ts:479` does not await the insert | `bus.ts:151-152`: "because we want back-pressure (awaited) and sequential guarantees" |
| `MCTimeline_claims`, `FailureIsTheEnd` | `bus.ts:215` publishes run.failed for an invalid frame and the run goes on | `bus.ts:197-199`: it "terminates the run state" |
| `MCTimeline_claims`, `HolesAreAnnounced` | `stream.ts:108` publishes the resync before the socket subscribes, so the client with the hole is the one that is not told | `stream.ts:105-106`: "inform the client so it can fall back to Postgres replay" |
| `MCAgentServer_row`, `RowIsCurrent` | `runs.ts:116` keeps the first review of a run, whatever is decided later | `runs.ts:104-105`: "this row is the queryable current state" |
| `MCAgentServer_shutdown`, `ShutdownEnds` | `index.ts:132` waits for every connection, and nobody closes the sockets | `index.ts:22`: "Graceful shutdown: drain HTTP, close DB pool" |
| `MCBrowserWork_one`, `OneSubprocess` | after an abort, the coroutine's `close` returns at once beside the listener's teardown, and a launch may begin | `playwrightMcp.ts:32`: "ONE MCP subprocess per run" |
| `MCCircuitBreaker_open`, `OpenCircuitIsObserved` | `circuit.ts:340`: the breaker is asked once, before the retry loop | `streamMapper.ts:66-67`: "every in-flight run observes the same open circuit" |
| `MCStreamMessage_tools`, `FeedShowsTheResult` (module `StreamMessage`) | `streamMapper.ts:175`: only deltas make an attempt unsafe to repeat, and a tool use without arguments has none | `streamMapper.ts:125-128`: the feed must not repeat, "UI shows truth" |
| `MCReviewPage_claims`, `StaleClickIsDiscarded` | a decision names no plan, so a late click on the old bar may decide the new one | `page.tsx:2001-2004`: it "lands in the bus's stale-discard path" |
| `MCReviewPage_claims`, `AwaitingIsShown` | `page.tsx:2253` asks whether the gate has any decision at all | `page.tsx:2243-2245`: a request "without a matching review.decided is awaiting" |
| `MCRagClient_claims`, `EmptyMeansMissing` | `qdrant_config.py:254-256` answers "does not exist" when Qdrant cannot be reached, and the client takes the 404 for no context | `rag.ts:25-28`: "a ticket asking about something we've never ingested runbooks for" |
| `MCRagClient_claims`, `FoundIsKept` | a later retrieval that failed counts as no hits and replaces the earlier ones | `triage.ts:800-801`: "the model's final retrieval decision for each collection is authoritative" |
| `MCRagIngest_claims`, `AckedIsKept` | `queue.py` may copy an upload that is half written and remove the original | `upload_controller.py:74`: "File uploaded successfully" |
| `MCRagIngest_claims`, `EmbeddedOnce` | creation and change of a `finished.txt` are two events | none; noted because embedding twice costs model time |
| `MCRagIngest_claims`, `EveryUploadIsEmbedded` | `queue.py:91` skips a name that is still in `temp/` and does not come back to it; a full queue drops; before the first configuration documents are skipped | none; noted because nothing tells the user |

Read off the code while modelling, without a property of their own: the wrapper
publishes `run.completed` after `run.failed` (`http/triage.ts:246`); the health
check's comment (`health.ts:12-14`) speaks of timeouts that the database probe
does not have; the pool's test for exhaustion (`query_controller.py:53`) cannot be
reached; the update endpoint for the configuration writes `src/config.yml` while
the agent's loader reads `config.yml` at the service's root; `runBlock1` keeps the
last twelve observations (`blockController.ts:420`), "generous for a 3-pass limit
(up to ~4 per pass)", although a plan that refuses may add nine at once, so that
the first of them, the reviewer's note a refine was seeded with, can be gone
before the third pass.

## 6. What is left out

Frame payloads, prompts and retrieval results are data no property is about. The
30 schemas of the envelope are reduced to valid and invalid. Matching of text
against an accessibility tree, template substitution and history compaction
change no control state that a property speaks of. A crash of the process is in
`AgentServer` and not in `TriageRun`: nothing resumes a run at boot, so what a
crash leaves is the row. `ReviewPage` has no idempotency keys, since every click
makes a new one, and no invalid decisions. The circuit breaker's callee is taken
to stop at its signal. The pool of embedding consumers is not counted, and
swapping the embedding model at run time is not modelled. A step emitter that
only translates, static files, health, environment and logging keep no state; the
demo application and its cards are data; the browser viewer shares nothing with
the agent.

## 7. Plan

Done, in this order: gates and their promise, proofs about them, the workflow,
the timeline, circuit breaker and stream, the page; then browser, process with
API and migrations, retrieval, ingestion; then the proofs, component by component,
until every safety property of the runs was a theorem.

What remains:

1. proofs: the eight liveness properties stay with TLC;
2. models: the pool of embedding consumers and the swap of their model, the
   browser viewer's process.
