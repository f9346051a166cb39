------------------------------ MODULE TriageRun ------------------------------
(***************************************************************************)
(* One run of the triage workflow, from POST /triage to the terminal       *)
(* status: Block 1's passes, the pre-execution gate with its refine loop,  *)
(* materialize, execute, verify, the post-execution gate with its          *)
(* backtrack loop, and the wrapper that closes the browser and records the *)
(* outcome.  The gates are ReviewRounds, which GateSlots implements.       *)
(*                                                                         *)
(* A plan is named by where Block 1 produced it: the backtrack, the refine *)
(* within it and the pass within that.  A browser session is named by who  *)
(* launched it and for which plan; the teardown behind its close() is in   *)
(* BrowserSession, and only counted here while it leaves a process alive.  *)
(***************************************************************************)
EXTENDS Naturals, Sequences, FiniteSets

CONSTANTS
  Block1MaxPasses,    \* BLOCK1_MAX_PASSES, 3 in the code
  MaxPreGateRefines,  \* MAX_PRE_GATE_REFINES, 2 in the code
  MaxBacktracks,      \* MAX_BACKTRACKS, 2 in the code
  MaxOrphans,         \* processes left behind by failed kills and crashes (bound)
  None

Gates == {"review_gate", "human_verify_gate"}
Verdicts == {"approve", "reject", "edit", "terminate"}
Submissions == [gate : Gates, decision : Verdicts]
TargetOf == [s \in Submissions |-> s.gate]

\* one more than the budgets allow, so that ReviewRounds never blocks a gate
MaxSlots == (MaxBacktracks + 1) * (MaxPreGateRefines + 1) + 1

Plans == [backtrack : 0..MaxBacktracks, refine : 0..MaxPreGateRefines,
          pass : 0..Block1MaxPasses - 1]
Sessions == [by : {"dry_run", "execute"}, for : Plans]

ASSUME TriageAssumption ==
  /\ Block1MaxPasses \in Nat \ {0}
  /\ MaxPreGateRefines \in Nat
  /\ MaxBacktracks \in Nat
  /\ MaxOrphans \in Nat
  /\ None \notin Plans \union Sessions \union Submissions \union Gates

VARIABLES
  pc,             \* what the workflow does next
  backtrackCount, \* of humanVerifyGateStep
  refineCount,    \* of the current runReviewGateStep
  pass,           \* of the current runBlock1
  skillCard,      \* the plan names a skill card: skillCardIds is not empty
  boundary,       \* the dry run shown at the gate reached its boundary
  review,         \* ReviewSchema: the decision and the plan it is about
  tempSkillCard,  \* ctx.tempSkillCard, by the plan it was materialized from
  browser,        \* ctx.browser, or None
  live,           \* sessions whose process is alive and close() was not called
  lingering,      \* number of processes alive that no call of close() will reach
  aborted,        \* the abort signal of the engine has fired
  resume,         \* resumeAtFirstDestructive
  stepsRun,       \* the executor ran at least one step
  verify,         \* VerifySchema: success and skipped
  outcome,        \* terminalStatus
  row,            \* runs.status
  frames,         \* the run.* frames on the timeline
  executed,       \* history: the plan of the latest skill-card walk, or None
  executions,     \* history: number of walks
  refused,        \* history: the reviewer terminated or used up a budget
  terminated,     \* history: the workflow has taken an explicit terminate
  question, answer, early, rounds   \* the gates

gateVars == <<question, answer, early, rounds>>
planVars == <<backtrackCount, refineCount, pass, skillCard, boundary, review>>
browserVars == <<browser, live, lingering, aborted>>
execVars == <<tempSkillCard, resume, stepsRun, verify, executed, executions>>
runVars == <<outcome, row, frames>>
histVars == <<refused, terminated>>
vars == <<pc, gateVars, planVars, browserVars, execVars, runVars, histVars>>

Gate == INSTANCE ReviewRounds

CurrentPlan == [backtrack |-> backtrackCount, refine |-> refineCount, pass |-> pass]

-----------------------------------------------------------------------------
(* Browser sessions.                                                       *)

\* ctx.browser has to be assigned on the run's own context: an assignment on a
\* spread copy is lost when the copy's scope unwinds.
StashOnCopy(s) == UNCHANGED browser
Stash(s) == browser' = s

Launch(s) ==
  /\ live' = live \union {s}
  /\ Stash(s)
  /\ UNCHANGED lingering

\* The listener of a session launched with the signal calls its close() and
\* nobody waits; runExecuteStep launches without the signal.
Listeners == {s \in live : s.by = "dry_run"}
SignalFires ==
  /\ aborted' = TRUE
  /\ live' = live \ Listeners
  /\ lingering' = lingering + Cardinality(Listeners)

\* A call on a session may succeed: it is alive and not closed, and the signal
\* that goes with its calls has not fired.
Answers(s) == s \in live /\ (aborted => s.by = "execute")

LeftBehind ==
  /\ lingering < MaxOrphans
  /\ lingering' = lingering + 1

\* `await session.close()` has returned: the process is killed, or it is not and
\* a warning is logged. A session that was closed before is not in `live`: the
\* call returns at once, and its process, if the other teardown is not through
\* or has failed, goes on lingering.
KillFails(s) == s \in live /\ LeftBehind

Close(s) ==
  /\ live' = live \ {s}
  /\ UNCHANGED lingering \/ KillFails(s)

CloseCurrent ==
  /\ Close(browser)
  /\ browser' = None
  /\ UNCHANGED aborted

\* the finally block of the wrapper closes the session ctx.browser holds
CloseNothing == UNCHANGED browserVars
CloseAtEnd ==
  /\ Close(browser)
  /\ UNCHANGED <<browser, aborted>>

\* The subprocess dies, at any time, with its Chromium or without: npx alone
\* leaves a Chromium that the walk from npx's pid does not find. What lingers may
\* end too, by the teardown that goes on behind an earlier close().
SessionDies ==
  /\ \/ \E s \in live : live' = live \ {s} /\ (UNCHANGED lingering \/ LeftBehind)
     \/ lingering > 0 /\ lingering' = lingering - 1 /\ UNCHANGED live
  /\ UNCHANGED <<pc, gateVars, planVars, browser, aborted, execVars, runVars,
                 histVars>>

\* The run is cancelled, at any time.
Abort ==
  /\ pc \notin {"create_run", "done"}
  /\ ~aborted
  /\ SignalFires
  /\ UNCHANGED <<pc, gateVars, planVars, browser, execVars, runVars, histVars>>

-----------------------------------------------------------------------------
(* The workflow fails: a step throws, Mastra ends the run.  run.start either *)
(* resolves with status failed or rejects, and then run.failed is published. *)

Throw ==
  /\ pc' = "finally"
  /\ outcome' = "failed"
  /\ frames' \in {frames, Append(frames, "run.failed")}
  /\ UNCHANGED <<gateVars, row, histVars>>

\* The wrapper creates the Mastra run and opens the timeline.
Start ==
  /\ pc = "create_run"
  /\ frames' = Append(frames, "run.started")
  /\ pc' = "classify"
  /\ UNCHANGED <<gateVars, planVars, browserVars, execVars, outcome, row, histVars>>

CreateRunFails ==
  /\ pc = "create_run"
  /\ pc' = "done"
  /\ UNCHANGED <<gateVars, planVars, browserVars, execVars, runVars, histVars>>

-----------------------------------------------------------------------------
(* runBlock1: up to Block1MaxPasses passes of classify, retrieve, plan and *)
(* dry_run.  Prompts, hits and the classification are left out: a bad      *)
(* classification falls back to defaults and a pass goes on without hits.  *)

ForgetPass == UNCHANGED pass
CountPass == pass' = pass + 1

\* A pass that found the boundary, or the last one, ends Block 1.
EndPass(ok) ==
  /\ IF ok \/ pass + 1 = Block1MaxPasses
     THEN /\ boundary' = ok
          /\ pc' = "open_review_gate"
          /\ UNCHANGED pass
     ELSE /\ CountPass
          /\ pc' = "classify"
          /\ UNCHANGED boundary
  /\ UNCHANGED <<gateVars, backtrackCount, refineCount, review, execVars,
                 runVars, histVars>>

Classify ==
  /\ pc = "classify"
  /\ pc' = "retrieve"
  /\ UNCHANGED <<gateVars, planVars, browserVars, execVars, runVars, histVars>>

Retrieve ==
  /\ pc = "retrieve"
  /\ pc' = "plan"
  /\ UNCHANGED <<gateVars, planVars, browserVars, execVars, runVars, histVars>>

\* What the planning model may answer: JSON or not, asking for context or not,
\* with or without an action that passes its schema, naming no skill card, one
\* of the catalog, or one that does not exist.
Replies == [json : BOOLEAN, asks : BOOLEAN, actions : BOOLEAN,
            card : {"none", "known", "unknown"}]

\* requiresContext and skillCardIds # [] of the plan made from it.
RequiresContext(r) == ~r.json \/ r.asks \/ ~r.actions \/ r.card = "unknown"
NamesCard(r) == r.json /\ r.card = "known"

\* The plan has actions and asks for no more context: dry_run follows.
PlanActionable(r) ==
  /\ pc = "plan"
  /\ ~RequiresContext(r)
  /\ skillCard' = NamesCard(r)
  /\ pc' = "pre_close"
  /\ UNCHANGED <<gateVars, backtrackCount, refineCount, pass, boundary, review,
                 browserVars, execVars, runVars, histVars>>

\* The pass fails, dry_run is skipped and whatever session an earlier pass left
\* stays open.
PlanRefuses(r) ==
  /\ pc = "plan"
  /\ RequiresContext(r)
  /\ skillCard' = NamesCard(r)
  /\ EndPass(FALSE)
  /\ UNCHANGED browserVars

\* a model or retrieval call, or the loader of the catalog
CognitiveThrows ==
  /\ pc \in {"classify", "retrieve", "plan"}
  /\ Throw
  /\ UNCHANGED <<planVars, browserVars, execVars>>

\* runDryRunStep closes the session of an earlier pass, refine or backtrack
\* before anything else.
PreClose ==
  /\ pc = "pre_close"
  /\ CloseCurrent
  /\ pc' = "load_scaffold"
  /\ UNCHANGED <<gateVars, planVars, execVars, runVars, histVars>>

\* No skill card picked.  One that was picked is in the loader's cache, which
\* is never emptied, and is found again.
NoScaffold ==
  /\ pc = "load_scaffold"
  /\ ~skillCard
  /\ EndPass(FALSE)
  /\ UNCHANGED <<skillCard, browserVars>>

\* The launch is refused when the signal has fired. While it connects the
\* signal may fire, and nobody listens: the older sessions are closed.
LaunchDryRun ==
  /\ pc = "load_scaffold"
  /\ skillCard
  /\ ~aborted
  /\ Launch([by |-> "dry_run", for |-> CurrentPlan])
  /\ aborted' \in BOOLEAN
  /\ pc' = "explore"
  /\ UNCHANGED <<gateVars, planVars, execVars, runVars, histVars>>

\* The ReAct loop flags a destructive boundary, or runs out of iterations.
Explore(found) ==
  /\ pc = "explore"
  /\ EndPass(found)
  /\ UNCHANGED <<skillCard, browserVars>>

DryRunThrows ==
  /\ (pc = "load_scaffold" /\ skillCard) \/ pc = "explore"
  /\ Throw
  /\ UNCHANGED <<planVars, browserVars, execVars>>

Block1 ==
  \/ Classify \/ Retrieve
  \/ \E r \in Replies : PlanActionable(r) \/ PlanRefuses(r)
  \/ CognitiveThrows
  \/ PreClose \/ NoScaffold \/ LaunchDryRun
  \/ \E found \in BOOLEAN : Explore(found)
  \/ DryRunThrows

-----------------------------------------------------------------------------
(* runReviewGateStep: the loop of refines before execution.                *)

OpenReviewGate ==
  /\ pc = "open_review_gate"
  /\ Gate!Ask("review_gate")
  /\ pc' = "review_gate"
  /\ UNCHANGED <<planVars, browserVars, execVars, runVars, histVars>>

RefineBudgetLeft == refineCount < MaxPreGateRefines

ApprovePlan ==
  /\ pc = "review_gate"
  /\ Gate!Continue
  /\ answer.decision = "approve"
  /\ review' = [decision |-> "approve", plan |-> CurrentPlan]
  /\ pc' = "materialize"
  /\ UNCHANGED <<backtrackCount, refineCount, pass, skillCard, boundary, browserVars,
                 execVars, runVars, histVars>>

\* Another Block 1, with the reviewer's note; same refine loop.
Refine ==
  /\ pc = "review_gate"
  /\ Gate!Continue
  /\ answer.decision \in {"edit", "reject"}
  /\ RefineBudgetLeft
  /\ refineCount' = refineCount + 1
  /\ pass' = 0
  /\ pc' = "classify"
  /\ UNCHANGED <<backtrackCount, skillCard, boundary, review, browserVars, execVars,
                 runVars, histVars>>

\* An explicit terminate, or one edit or reject too many.  In the workflow's
\* own chain the skip cascade follows; inside a backtrack humanVerifyGateStep
\* makes up a skipped verify result and loops to its own gate.
TerminatePlan ==
  /\ pc = "review_gate"
  /\ Gate!Continue
  /\ \/ answer.decision = "terminate"
     \/ answer.decision \in {"edit", "reject"} /\ ~RefineBudgetLeft
  /\ review' = [decision |-> "terminate", plan |-> CurrentPlan]
  /\ refused' = TRUE
  /\ terminated' = (terminated \/ answer.decision = "terminate")
  /\ IF backtrackCount = 0
     THEN pc' = "materialize" /\ UNCHANGED <<stepsRun, verify>>
     ELSE /\ pc' = "open_verify_gate"
          /\ stepsRun' = FALSE
          /\ verify' = [success |-> FALSE, skipped |-> TRUE]
  /\ UNCHANGED <<backtrackCount, refineCount, pass, skillCard, boundary, browserVars,
                 tempSkillCard, resume, executed, executions, runVars>>

ReviewGate == OpenReviewGate \/ ApprovePlan \/ Refine \/ TerminatePlan

-----------------------------------------------------------------------------
(* materialize, execute and verify.                                        *)

Approved == review.decision = "approve"

\* not approved: nothing is materialized and nothing runs
SkipMaterialize ==
  /\ pc = "materialize"
  /\ ~Approved
  /\ pc' = "execute"
  /\ UNCHANGED <<gateVars, planVars, browserVars, execVars, runVars, histVars>>

CardOnce(p) == IF tempSkillCard = None THEN p ELSE tempSkillCard
CardFor(p) == p

Materialize ==
  /\ pc = "materialize"
  /\ Approved
  /\ boundary /\ skillCard
  /\ tempSkillCard' = CardFor(review.plan)
  /\ pc' = "execute"
  /\ UNCHANGED <<gateVars, planVars, browserVars, resume, stepsRun, verify,
                 executed, executions, runVars, histVars>>

\* approved although Block 1 was exhausted, or the card does not validate
MaterializeThrows ==
  /\ pc = "materialize"
  /\ Approved
  /\ Throw
  /\ UNCHANGED <<planVars, browserVars, execVars>>

SkipExecute ==
  /\ pc = "execute"
  /\ ~Approved
  /\ stepsRun' = FALSE
  /\ pc' = "verify"
  /\ UNCHANGED <<gateVars, planVars, browserVars, tempSkillCard, resume, verify,
                 executed, executions, runVars, histVars>>

\* The dry run's session answers the snapshot: resume in it at the first
\* destructive step.
ReuseSession ==
  /\ pc = "execute"
  /\ Approved
  /\ Answers(browser)
  /\ resume' = TRUE
  /\ pc' = "walk"
  /\ UNCHANGED <<gateVars, planVars, browserVars, tempSkillCard, stepsRun, verify,
                 executed, executions, runVars, histVars>>

\* No session, or it does not answer: close it and start afresh.
DropSession ==
  /\ pc = "execute"
  /\ Approved
  /\ CloseCurrent
  /\ pc' = "relaunch"
  /\ UNCHANGED <<gateVars, planVars, execVars, runVars, histVars>>

LaunchExecute ==
  /\ pc = "relaunch"
  /\ Launch([by |-> "execute", for |-> tempSkillCard])
  /\ UNCHANGED aborted
  /\ resume' = FALSE
  /\ pc' = "walk"
  /\ UNCHANGED <<gateVars, planVars, tempSkillCard, stepsRun, verify,
                 executed, executions, runVars, histVars>>

LaunchExecuteThrows ==
  /\ pc = "relaunch"
  /\ Throw
  /\ UNCHANGED <<planVars, browserVars, execVars>>

Walked ==
  /\ executed' = tempSkillCard
  /\ executions' = executions + 1

\* executeSkillCardSteps: some steps ran, or none; a tool error ends the walk
\* early without an exception.
Walk ==
  /\ pc = "walk"
  /\ Walked
  /\ stepsRun' \in BOOLEAN
  /\ pc' = "verify"
  /\ UNCHANGED <<gateVars, planVars, browserVars, tempSkillCard, resume, verify,
                 runVars, histVars>>

WalkThrows ==
  /\ pc = "walk"
  /\ Walked
  /\ Throw
  /\ UNCHANGED <<planVars, browserVars, tempSkillCard, resume, stepsRun, verify>>

VerifyResult(r) ==
  /\ verify' = r
  /\ pc' = "open_verify_gate"
  /\ UNCHANGED <<gateVars, planVars, browserVars, tempSkillCard, resume, stepsRun,
                 executed, executions, runVars, histVars>>

VerifySkipped ==
  /\ pc = "verify"
  /\ ~Approved
  /\ VerifyResult([success |-> FALSE, skipped |-> TRUE])

\* no step ran: fail without asking the model
NoHardFail == FALSE
HardFail == ~stepsRun

VerifyHardFails ==
  /\ pc = "verify"
  /\ Approved
  /\ HardFail
  /\ VerifyResult([success |-> FALSE, skipped |-> FALSE])

\* The model compares a snapshot with the postconditions; a card without
\* postconditions succeeds because steps ran.
VerifyJudged(ok) ==
  /\ pc = "verify"
  /\ Approved
  /\ ~HardFail
  /\ ok \/ Answers(browser)
  /\ VerifyResult([success |-> ok, skipped |-> FALSE])

\* the snapshot or the model call throws
VerifyThrows ==
  /\ pc = "verify"
  /\ Approved
  /\ ~HardFail
  /\ Throw
  /\ UNCHANGED <<planVars, browserVars, execVars>>

ExecutePhase ==
  \/ SkipMaterialize \/ Materialize \/ MaterializeThrows
  \/ SkipExecute \/ ReuseSession \/ DropSession
  \/ LaunchExecute \/ LaunchExecuteThrows \/ Walk \/ WalkThrows
  \/ VerifySkipped \/ VerifyHardFails
  \/ \E ok \in BOOLEAN : VerifyJudged(ok)
  \/ VerifyThrows

-----------------------------------------------------------------------------
(* humanVerifyGateStep: the loop of backtracks after execution.            *)

\* A skipped result passes through, but only where the step begins; a
\* backtrack loops back without asking.
PassThrough == backtrackCount = 0 /\ verify.skipped

SkipVerifyGate ==
  /\ pc = "open_verify_gate"
  /\ PassThrough
  /\ pc' = "log_and_notify"
  /\ UNCHANGED <<gateVars, planVars, browserVars, execVars, runVars, histVars>>

OpenVerifyGate ==
  /\ pc = "open_verify_gate"
  /\ ~PassThrough
  /\ Gate!Ask("human_verify_gate")
  /\ pc' = "human_verify_gate"
  /\ UNCHANGED <<planVars, browserVars, execVars, runVars, histVars>>

\* edit counts as approve after execution
AcceptResult ==
  /\ pc = "human_verify_gate"
  /\ Gate!Continue
  /\ answer.decision \in {"approve", "edit"}
  /\ pc' = "log_and_notify"
  /\ UNCHANGED <<planVars, browserVars, execVars, runVars, histVars>>

BacktrackBudgetLeft == backtrackCount < MaxBacktracks

Backtrack ==
  /\ pc = "human_verify_gate"
  /\ Gate!Continue
  /\ answer.decision = "reject"
  /\ BacktrackBudgetLeft
  /\ backtrackCount' = backtrackCount + 1
  /\ refineCount' = 0
  /\ pass' = 0
  /\ pc' = "classify"
  /\ UNCHANGED <<skillCard, boundary, review, browserVars, execVars, runVars, histVars>>

\* terminate, or a reject with the budget used up
RefuseResult ==
  /\ pc = "human_verify_gate"
  /\ Gate!Continue
  /\ \/ answer.decision = "terminate"
     \/ answer.decision = "reject" /\ ~BacktrackBudgetLeft
  /\ verify' = [success |-> FALSE, skipped |-> TRUE]
  /\ refused' = TRUE
  /\ terminated' = (terminated \/ answer.decision = "terminate")
  /\ pc' = "log_and_notify"
  /\ UNCHANGED <<planVars, browserVars, tempSkillCard, resume, stepsRun,
                 executed, executions, runVars>>

VerifyGate ==
  SkipVerifyGate \/ OpenVerifyGate \/ AcceptResult \/ Backtrack \/ RefuseResult

-----------------------------------------------------------------------------
(* logAndNotifyStep and the second half of the wrapper.                    *)

StatusOf(v) == IF v.skipped THEN "rejected" ELSE IF v.success THEN "ok" ELSE "failed"

LogAndNotify ==
  /\ pc = "log_and_notify"
  /\ outcome' = StatusOf(verify)
  /\ pc' = "finally"
  /\ UNCHANGED <<gateVars, planVars, browserVars, execVars, row, frames, histVars>>

\* The engine looks at its signal between the steps of the workflow, and ends
\* the run there.
BetweenSteps ==
  \/ pc \in {"materialize", "execute", "verify", "open_verify_gate"} /\ backtrackCount = 0
  \/ pc = "open_review_gate" /\ backtrackCount = 0 /\ refineCount = 0
  \/ pc = "log_and_notify"

CancelRun ==
  /\ aborted
  /\ BetweenSteps
  /\ Throw
  /\ UNCHANGED <<planVars, browserVars, execVars>>

Finally ==
  /\ pc = "finally"
  /\ CloseAtEnd
  /\ pc' = "complete"
  /\ UNCHANGED <<gateVars, planVars, execVars, runVars, histVars>>

\* run.completed is published after a failure too.
ClosedBySuccess == IF outcome = "failed" THEN frames ELSE Append(frames, "run.completed")
Closed == Append(frames, "run.completed")

Complete ==
  /\ pc = "complete"
  /\ frames' = Closed
  /\ pc' = "update_row"
  /\ UNCHANGED <<gateVars, planVars, browserVars, execVars, outcome, row, histVars>>

UpdateRow ==
  /\ pc = "update_row"
  /\ row' = outcome
  /\ pc' = "grace"
  /\ UNCHANGED <<gateVars, planVars, browserVars, execVars, outcome, frames, histVars>>

\* The update throws: the row stays running and nothing is ever disposed.
UpdateRowFails ==
  /\ pc = "update_row"
  /\ pc' = "done"
  /\ UNCHANGED <<gateVars, planVars, browserVars, execVars, runVars, histVars>>

Dispose ==
  /\ pc = "grace"
  /\ pc' = "done"
  /\ UNCHANGED <<gateVars, planVars, browserVars, execVars, runVars, histVars>>

Wrapper ==
  \/ Start \/ CreateRunFails \/ LogAndNotify \/ Finally \/ Complete
  \/ UpdateRow \/ UpdateRowFails \/ Dispose

-----------------------------------------------------------------------------
(* The reviewer, through a register that keeps the promise of ReviewRounds. *)

\* A decision for the open question.
Reviewer(s) ==
  /\ Gate!Answer(s)
  /\ UNCHANGED <<pc, planVars, browserVars, execVars, runVars, histVars>>

\* A decision nobody asked for yet. Only the first question of a gate takes one;
\* what Gate!Ask throws away unread before a later question is left out.
EarlyReviewer(s) ==
  /\ pc # "done"
  /\ rounds[s.gate] = 0
  /\ Gate!KeepEarly(s)
  /\ UNCHANGED <<pc, planVars, browserVars, execVars, runVars, histVars>>

Workflow ==
  Wrapper \/ CancelRun \/ Block1 \/ ReviewGate \/ ExecutePhase \/ VerifyGate

Init ==
  /\ pc = "create_run"
  /\ backtrackCount = 0 /\ refineCount = 0 /\ pass = 0
  /\ skillCard = FALSE /\ boundary = FALSE
  /\ review = [decision |-> "terminate",
               plan |-> [backtrack |-> 0, refine |-> 0, pass |-> 0]]
  /\ tempSkillCard = None
  /\ browser = None /\ live = {} /\ lingering = 0
  /\ aborted = FALSE
  /\ resume = FALSE /\ stepsRun = FALSE
  /\ verify = [success |-> FALSE, skipped |-> FALSE]
  /\ outcome = "failed" /\ row = "running" /\ frames = <<>>
  /\ executed = None /\ executions = 0
  /\ refused = FALSE /\ terminated = FALSE
  /\ Gate!Init

Terminating == pc = "done" /\ UNCHANGED vars

Next ==
  \/ Workflow
  \/ SessionDies \/ Abort
  \/ \E s \in Submissions : Reviewer(s) \/ EarlyReviewer(s)
  \/ Terminating

Spec == Init /\ [][Next]_vars

\* Every call a step makes returns or throws (model and tool calls have their
\* own timeouts), and a reviewer answers each open question: awaiting a
\* decision has no timeout.
FairSpec == Spec /\ WF_vars(Workflow) /\ WF_vars(\E s \in Submissions : Reviewer(s))

-----------------------------------------------------------------------------
(* Properties.                                                             *)

Labels == {"create_run", "classify", "retrieve", "plan", "pre_close",
           "load_scaffold", "explore", "open_review_gate", "review_gate",
           "materialize", "execute", "relaunch", "walk", "verify", "open_verify_gate",
           "human_verify_gate", "log_and_notify", "finally", "complete", "update_row", "grace", "done"}

TypeOK ==
  /\ pc \in Labels
  /\ backtrackCount \in 0..MaxBacktracks
  /\ refineCount \in 0..MaxPreGateRefines
  /\ pass \in 0..Block1MaxPasses - 1
  /\ skillCard \in BOOLEAN /\ boundary \in BOOLEAN
  /\ review \in [decision : {"approve", "terminate"}, plan : Plans]
  /\ tempSkillCard \in Plans \union {None}
  /\ browser \in Sessions \union {None}
  /\ live \in SUBSET Sessions /\ lingering \in Nat
  /\ aborted \in BOOLEAN
  /\ resume \in BOOLEAN /\ stepsRun \in BOOLEAN
  /\ verify \in [success : BOOLEAN, skipped : BOOLEAN]
  /\ outcome \in {"ok", "failed", "rejected"}
  /\ row \in {"running", "ok", "failed", "rejected"}
  /\ frames \in Seq({"run.started", "run.failed", "run.completed"})
  /\ executed \in Plans \union {None}
  /\ executions \in Nat
  /\ refused \in BOOLEAN /\ terminated \in BOOLEAN
  /\ question \in Gates \union {None}
  /\ answer \in Submissions \union {None}
  /\ early \in [Gates -> Submissions \union {None}]
  /\ rounds \in [Gates -> 0..MaxSlots]

\* The skill card about to be walked was materialized from the plan the latest
\* review approved, that plan is the one Block 1 produced last, its dry run
\* reached the boundary, and it was not walked before.
WalksTheApprovedPlan ==
  pc = "walk" =>
    /\ review.decision = "approve"
    /\ review.plan = CurrentPlan
    /\ boundary
    /\ tempSkillCard = review.plan
    /\ executed # review.plan

\* Resuming at the first destructive step happens only in the very session in
\* which the dry run of that plan walked the steps before it; otherwise the
\* whole card runs in a session launched for it.
WalksItsOwnSession ==
  pc = "walk" =>
    browser = [by |-> IF resume THEN "dry_run" ELSE "execute", for |-> tempSkillCard]

\* No session is forgotten: one whose close() was never called is the one
\* ctx.browser holds, and there is none once the wrapper's finally has run. What
\* lives beside it, or beyond the run, was left behind by a kill that failed or a
\* crash of npx alone, and is one process more when the run was aborted, whose
\* teardown nobody waited for: where none of that happens, one browser is alive at
\* most, and none at the end.
NoSessionIsForgotten ==
  /\ live \subseteq {browser}
  /\ pc \in {"complete", "update_row", "grace", "done"} => live = {}
  /\ lingering <= MaxOrphans + (IF aborted THEN 1 ELSE 0)

\* The budgets bound a whole run: questions asked and cards walked.
BudgetsBoundTheRun ==
  /\ rounds["review_gate"] <= (backtrackCount + 1) * (MaxPreGateRefines + 1)
  /\ rounds["human_verify_gate"] <= backtrackCount + 1
  /\ executions <= backtrackCount + 1

\* A run ends ok only when the latest card was walked, ran steps and passed
\* verification, and rejected only when a reviewer refused.
StatusTellsTheStory ==
  pc \in {"finally", "complete", "update_row", "grace"} =>
    /\ outcome = "ok" => executed = CurrentPlan /\ stepsRun /\ verify.success
    /\ outcome = "rejected" => refused

\* On every exit path of a started run exactly one run.completed closes the
\* timeline, and the row only ever shows the status it announced.
CompletedClosesTheRun ==
  /\ pc \in {"update_row", "grace", "done"} /\ frames # <<>> =>
       /\ frames[Len(frames)] = "run.completed"
       /\ \A k \in 1..Len(frames) - 1 : frames[k] # "run.completed"
  /\ row # "running" => row = outcome /\ frames[Len(frames)] = "run.completed"

\* Under a reviewer who answers, every run ends: no loop of passes, refines and
\* backtracks goes on for ever and no gate is left unanswered.
RunEnds == <>(pc = "done")

\* What the wire contract says of terminate: the run stops, no further question
\* is asked and nothing more is executed.
TerminateStopsTheRun ==
  [][terminated => UNCHANGED <<rounds, executions>>]_vars

\* What the gate's comment says of its budget: refines of one run, edits and
\* rejects together, stay within one cap.
RefinesWithinOneCap == rounds["review_gate"] <= MaxPreGateRefines + 1

\* What the gate's comment says of an accepted result: the run ends ok.
AcceptedMeansOk ==
  [][LogAndNotify /\ ~refused => outcome' = "ok"]_vars

=============================================================================
