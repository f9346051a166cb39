--------------------------- MODULE TriageRun_proofs ---------------------------
(***************************************************************************)
(* Proofs about TriageRun, for any budgets of passes, refines and          *)
(* backtracks.                                                             *)
(***************************************************************************)
EXTENDS TriageRun, SequenceTheorems, FiniteSetTheorems, TLAPS

\* From the review on, the review is about the plan Block 1 produced last, and
\* the card made from it is ready when it is needed.
Reviewed == {"materialize", "execute", "relaunch", "walk", "verify"}

CardIsThePlan ==
  /\ pc \in Reviewed => review.plan = CurrentPlan
  /\ pc \in {"relaunch", "walk"} => Approved
  /\ pc \in {"execute", "relaunch", "walk"} /\ Approved =>
       tempSkillCard = review.plan /\ boundary

\* The stages of a pass of Block 1.
Passes == {"classify", "retrieve", "plan", "pre_close", "load_scaffold", "explore"}

\* Up to the walk, what was walked belongs to an earlier backtrack.
BeforeTheWalk ==
  {"create_run", "open_review_gate", "review_gate", "materialize", "execute", "relaunch",
   "walk"} \union Passes

EachPlanOnce ==
  executed # None =>
    /\ executed.backtrack <= backtrackCount
    /\ pc \in BeforeTheWalk => executed.backtrack < backtrackCount

\* A plan that reached its boundary left its session for the execution.
SessionIsThePlans ==
  /\ pc = "explore" => browser = [by |-> "dry_run", for |-> CurrentPlan]
  /\ pc \in {"open_review_gate", "review_gate", "materialize", "execute"} /\ boundary =>
       browser = [by |-> "dry_run", for |-> CurrentPlan]
  /\ WalksItsOwnSession

\* A dry run, and so a boundary, needs a plan that names a skill card.
BoundaryNeedsACard ==
  /\ pc = "explore" => skillCard
  /\ pc \in {"open_review_gate", "review_gate", "materialize"} /\ boundary => skillCard

\* A session is launched, and the run ends, with every earlier one closed.
OneOpenSession ==
  /\ live \subseteq {browser}
  /\ pc \in {"create_run", "load_scaffold", "relaunch", "complete", "update_row", "grace", "done"}
       => live = {}

\* What lingers was left behind by a failed kill or a crash, but for the one
\* process that the abort signal may have closed behind the run's back.
StraysAreCounted == lingering <= MaxOrphans + (IF aborted THEN 1 ELSE 0)

\* The result on its way to the gate and to the end says what happened.
StoryIsTrue ==
  /\ pc \in Reviewed /\ ~Approved => refused
  /\ pc = "verify" /\ Approved => executed = CurrentPlan
  /\ pc \in {"open_verify_gate", "human_verify_gate", "log_and_notify"} =>
       /\ verify.skipped => refused
       /\ verify.success /\ ~verify.skipped => executed = CurrentPlan /\ stepsRun
  /\ StatusTellsTheStory

\* The frames of the run at each of its stages, and its row.
Opened == {<<"run.started">>, <<"run.started", "run.failed">>}
Bracketed == {<<"run.started", "run.completed">>,
              <<"run.started", "run.failed", "run.completed">>}
Ending == {"finally", "complete", "update_row", "grace", "done"}

FramesFollowTheRun ==
  /\ pc = "create_run" => frames = <<>>
  /\ pc \notin Ending \union {"create_run"} => frames = <<"run.started">>
  /\ pc \in {"finally", "complete"} => frames \in Opened
  /\ pc \in {"update_row", "grace"} => frames \in Bracketed
  /\ pc = "done" => frames \in Bracketed \union {<<>>}
  /\ pc \notin {"grace", "done"} => row = "running"
  /\ row # "running" => row = outcome /\ frames \in Bracketed

IInv ==
  /\ TypeOK
  /\ CardIsThePlan
  /\ EachPlanOnce
  /\ SessionIsThePlans
  /\ BoundaryNeedsACard
  /\ OneOpenSession
  /\ StraysAreCounted
  /\ StoryIsTrue
  /\ FramesFollowTheRun

-----------------------------------------------------------------------------
(* Types.                                                                  *)

GateType ==
  /\ question \in Gates \union {None}
  /\ answer \in Submissions \union {None}
  /\ early \in [Gates -> Submissions \union {None}]
  /\ rounds \in [Gates -> 0..MaxSlots]

RunType ==
  /\ pc \in Labels
  /\ backtrackCount \in 0..MaxBacktracks
  /\ refineCount \in 0..MaxPreGateRefines
  /\ pass \in 0..Block1MaxPasses - 1
  /\ skillCard \in BOOLEAN /\ boundary \in BOOLEAN
  /\ review \in [decision : {"approve", "terminate"}, plan : Plans]
  /\ tempSkillCard \in Plans \union {None}
  /\ browser \in Sessions \union {None}
  /\ live \in SUBSET Sessions /\ lingering \in Nat
  /\ aborted \in BOOLEAN
  /\ resume \in BOOLEAN /\ stepsRun \in BOOLEAN
  /\ verify \in [success : BOOLEAN, skipped : BOOLEAN]
  /\ outcome \in {"ok", "failed", "rejected"}
  /\ row \in {"running", "ok", "failed", "rejected"}
  /\ frames \in Seq({"run.started", "run.failed", "run.completed"})
  /\ executed \in Plans \union {None}
  /\ executions \in Nat
  /\ refused \in BOOLEAN /\ terminated \in BOOLEAN

USE TriageAssumption

LEMMA TypeSplits == TypeOK <=> RunType /\ GateType
  BY DEF TypeOK, RunType, GateType

LEMMA MaxSlotsType == MaxSlots \in Nat
  <1> DEFINE b == MaxBacktracks + 1
             r == MaxPreGateRefines + 1
  <1>1. b \in Nat /\ r \in Nat
    OBVIOUS
  <1>2. b * r \in Nat
    <2> HIDE DEF b, r
    <2> QED
      BY <1>1
  <1> QED
    BY <1>2 DEF MaxSlots

LEMMA CurrentPlanType ==
  ASSUME RunType
  PROVE  CurrentPlan \in Plans
  BY DEF RunType, CurrentPlan, Plans

\* What the gates do keeps their types.
LEMMA AskType ==
  ASSUME GateType, NEW g \in Gates, Gate!Ask(g)
  PROVE  GateType'
  <1>1. /\ question' = g
        /\ rounds' = [rounds EXCEPT ![g] = rounds[g] + 1]
        /\ rounds[g] < MaxSlots
        /\ answer' = IF rounds[g] = 0 THEN early[g] ELSE None
        /\ early' = [early EXCEPT ![g] = None]
    BY DEF Gate!Ask
  <1>2. rounds[g] + 1 \in 0..MaxSlots
    BY <1>1, MaxSlotsType DEF GateType
  <1>3. rounds' \in [Gates -> 0..MaxSlots]
    BY <1>1, <1>2 DEF GateType
  <1> QED
    BY <1>1, <1>3 DEF GateType

LEMMA ContinueType ==
  ASSUME GateType, Gate!Continue
  PROVE  GateType'
  BY DEF GateType, Gate!Continue

LEMMA ReviewerType ==
  ASSUME GateType, NEW s \in Submissions, Gate!Answer(s) \/ Gate!KeepEarly(s)
  PROVE  GateType'
  <1>1. TargetOf[s] \in Gates
    BY DEF TargetOf, Submissions
  <1> QED
    BY <1>1 DEF GateType, Gate!Answer, Gate!KeepEarly

\* Every step of the workflow keeps the types: the steps that leave most alone
\* together, the others one by one.
LEMMA EndPassType ==
  ASSUME RunType, GateType, NEW ok \in BOOLEAN, EndPass(ok), UNCHANGED browserVars,
         skillCard' \in BOOLEAN
  PROVE  RunType' /\ GateType'
  BY DEF RunType, GateType, Labels, EndPass, CountPass, gateVars, browserVars, execVars, runVars,
         histVars

LEMMA ThrowType ==
  ASSUME RunType, GateType, Throw, UNCHANGED <<planVars, browserVars>>,
         UNCHANGED <<tempSkillCard, resume, stepsRun, verify>>,
         executed' \in Plans \union {None}, executions' \in Nat
  PROVE  RunType' /\ GateType'
  <1>1. frames' \in Seq({"run.started", "run.failed", "run.completed"})
    BY DEF RunType, Throw
  <1>2. RunType'
    BY <1>1 DEF RunType, Labels, Throw, planVars, browserVars, histVars
  <1>3. GateType'
    BY DEF GateType, Throw, gateVars
  <1> QED
    BY <1>2, <1>3

\* close() moves a process from one count to the other, or ends it.
LEMMA CloseType ==
  ASSUME RunType, NEW s, Close(s)
  PROVE  /\ live' = live \ {s} /\ live' \in SUBSET Sessions
         /\ lingering' \in Nat
         /\ lingering' = lingering \/ (lingering < MaxOrphans /\ lingering' = lingering + 1)
  BY DEF RunType, Close, KillFails, LeftBehind

LEMMA Block1Type ==
  ASSUME RunType, GateType, Block1
  PROVE  RunType' /\ GateType'
  <1>1. CASE Classify \/ Retrieve
    BY <1>1 DEF RunType, GateType, Labels, Classify, Retrieve, gateVars, planVars, browserVars,
                execVars, runVars, histVars
  <1>6. CASE \E r \in Replies : PlanActionable(r)
    BY <1>6 DEF RunType, GateType, Labels, PlanActionable, Replies, NamesCard, gateVars,
                browserVars, execVars, runVars, histVars
  <1>2. CASE NoScaffold \/ \E found \in BOOLEAN : Explore(found)
    BY <1>2, EndPassType DEF NoScaffold, Explore, RunType
  <1>7. CASE \E r \in Replies : PlanRefuses(r)
    <2>1. PICK r \in Replies : PlanRefuses(r)
      BY <1>7
    <2>2. NamesCard(r) \in BOOLEAN
      BY DEF Replies, NamesCard
    <2> QED
      BY <2>1, <2>2, EndPassType DEF PlanRefuses
  <1>3. CASE CognitiveThrows \/ DryRunThrows
    <2>1. Throw /\ UNCHANGED <<planVars, browserVars, execVars>>
      BY <1>3 DEF CognitiveThrows, DryRunThrows
    <2> QED
      BY <2>1, ThrowType DEF execVars, RunType
  <1>4. CASE PreClose
    BY <1>4, CloseType DEF RunType, GateType, Labels, PreClose, CloseCurrent, gateVars,
                           planVars, execVars, runVars, histVars
  <1>5. CASE LaunchDryRun
    <2>1. [by |-> "dry_run", for |-> CurrentPlan] \in Sessions
      BY CurrentPlanType DEF Sessions
    <2> QED
      BY <1>5, <2>1 DEF RunType, GateType, Labels, LaunchDryRun, Launch, Stash, gateVars,
                planVars, execVars, runVars, histVars
  <1> QED
    BY <1>1, <1>2, <1>3, <1>4, <1>5, <1>6, <1>7 DEF Block1

LEMMA ReviewGateType ==
  ASSUME RunType, GateType, ReviewGate
  PROVE  RunType' /\ GateType'
  <1>1. CASE OpenReviewGate
    <2>1. GateType'
      BY <1>1, AskType DEF OpenReviewGate, Gates
    <2>2. RunType'
      BY <1>1 DEF RunType, Labels, OpenReviewGate, planVars, browserVars, execVars,
                  runVars, histVars
    <2> QED
      BY <2>1, <2>2
  <1>2. CASE ApprovePlan \/ Refine \/ TerminatePlan
    <2>1. GateType'
      BY <1>2, ContinueType DEF ApprovePlan, Refine, TerminatePlan
    <2>2. CASE ApprovePlan
      <3>1. review' \in [decision : {"approve", "terminate"}, plan : Plans]
        BY <2>2, CurrentPlanType DEF ApprovePlan
      <3> QED
        BY <2>1, <2>2, <3>1 DEF RunType, Labels, ApprovePlan, browserVars, execVars, runVars,
                                histVars
    <2>3. CASE Refine
      <3>1. refineCount' \in 0..MaxPreGateRefines /\ pass' \in 0..Block1MaxPasses - 1
        BY <2>3 DEF Refine, RefineBudgetLeft, RunType
      <3> QED
        BY <2>1, <2>3, <3>1 DEF RunType, Labels, Refine, browserVars, execVars, runVars,
                                histVars
    <2>4. CASE TerminatePlan
      <3>1. /\ review' \in [decision : {"approve", "terminate"}, plan : Plans]
            /\ refused' \in BOOLEAN /\ terminated' \in BOOLEAN
        BY <2>4, CurrentPlanType DEF TerminatePlan
      <3>4. IF backtrackCount = 0
            THEN pc' = "materialize" /\ UNCHANGED <<stepsRun, verify>>
            ELSE /\ pc' = "open_verify_gate"
                 /\ stepsRun' = FALSE
                 /\ verify' = [success |-> FALSE, skipped |-> TRUE]
        BY <2>4 DEF TerminatePlan
      <3>2. /\ pc' \in Labels /\ stepsRun' \in BOOLEAN
            /\ verify' \in [success : BOOLEAN, skipped : BOOLEAN]
        <4>1. stepsRun \in BOOLEAN /\ verify \in [success : BOOLEAN, skipped : BOOLEAN]
          BY DEF RunType
        <4>2. CASE backtrackCount = 0
          <5>1. pc' = "materialize" /\ stepsRun' = stepsRun /\ verify' = verify
            BY <3>4, <4>2
          <5> QED
            BY <4>1, <5>1 DEF Labels
        <4>3. CASE backtrackCount # 0
          <5>1. /\ pc' = "open_verify_gate" /\ stepsRun' = FALSE
                /\ verify' = [success |-> FALSE, skipped |-> TRUE]
            BY <3>4, <4>3
          <5> QED
            BY <5>1 DEF Labels
        <4> QED
          BY <4>2, <4>3
      <3>3. UNCHANGED <<backtrackCount, refineCount, pass, skillCard, boundary, browserVars,
                        tempSkillCard, resume, executed, executions, runVars>>
        BY <2>4 DEF TerminatePlan
      <3> QED
        BY <2>1, <3>1, <3>2, <3>3, SMTT(30) DEF RunType, browserVars, runVars
    <2> QED
      BY <1>2, <2>1, <2>2, <2>3, <2>4
  <1> QED
    BY <1>1, <1>2 DEF ReviewGate

LEMMA ExecutePhaseType ==
  ASSUME RunType, GateType, CardIsThePlan, ExecutePhase
  PROVE  RunType' /\ GateType'
  <1>1. CASE SkipMaterialize \/ Materialize
    BY <1>1 DEF RunType, GateType, Labels, SkipMaterialize, Materialize, CardFor, gateVars,
                planVars, browserVars, execVars, runVars, histVars
  <1>7. CASE SkipExecute
    <2>1. /\ pc' \in Labels /\ stepsRun' \in BOOLEAN
          /\ UNCHANGED <<gateVars, planVars, browserVars, tempSkillCard, resume, verify,
                        executed, executions, runVars, histVars>>
      BY <1>7 DEF SkipExecute, Labels
    <2> QED
      BY <2>1 DEF RunType, GateType, gateVars, planVars, browserVars, runVars, histVars
  <1>9. CASE ReuseSession
    BY <1>9 DEF RunType, GateType, Labels, ReuseSession, gateVars, planVars, browserVars,
                runVars, histVars
  <1>8. CASE DropSession
    BY <1>8, CloseType DEF RunType, GateType, Labels, DropSession, CloseCurrent, gateVars,
                           planVars, execVars, runVars, histVars
  <1>2. CASE MaterializeThrows \/ LaunchExecuteThrows \/ VerifyThrows
    <2>1. Throw /\ UNCHANGED <<planVars, browserVars, execVars>>
      BY <1>2 DEF MaterializeThrows, LaunchExecuteThrows, VerifyThrows
    <2> QED
      BY <2>1, ThrowType DEF execVars, RunType
  <1>3. CASE LaunchExecute
    <2>1. [by |-> "execute", for |-> tempSkillCard] \in Sessions
      BY <1>3 DEF LaunchExecute, CardIsThePlan, RunType, Sessions
    <2>2. /\ browser' \in Sessions \union {None} /\ live' \in SUBSET Sessions
          /\ lingering' \in Nat /\ aborted' \in BOOLEAN
      BY <1>3, <2>1 DEF LaunchExecute, Launch, Stash, RunType
    <2>3. GateType'
      BY <1>3 DEF LaunchExecute, GateType, gateVars
    <2>4. /\ pc' \in Labels /\ resume' \in BOOLEAN
          /\ UNCHANGED <<planVars, tempSkillCard, stepsRun, verify, executed, executions,
                        runVars, histVars>>
      BY <1>3 DEF LaunchExecute, Labels
    <2> QED
      BY <2>2, <2>3, <2>4 DEF RunType, planVars, runVars, histVars
  <1>4. CASE Walk
    BY <1>4 DEF RunType, GateType, Labels, Walk, Walked, gateVars, planVars, browserVars,
                runVars, histVars
  <1>5. CASE WalkThrows
    <2>1. /\ Throw /\ UNCHANGED <<planVars, browserVars>>
          /\ UNCHANGED <<tempSkillCard, resume, stepsRun, verify>>
          /\ executed' = tempSkillCard /\ executions' = executions + 1
      BY <1>5 DEF WalkThrows, Walked
    <2>2. executed' \in Plans \union {None} /\ executions' \in Nat
      BY <2>1 DEF RunType
    <2> QED
      BY <2>1, <2>2, ThrowType
  <1>6. CASE VerifySkipped \/ VerifyHardFails \/ \E ok \in BOOLEAN : VerifyJudged(ok)
    <2>1. PICK r \in [success : BOOLEAN, skipped : BOOLEAN] : VerifyResult(r)
      BY <1>6 DEF VerifySkipped, VerifyHardFails, VerifyJudged
    <2> QED
      BY <2>1 DEF RunType, GateType, Labels, VerifyResult, gateVars, planVars, browserVars,
                  runVars, histVars
  <1> QED
    BY <1>1, <1>2, <1>3, <1>4, <1>5, <1>6, <1>7, <1>8, <1>9 DEF ExecutePhase

LEMMA VerifyGateType ==
  ASSUME RunType, GateType, VerifyGate
  PROVE  RunType' /\ GateType'
  <1>1. CASE SkipVerifyGate
    BY <1>1 DEF RunType, GateType, Labels, SkipVerifyGate, gateVars, planVars, browserVars,
                execVars, runVars, histVars
  <1>2. CASE OpenVerifyGate
    <2>1. GateType'
      BY <1>2, AskType DEF OpenVerifyGate, Gates
    <2>2. RunType'
      BY <1>2 DEF RunType, Labels, OpenVerifyGate, planVars, browserVars, execVars,
                  runVars, histVars
    <2> QED
      BY <2>1, <2>2
  <1>3. CASE AcceptResult \/ Backtrack \/ RefuseResult
    <2>1. GateType'
      BY <1>3, ContinueType DEF AcceptResult, Backtrack, RefuseResult
    <2>2. CASE AcceptResult
      BY <2>1, <2>2 DEF RunType, Labels, AcceptResult, planVars, browserVars, execVars,
                        runVars, histVars
    <2>3. CASE Backtrack
      <3>1. /\ backtrackCount' \in 0..MaxBacktracks /\ refineCount' \in 0..MaxPreGateRefines
            /\ pass' \in 0..Block1MaxPasses - 1
        BY <2>3 DEF Backtrack, BacktrackBudgetLeft, RunType
      <3> QED
        BY <2>1, <2>3, <3>1 DEF RunType, Labels, Backtrack, browserVars, execVars, runVars,
                                histVars
    <2>4. CASE RefuseResult
      <3>1. /\ verify' \in [success : BOOLEAN, skipped : BOOLEAN]
            /\ refused' \in BOOLEAN /\ terminated' \in BOOLEAN
        BY <2>4 DEF RefuseResult
      <3> QED
        BY <2>1, <2>4, <3>1 DEF RunType, Labels, RefuseResult, planVars, browserVars, runVars
    <2> QED
      BY <1>3, <2>2, <2>3, <2>4
  <1> QED
    BY <1>1, <1>2, <1>3 DEF VerifyGate

LEMMA WrapperType ==
  ASSUME RunType, GateType, Wrapper
  PROVE  RunType' /\ GateType'
  <1>1. CASE Start \/ Complete
    <2>1. frames' \in Seq({"run.started", "run.failed", "run.completed"})
      BY <1>1 DEF Start, Complete, Closed, RunType
    <2> QED
      BY <1>1, <2>1 DEF RunType, GateType, Labels, Start, Complete, gateVars, planVars,
                        browserVars, execVars, histVars
  <1>4. CASE CreateRunFails \/ UpdateRow \/ UpdateRowFails \/ Dispose
    BY <1>4 DEF RunType, GateType, Labels, CreateRunFails, UpdateRow, UpdateRowFails, Dispose,
                gateVars, planVars, browserVars, execVars, runVars, histVars
  <1>2. CASE LogAndNotify
    BY <1>2 DEF RunType, GateType, Labels, LogAndNotify, StatusOf, gateVars, planVars,
                browserVars, execVars, histVars
  <1>3. CASE Finally
    BY <1>3, CloseType DEF RunType, GateType, Labels, Finally, CloseAtEnd, gateVars, planVars,
                           execVars, runVars, histVars
  <1> QED
    BY <1>1, <1>2, <1>3, <1>4 DEF Wrapper

\* A cancelled run stops in between, as a step that throws would stop it.
LEMMA CancelLeads ==
  ASSUME CancelRun
  PROVE  /\ Throw /\ UNCHANGED <<planVars, browserVars, execVars>>
         /\ pc \in Reviewed \union {"open_review_gate", "open_verify_gate", "log_and_notify"}
  BY DEF CancelRun, BetweenSteps, Reviewed

\* At most one session listens to the signal: the one ctx.browser holds.
LEMMA ListenersCount ==
  ASSUME OneOpenSession
  PROVE  Cardinality(Listeners) \in 0..1
  <1>1. Listeners \subseteq {browser}
    BY DEF Listeners, OneOpenSession
  <1>2. IsFiniteSet({browser}) /\ Cardinality({browser}) = 1
    BY FS_Singleton
  <1>3. IsFiniteSet(Listeners) /\ Cardinality(Listeners) <= 1
    BY <1>1, <1>2, FS_Subset
  <1> QED
    BY <1>3, FS_CardinalityType

\* The reviewer moves the gates only, a dying session the processes only.
LEMMA ReviewerFrame ==
  ASSUME GateType, NEW s \in Submissions, Reviewer(s) \/ EarlyReviewer(s)
  PROVE  /\ GateType'
         /\ UNCHANGED <<pc, planVars, browserVars, execVars, runVars, histVars>>
  BY ReviewerType DEF Reviewer, EarlyReviewer

LEMMA TypePreserved ==
  ASSUME TypeOK, CardIsThePlan, OneOpenSession, [Next]_vars
  PROVE  TypeOK'
  <1> USE TypeSplits
  <1>1. TypeOK' <=> RunType' /\ GateType'
    BY DEF TypeOK, RunType, GateType
  <1>2. CASE Workflow
    <2>1. CASE CancelRun
      BY <1>1, <2>1, CancelLeads, ThrowType DEF execVars, RunType
    <2> QED
      BY <1>1, <1>2, <2>1, WrapperType, Block1Type, ReviewGateType, ExecutePhaseType,
         VerifyGateType DEF Workflow
  <1>3. CASE SessionDies
    BY <1>1, <1>3 DEF SessionDies, LeftBehind, RunType, GateType, gateVars, planVars, execVars,
                      runVars, histVars
  <1>4. CASE \E s \in Submissions : Reviewer(s) \/ EarlyReviewer(s)
    <2>1. GateType' /\ UNCHANGED <<pc, planVars, browserVars, execVars, runVars, histVars>>
      BY <1>4, ReviewerFrame
    <2> QED
      BY <1>1, <2>1 DEF RunType, planVars, browserVars, execVars, runVars, histVars
  <1>5. CASE UNCHANGED vars
    BY <1>1, <1>5 DEF RunType, GateType, vars, gateVars, planVars, browserVars, execVars,
                      runVars, histVars
  <1>6. CASE Abort
    <2>1. lingering' \in Nat /\ aborted' \in BOOLEAN /\ live' \in SUBSET Sessions
      BY <1>6, ListenersCount DEF Abort, SignalFires, RunType
    <2> QED
      BY <1>1, <1>6, <2>1 DEF Abort, RunType, GateType, gateVars, planVars, execVars, runVars,
                              histVars
  <1> QED
    BY <1>2, <1>3, <1>4, <1>5, <1>6 DEF Next, Terminating

-----------------------------------------------------------------------------
(* What the parts of the invariant have in common: where each phase leads. *)

\* Whoever is not the workflow leaves its state alone; a session can only die or
\* be closed.
LEMMA QuietFrame ==
  ASSUME [Next]_vars, ~Workflow
  PROVE  /\ UNCHANGED <<pc, planVars, browser, execVars, runVars, histVars>>
         /\ live' \subseteq live
  <1>1. CASE SessionDies \/ Abort
    BY <1>1 DEF SessionDies, Abort, SignalFires
  <1>2. CASE \E s \in Submissions : Reviewer(s) \/ EarlyReviewer(s)
    BY <1>2 DEF Reviewer, EarlyReviewer, browserVars
  <1>3. CASE UNCHANGED vars
    BY <1>3 DEF vars, browserVars
  <1> QED
    BY <1>1, <1>2, <1>3 DEF Next, Terminating

LEMMA WrapperLeads ==
  ASSUME Wrapper
  PROVE  /\ UNCHANGED <<planVars, execVars, histVars, browser>>
         /\ live' \subseteq live
         /\ \/ /\ Start
               /\ pc = "create_run" /\ pc' = "classify"
            \/ /\ pc \in {"create_run", "log_and_notify", "finally", "complete",
                          "update_row", "grace"}
               /\ pc' \in Ending
  <1>1. CASE Start \/ CreateRunFails \/ LogAndNotify
    BY <1>1 DEF Start, CreateRunFails, LogAndNotify, Ending, browserVars
  <1>2. CASE Finally
    BY <1>2 DEF Finally, CloseAtEnd, Close, Ending
  <1>3. CASE Complete \/ UpdateRow \/ UpdateRowFails \/ Dispose
    BY <1>3 DEF Complete, UpdateRow, UpdateRowFails, Dispose, Ending, browserVars
  <1> QED
    BY <1>1, <1>2, <1>3 DEF Wrapper

\* Block 1 runs before the gate, touches no card and decides nothing.
LEMMA Block1Leads ==
  ASSUME Block1
  PROVE  /\ UNCHANGED <<backtrackCount, refineCount, review, execVars, histVars, row>>
         /\ pc \in Passes
         /\ \/ Throw /\ UNCHANGED <<planVars, browserVars>>
            \/ /\ UNCHANGED runVars
               /\ pc' \in Passes \union {"open_review_gate"}
  <1> USE DEF Passes
  <1>1. CASE Classify \/ Retrieve \/ PreClose \/ \E r \in Replies : PlanActionable(r)
    BY <1>1 DEF Classify, Retrieve, PlanActionable, PreClose, planVars, runVars
  <1>2. CASE LaunchDryRun
    BY <1>2 DEF LaunchDryRun, planVars, runVars
  <1>3. CASE NoScaffold \/ \E r \in Replies : PlanRefuses(r)
    BY <1>3 DEF PlanRefuses, NoScaffold, EndPass, runVars
  <1>4. CASE \E found \in BOOLEAN : Explore(found)
    BY <1>4 DEF Explore, EndPass, runVars
  <1>5. CASE CognitiveThrows \/ DryRunThrows
    BY <1>5 DEF CognitiveThrows, DryRunThrows, Throw, planVars
  <1> QED
    BY <1>1, <1>2, <1>3, <1>4, <1>5 DEF Block1

\* The second gate executes nothing; what it decides leads back or to the end.
LEMMA VerifyGateLeads ==
  ASSUME VerifyGate
  PROVE  /\ UNCHANGED <<boundary, review, browserVars, tempSkillCard, resume, stepsRun,
                        executed, executions, runVars>>
         /\ pc \in {"open_verify_gate", "human_verify_gate"}
         /\ \/ Backtrack /\ pc' = "classify" /\ backtrackCount' = backtrackCount + 1
            \/ /\ UNCHANGED <<planVars, execVars, histVars>>
               /\ pc' \in {"human_verify_gate", "log_and_notify"}
            \/ /\ RefuseResult /\ UNCHANGED planVars
               /\ pc' = "log_and_notify"
  <1>1. CASE SkipVerifyGate \/ OpenVerifyGate \/ AcceptResult
    BY <1>1 DEF SkipVerifyGate, OpenVerifyGate, AcceptResult, planVars, execVars
  <1>2. CASE Backtrack
    BY <1>2 DEF Backtrack, execVars
  <1>3. CASE RefuseResult
    BY <1>3 DEF RefuseResult, planVars
  <1> QED
    BY <1>1, <1>2, <1>3 DEF VerifyGate

\* A decision on the plan touches no session and no frame.
LEMMA ReviewGateLeads ==
  ASSUME ReviewGate
  PROVE  /\ UNCHANGED <<backtrackCount, boundary, browserVars, tempSkillCard, resume,
                        executed, executions, runVars>>
         /\ pc \in {"open_review_gate", "review_gate"}
         /\ \/ OpenReviewGate /\ pc' = "review_gate"
            \/ Refine /\ pc' = "classify"
            \/ ApprovePlan /\ pc' = "materialize"
            \/ TerminatePlan /\ pc' = "materialize"
            \/ TerminatePlan /\ pc' = "open_verify_gate" /\ verify'.skipped /\ refused'
  <1>1. CASE OpenReviewGate
    BY <1>1 DEF OpenReviewGate, planVars, execVars
  <1>2. CASE ApprovePlan \/ Refine
    BY <1>2 DEF ApprovePlan, Refine, execVars
  <1>3. CASE TerminatePlan
    <2>1. /\ UNCHANGED <<backtrackCount, boundary, browserVars, tempSkillCard, resume,
                         executed, executions, runVars>>
          /\ pc = "review_gate" /\ refused' = TRUE
      BY <1>3 DEF TerminatePlan
    <2>2. \/ pc' = "materialize"
          \/ pc' = "open_verify_gate" /\ verify' = [success |-> FALSE, skipped |-> TRUE]
      BY <1>3 DEF TerminatePlan
    <2> QED
      BY <1>3, <2>1, <2>2
  <1> QED
    BY <1>1, <1>2, <1>3 DEF ReviewGate

\* Between the gates the plan and the decision stay what they are.
LEMMA ExecuteLeads ==
  ASSUME ExecutePhase
  PROVE  /\ UNCHANGED <<planVars, histVars, row>>
         /\ pc \in Reviewed
         /\ \/ /\ pc' \in Reviewed \union {"open_verify_gate"}
               /\ UNCHANGED runVars
            \/ Throw /\ UNCHANGED <<browserVars, stepsRun, verify>>
  <1>1. CASE SkipMaterialize \/ Materialize \/ SkipExecute \/ ReuseSession
    BY <1>1 DEF SkipMaterialize, Materialize, SkipExecute, ReuseSession, Reviewed, runVars
  <1>2. CASE DropSession \/ LaunchExecute \/ Walk
    BY <1>2 DEF DropSession, LaunchExecute, Walk, Reviewed, runVars
  <1>3. CASE VerifySkipped \/ VerifyHardFails \/ \E ok \in BOOLEAN : VerifyJudged(ok)
    BY <1>3 DEF VerifySkipped, VerifyHardFails, VerifyJudged, VerifyResult, Reviewed, runVars
  <1>4. CASE MaterializeThrows \/ LaunchExecuteThrows \/ VerifyThrows
    BY <1>4 DEF MaterializeThrows, LaunchExecuteThrows, VerifyThrows, Throw, Reviewed, execVars
  <1>5. CASE WalkThrows
    BY <1>5 DEF WalkThrows, Throw, Reviewed
  <1> QED
    BY <1>1, <1>2, <1>3, <1>4, <1>5 DEF ExecutePhase

-----------------------------------------------------------------------------
(* Every step preserves every part of the invariant.                       *)

LEMMA CardPreserved ==
  ASSUME RunType, CardIsThePlan, [Next]_vars
  PROVE  CardIsThePlan'
  <1> USE DEF Reviewed, CurrentPlan, Approved
  <1>1. CASE ~Workflow
    BY <1>1, QuietFrame DEF CardIsThePlan, planVars, execVars
  <1>2. CASE Wrapper \/ CancelRun \/ Block1 \/ VerifyGate
    <2>1. pc' \notin Reviewed
      BY <1>2, WrapperLeads, CancelLeads, Block1Leads, VerifyGateLeads DEF Ending, Throw, Passes
    <2> QED
      BY <2>1 DEF CardIsThePlan
  <1>3. CASE ReviewGate
    <2>1. CASE OpenReviewGate \/ Refine
      <3>1. pc' \notin Reviewed
        BY <2>1 DEF OpenReviewGate, Refine
      <3> QED
        BY <3>1 DEF CardIsThePlan
    <2>2. CASE ApprovePlan \/ TerminatePlan
      <3>1. /\ review'.plan = CurrentPlan
            /\ UNCHANGED <<backtrackCount, refineCount, pass>>
            /\ pc' \in {"materialize", "open_verify_gate"}
        BY <2>2, <1>3, ReviewGateLeads DEF ApprovePlan, TerminatePlan
      <3> QED
        BY <3>1 DEF CardIsThePlan
    <2> QED
      BY <1>3, <2>1, <2>2 DEF ReviewGate
  <1>4. CASE ExecutePhase
    <2>1. UNCHANGED planVars
      BY <1>4, ExecuteLeads
    <2>2. CASE Throw \/ Walk \/ \E r \in [success : BOOLEAN, skipped : BOOLEAN] : VerifyResult(r)
      <3>1. /\ pc' \notin {"execute", "relaunch", "walk"}
            /\ pc' \in Reviewed => pc \in Reviewed
        BY <2>2, <1>4, ExecuteLeads DEF Throw, Walk, VerifyResult
      <3> QED
        BY <2>1, <3>1 DEF CardIsThePlan, planVars
    <2>3. CASE SkipMaterialize \/ SkipExecute
      BY <2>1, <2>3 DEF SkipMaterialize, SkipExecute, CardIsThePlan, planVars
    <2>4. CASE Materialize
      BY <2>1, <2>4 DEF Materialize, CardFor, CardIsThePlan, planVars
    <2>5. CASE ReuseSession \/ DropSession \/ LaunchExecute
      <3>1. /\ pc \in {"execute", "relaunch"} /\ Approved
            /\ pc' \in {"relaunch", "walk"}
            /\ tempSkillCard' = tempSkillCard
        BY <2>5 DEF ReuseSession, DropSession, LaunchExecute, execVars, CardIsThePlan
      <3> QED
        BY <2>1, <3>1 DEF CardIsThePlan, planVars
    <2> QED
      BY <1>4, <2>2, <2>3, <2>4, <2>5 DEF ExecutePhase, MaterializeThrows,
         LaunchExecuteThrows, VerifyThrows, WalkThrows, VerifySkipped, VerifyHardFails,
         VerifyJudged
  <1> QED
    BY <1>1, <1>2, <1>3, <1>4 DEF Workflow

LEMMA OncePreserved ==
  ASSUME RunType, None \notin Plans, CardIsThePlan, EachPlanOnce, [Next]_vars
  PROVE  EachPlanOnce'
  <1> USE DEF BeforeTheWalk, Passes
  <1>1. CASE ~Workflow
    BY <1>1, QuietFrame DEF EachPlanOnce, planVars, execVars
  <1>2. CASE Wrapper
    BY <1>2, WrapperLeads DEF EachPlanOnce, planVars, execVars, Ending
  <1>7. CASE CancelRun
    BY <1>7, CancelLeads DEF EachPlanOnce, planVars, execVars, Throw
  <1>3. CASE Block1
    BY <1>3, Block1Leads DEF EachPlanOnce, execVars, Throw
  <1>4. CASE ReviewGate
    BY <1>4, ReviewGateLeads DEF EachPlanOnce
  <1>5. CASE VerifyGate
    BY <1>5, VerifyGateLeads DEF EachPlanOnce, RunType, Plans, planVars
  <1>6. CASE ExecutePhase
    <2>1. UNCHANGED backtrackCount
      BY <1>6, ExecuteLeads DEF planVars
    <2>2. CASE Walk \/ WalkThrows
      <3>1. /\ executed' = CurrentPlan
            /\ pc' \in {"verify", "finally"}
        BY <2>2 DEF Walk, WalkThrows, Walked, Throw, CardIsThePlan, Reviewed
      <3> QED
        BY <2>1, <3>1 DEF EachPlanOnce, CurrentPlan, RunType
    <2>3. CASE executed' = executed
      <3>1. CASE pc # "verify"
        BY <2>1, <2>3, <3>1, <1>6, ExecuteLeads DEF Reviewed, EachPlanOnce
      <3>2. CASE pc = "verify"
        <4>1. pc' \in {"open_verify_gate", "finally"}
          BY <1>6, <3>2 DEF ExecutePhase, VerifySkipped, VerifyHardFails, VerifyJudged,
             VerifyResult, VerifyThrows, Throw, SkipMaterialize, Materialize,
             MaterializeThrows, SkipExecute, ReuseSession, DropSession, LaunchExecute,
             LaunchExecuteThrows, Walk, WalkThrows
        <4> QED
          BY <2>1, <2>3, <4>1 DEF EachPlanOnce
      <3> QED
        BY <3>1, <3>2
    <2> QED
      BY <1>6, <2>2, <2>3 DEF ExecutePhase, SkipMaterialize, Materialize,
         MaterializeThrows, SkipExecute, ReuseSession, DropSession, LaunchExecute,
         LaunchExecuteThrows, VerifySkipped, VerifyHardFails, VerifyJudged, VerifyResult,
         VerifyThrows, execVars
  <1> QED
    BY <1>1, <1>2, <1>3, <1>4, <1>5, <1>6, <1>7 DEF Workflow

LEMMA SessionPreserved ==
  ASSUME RunType, CardIsThePlan, SessionIsThePlans, [Next]_vars
  PROVE  SessionIsThePlans'
  <1> USE DEF CurrentPlan, WalksItsOwnSession
  <1>1. CASE ~Workflow
    BY <1>1, QuietFrame DEF SessionIsThePlans, planVars, execVars
  <1>2. CASE Wrapper \/ CancelRun
    BY <1>2, WrapperLeads, CancelLeads DEF SessionIsThePlans, Ending, Throw
  <1>3. CASE Block1
    <2>1. CASE LaunchDryRun
      BY <2>1 DEF LaunchDryRun, Launch, Stash, planVars, SessionIsThePlans
    <2>2. CASE \E found \in BOOLEAN : Explore(found)
      BY <2>2 DEF Explore, EndPass, browserVars, SessionIsThePlans
    <2>3. CASE NoScaffold \/ \E r \in Replies : PlanRefuses(r)
      BY <2>3 DEF PlanRefuses, NoScaffold, EndPass, SessionIsThePlans
    <2>4. CASE \/ Classify \/ Retrieve \/ PreClose \/ CognitiveThrows \/ DryRunThrows
               \/ \E r \in Replies : PlanActionable(r)
      <3>1. pc' \in {"retrieve", "plan", "pre_close", "load_scaffold", "finally"}
        BY <2>4 DEF Classify, Retrieve, PlanActionable, PreClose, CognitiveThrows,
                    DryRunThrows, Throw
      <3> QED
        BY <3>1 DEF SessionIsThePlans
    <2> QED
      BY <1>3, <2>1, <2>2, <2>3, <2>4 DEF Block1
  <1>4. CASE ReviewGate
    <2>1. CASE Refine \/ pc' = "open_verify_gate"
      BY <2>1 DEF Refine, SessionIsThePlans
    <2>2. CASE OpenReviewGate \/ ApprovePlan \/ TerminatePlan
      <3>1. /\ UNCHANGED <<backtrackCount, refineCount, pass, boundary, browser>>
            /\ pc \in {"open_review_gate", "review_gate"} /\ pc' # "explore" /\ pc' # "walk"
        BY <2>2, <1>4, ReviewGateLeads DEF OpenReviewGate, ApprovePlan, TerminatePlan,
                                          planVars, browserVars
      <3> QED
        BY <3>1 DEF SessionIsThePlans
    <2> QED
      BY <1>4, <2>1, <2>2 DEF ReviewGate
  <1>5. CASE VerifyGate
    BY <1>5, VerifyGateLeads DEF SessionIsThePlans
  <1>6. CASE ExecutePhase
    <2>1. UNCHANGED planVars
      BY <1>6, ExecuteLeads
    <2>2. CASE SkipMaterialize \/ Materialize
      BY <2>1, <2>2 DEF SkipMaterialize, Materialize, planVars, browserVars, SessionIsThePlans
    <2>3. CASE ReuseSession
      BY <2>1, <2>3 DEF ReuseSession, planVars, browserVars, SessionIsThePlans,
                        CardIsThePlan, Reviewed
    <2>4. CASE LaunchExecute
      BY <2>1, <2>4 DEF LaunchExecute, Launch, Stash, SessionIsThePlans
    <2>5. CASE pc' \in {"verify", "relaunch", "open_verify_gate", "finally"}
      BY <2>5 DEF SessionIsThePlans
    <2> QED
      BY <1>6, <2>2, <2>3, <2>4, <2>5 DEF ExecutePhase, MaterializeThrows, SkipExecute,
         DropSession, LaunchExecuteThrows, Walk, WalkThrows, VerifySkipped, VerifyHardFails,
         VerifyJudged, VerifyResult, VerifyThrows, Throw
  <1> QED
    BY <1>1, <1>2, <1>3, <1>4, <1>5, <1>6 DEF Workflow

LEMMA BoundaryPreserved ==
  ASSUME BoundaryNeedsACard, [Next]_vars
  PROVE  BoundaryNeedsACard'
  <1>1. CASE ~Workflow
    BY <1>1, QuietFrame DEF BoundaryNeedsACard, planVars
  <1>2. CASE Wrapper \/ CancelRun \/ VerifyGate
    <2>1. pc' \notin {"explore", "open_review_gate", "review_gate", "materialize"}
      BY <1>2, WrapperLeads, CancelLeads, VerifyGateLeads DEF Ending, Throw
    <2> QED
      BY <2>1 DEF BoundaryNeedsACard
  <1>3. CASE Block1
    <2>1. CASE LaunchDryRun
      BY <2>1 DEF LaunchDryRun, planVars, BoundaryNeedsACard
    <2>2. CASE \E found \in BOOLEAN : Explore(found)
      BY <2>2 DEF Explore, EndPass, BoundaryNeedsACard
    <2>3. CASE NoScaffold \/ \E r \in Replies : PlanRefuses(r)
      BY <2>3 DEF PlanRefuses, NoScaffold, EndPass, BoundaryNeedsACard
    <2>4. CASE \/ Classify \/ Retrieve \/ PreClose \/ CognitiveThrows \/ DryRunThrows
               \/ \E r \in Replies : PlanActionable(r)
      <3>1. pc' \in {"retrieve", "plan", "pre_close", "load_scaffold", "finally"}
        BY <2>4 DEF Classify, Retrieve, PlanActionable, PreClose, CognitiveThrows,
                    DryRunThrows, Throw
      <3> QED
        BY <3>1 DEF BoundaryNeedsACard
    <2> QED
      BY <1>3, <2>1, <2>2, <2>3, <2>4 DEF Block1
  <1>4. CASE ReviewGate
    <2>1. \/ pc' \in {"classify", "open_verify_gate"}
          \/ /\ UNCHANGED <<boundary, skillCard>>
             /\ pc \in {"open_review_gate", "review_gate"}
             /\ pc' \in {"review_gate", "materialize"}
      BY <1>4, ReviewGateLeads DEF OpenReviewGate, ApprovePlan, TerminatePlan, planVars
    <2> QED
      BY <2>1 DEF BoundaryNeedsACard
  <1>5. CASE ExecutePhase
    <2>1. pc' \notin {"explore", "open_review_gate", "review_gate", "materialize"}
      BY <1>5 DEF ExecutePhase, SkipMaterialize, Materialize, MaterializeThrows, SkipExecute,
         ReuseSession, DropSession, LaunchExecute, LaunchExecuteThrows, Walk, WalkThrows,
         VerifySkipped, VerifyHardFails, VerifyJudged, VerifyResult, VerifyThrows, Throw
    <2> QED
      BY <2>1 DEF BoundaryNeedsACard
  <1> QED
    BY <1>1, <1>2, <1>3, <1>4, <1>5 DEF Workflow

LEMMA OpenSessionPreserved ==
  ASSUME OneOpenSession, [Next]_vars
  PROVE  OneOpenSession'
  <1>1. CASE ~Workflow
    BY <1>1, QuietFrame DEF OneOpenSession
  <1>2. CASE Wrapper
    <2>1. CASE Finally
      BY <2>1 DEF Finally, CloseAtEnd, Close, OneOpenSession
    <2>2. CASE LogAndNotify
      BY <2>2 DEF LogAndNotify, OneOpenSession, browserVars
    <2>3. CASE Start \/ CreateRunFails \/ Complete \/ UpdateRow \/ UpdateRowFails \/ Dispose
      BY <2>3 DEF Start, CreateRunFails, Complete, UpdateRow, UpdateRowFails, Dispose,
                  browserVars, OneOpenSession
    <2> QED
      BY <1>2, <2>1, <2>2, <2>3 DEF Wrapper
  <1>3. CASE Block1
    <2>1. CASE PreClose
      BY <2>1 DEF PreClose, CloseCurrent, Close, OneOpenSession
    <2>2. CASE LaunchDryRun
      BY <2>2 DEF LaunchDryRun, Launch, Stash, OneOpenSession
    <2>3. CASE \/ Classify \/ Retrieve \/ CognitiveThrows \/ DryRunThrows
               \/ \E r \in Replies : PlanActionable(r)
      BY <2>3 DEF Classify, Retrieve, PlanActionable, CognitiveThrows, DryRunThrows, Throw,
                  browserVars, OneOpenSession
    <2>4. CASE \/ NoScaffold \/ \E found \in BOOLEAN : Explore(found)
               \/ \E r \in Replies : PlanRefuses(r)
      <3>1. UNCHANGED browserVars /\ pc' \in {"classify", "open_review_gate"}
        BY <2>4 DEF PlanRefuses, NoScaffold, Explore, EndPass
      <3> QED
        BY <3>1 DEF browserVars, OneOpenSession
    <2> QED
      BY <1>3, <2>1, <2>2, <2>3, <2>4 DEF Block1
  <1>4. CASE ReviewGate
    BY <1>4, ReviewGateLeads DEF OneOpenSession, browserVars
  <1>5. CASE VerifyGate
    BY <1>5, VerifyGateLeads DEF OneOpenSession, browserVars
  <1>6. CASE ExecutePhase
    <2>1. CASE DropSession
      BY <2>1 DEF DropSession, CloseCurrent, Close, OneOpenSession
    <2>2. CASE LaunchExecute
      BY <2>2 DEF LaunchExecute, Launch, Stash, OneOpenSession
    <2>3. CASE UNCHANGED browserVars /\ pc' \in {"execute", "verify", "walk",
                                                 "open_verify_gate", "finally"}
      BY <2>3 DEF browserVars, OneOpenSession
    <2> QED
      BY <1>6, <2>1, <2>2, <2>3 DEF ExecutePhase, SkipMaterialize, Materialize,
         MaterializeThrows, SkipExecute, ReuseSession, LaunchExecuteThrows, Walk, WalkThrows,
         VerifySkipped, VerifyHardFails, VerifyJudged, VerifyResult, VerifyThrows, Throw
  <1>7. CASE CancelRun
    BY <1>7, CancelLeads DEF Throw, browserVars, OneOpenSession
  <1> QED
    BY <1>1, <1>2, <1>3, <1>4, <1>5, <1>6, <1>7 DEF Workflow

LEMMA StraysPreserved ==
  ASSUME RunType, OneOpenSession, StraysAreCounted, [Next]_vars
  PROVE  StraysAreCounted'
  <1> USE DEF StraysAreCounted
  \* A step that is not about the browser changes nothing.
  <1>1. CASE UNCHANGED browserVars
    BY <1>1 DEF browserVars
  \* A close() that is waited for may miss its kill, but only MaxOrphans times.
  <1>2. CASE PreClose \/ DropSession \/ Finally
    <2>1. PICK s : Close(s) /\ UNCHANGED aborted
      BY <1>2 DEF PreClose, DropSession, Finally, CloseCurrent, CloseAtEnd
    <2> QED
      BY <2>1, CloseType DEF RunType
  <1>3. CASE LaunchDryRun \/ LaunchExecute
    BY <1>3 DEF LaunchDryRun, LaunchExecute, Launch, RunType
  \* The signal fires once, and one session listens at most.
  <1>4. CASE Abort
    BY <1>4, ListenersCount DEF Abort, SignalFires, RunType
  <1>5. CASE SessionDies
    BY <1>5 DEF SessionDies, LeftBehind, RunType
  <1>6. CASE Wrapper \/ CancelRun
    BY <1>1, <1>2, <1>6, CancelLeads DEF Wrapper, Start, CreateRunFails, LogAndNotify, Complete,
                                         UpdateRow, UpdateRowFails, Dispose
  <1>7. CASE Block1
    <2>1. CASE NoScaffold \/ (\E r \in Replies : PlanRefuses(r)) \/ \E f \in BOOLEAN : Explore(f)
      BY <1>1, <2>1 DEF NoScaffold, PlanRefuses, Explore
    <2> QED
      BY <1>1, <1>2, <1>3, <1>7, <2>1 DEF Block1, Classify, Retrieve, PlanActionable,
                                          CognitiveThrows, DryRunThrows
  <1>8. CASE ReviewGate \/ VerifyGate
    BY <1>1, <1>8, ReviewGateLeads, VerifyGateLeads
  <1>9. CASE ExecutePhase
    BY <1>1, <1>2, <1>3, <1>9 DEF ExecutePhase, SkipMaterialize, Materialize, MaterializeThrows,
       SkipExecute, ReuseSession, LaunchExecuteThrows, Walk, WalkThrows, VerifySkipped,
       VerifyHardFails, VerifyJudged, VerifyResult, VerifyThrows
  <1>10. CASE UNCHANGED vars \/ \E s \in Submissions : Reviewer(s) \/ EarlyReviewer(s)
    BY <1>1, <1>10 DEF vars, Reviewer, EarlyReviewer
  <1> QED
    BY <1>4, <1>5, <1>6, <1>7, <1>8, <1>9, <1>10 DEF Next, Workflow, Terminating

LEMMA StoryPreserved ==
  ASSUME RunType, CardIsThePlan, StoryIsTrue, [Next]_vars
  PROVE  StoryIsTrue'
  <1> USE DEF StatusTellsTheStory, CurrentPlan, Reviewed
  <1>1. CASE ~Workflow
    BY <1>1, QuietFrame DEF StoryIsTrue, planVars, execVars, runVars, histVars, Approved
  <1>2. CASE Wrapper
    <2>1. UNCHANGED <<planVars, execVars, histVars>>
      BY <1>2, WrapperLeads
    <2>2. CASE Start \/ CreateRunFails
      <3>1. pc' \in {"classify", "done"}
        BY <2>2 DEF Start, CreateRunFails
      <3> QED
        BY <3>1 DEF StoryIsTrue
    <2>3. CASE LogAndNotify
      <3>1. /\ pc = "log_and_notify" /\ pc' = "finally"
            /\ outcome' = StatusOf(verify)
        BY <2>3 DEF LogAndNotify
      <3> QED
        BY <2>1, <3>1 DEF StoryIsTrue, StatusOf, planVars, execVars, histVars
    <2>4. CASE Finally \/ Complete \/ UpdateRow \/ UpdateRowFails \/ Dispose
      <3>1. /\ outcome' = outcome
            /\ pc' \in {"complete", "update_row", "grace", "done"}
            /\ pc \in {"finally", "complete", "update_row", "grace"}
        BY <2>4 DEF Finally, Complete, UpdateRow, UpdateRowFails, Dispose, runVars
      <3> QED
        BY <2>1, <3>1 DEF StoryIsTrue, planVars, execVars, histVars
    <2> QED
      BY <1>2, <2>2, <2>3, <2>4 DEF Wrapper
  <1>3. CASE Throw
    BY <1>3 DEF StoryIsTrue, Throw
  <1>8. CASE CancelRun
    BY <1>3, <1>8, CancelLeads
  <1>4. CASE Block1 /\ ~Throw
    <2>1. pc' \in Passes \union {"open_review_gate"}
      BY <1>4, Block1Leads
    <2> QED
      BY <2>1 DEF StoryIsTrue, Passes
  <1>5. CASE ReviewGate
    <2>1. CASE OpenReviewGate \/ Refine
      <3>1. pc' \in {"review_gate", "classify"}
        BY <2>1 DEF OpenReviewGate, Refine
      <3> QED
        BY <3>1 DEF StoryIsTrue
    <2>2. CASE ApprovePlan
      <3>1. pc' = "materialize" /\ review'.decision = "approve"
        BY <2>2 DEF ApprovePlan
      <3> QED
        BY <3>1 DEF StoryIsTrue, Approved
    <2>3. CASE TerminatePlan
      <3>1. /\ refused'
            /\ \/ pc' = "materialize"
               \/ pc' = "open_verify_gate" /\ verify'.skipped
        BY <1>5, <2>3, ReviewGateLeads DEF TerminatePlan, OpenReviewGate, Refine, ApprovePlan
      <3> QED
        BY <3>1 DEF StoryIsTrue
    <2> QED
      BY <1>5, <2>1, <2>2, <2>3 DEF ReviewGate
  <1>6. CASE ExecutePhase /\ ~Throw
    <2>1. UNCHANGED <<planVars, histVars>>
      BY <1>6, ExecuteLeads
    <2>2. CASE SkipMaterialize \/ Materialize \/ ReuseSession \/ DropSession \/ LaunchExecute
      <3>1. /\ pc \in Reviewed
            /\ pc' \in {"execute", "relaunch", "walk"}
        BY <2>2 DEF SkipMaterialize, Materialize, ReuseSession, DropSession, LaunchExecute
      <3> QED
        BY <2>1, <3>1 DEF StoryIsTrue, Approved, planVars, histVars
    <2>3. CASE SkipExecute
      <3>1. pc = "execute" /\ pc' = "verify" /\ ~Approved
        BY <2>3 DEF SkipExecute
      <3> QED
        BY <2>1, <3>1 DEF StoryIsTrue, Approved, planVars, histVars
    <2>4. CASE Walk
      <3>1. /\ pc = "walk" /\ pc' = "verify"
            /\ executed' = CurrentPlan /\ Approved
        BY <2>4 DEF Walk, Walked, CardIsThePlan
      <3> QED
        BY <2>1, <3>1 DEF StoryIsTrue, Approved, planVars, histVars
    <2>5. CASE VerifySkipped
      <3>1. /\ pc = "verify" /\ pc' = "open_verify_gate" /\ ~Approved
            /\ verify' = [success |-> FALSE, skipped |-> TRUE]
        BY <2>5 DEF VerifySkipped, VerifyResult
      <3> QED
        BY <2>1, <3>1 DEF StoryIsTrue, histVars
    <2>6. CASE VerifyHardFails
      <3>1. /\ pc' = "open_verify_gate"
            /\ verify' = [success |-> FALSE, skipped |-> FALSE]
        BY <2>6 DEF VerifyHardFails, VerifyResult
      <3> QED
        BY <3>1 DEF StoryIsTrue
    <2>7. CASE \E ok \in BOOLEAN : VerifyJudged(ok)
      <3>1. /\ pc = "verify" /\ pc' = "open_verify_gate" /\ Approved
            /\ stepsRun /\ stepsRun' = stepsRun /\ executed' = executed
            /\ ~verify'.skipped
        BY <2>7 DEF VerifyJudged, VerifyResult, HardFail
      <3> QED
        BY <2>1, <3>1 DEF StoryIsTrue, planVars
    <2> QED
      BY <1>6, <2>2, <2>3, <2>4, <2>5, <2>6, <2>7 DEF ExecutePhase, MaterializeThrows,
         LaunchExecuteThrows, WalkThrows, VerifyThrows
  <1>7. CASE VerifyGate
    <2>1. CASE Backtrack
      BY <2>1 DEF Backtrack, StoryIsTrue
    <2>2. CASE /\ UNCHANGED <<planVars, execVars, histVars>>
               /\ pc' \in {"human_verify_gate", "log_and_notify"}
      <3>1. pc \in {"open_verify_gate", "human_verify_gate"}
        BY <1>7, VerifyGateLeads
      <3> QED
        BY <2>2, <3>1 DEF StoryIsTrue, planVars, execVars, histVars
    <2>3. CASE RefuseResult
      <3>1. pc' = "log_and_notify" /\ verify' = [success |-> FALSE, skipped |-> TRUE] /\ refused'
        BY <2>3 DEF RefuseResult
      <3> QED
        BY <3>1 DEF StoryIsTrue
    <2> QED
      BY <1>7, <2>1, <2>2, <2>3, VerifyGateLeads
  <1> QED
    BY <1>1, <1>2, <1>3, <1>4, <1>5, <1>6, <1>7, <1>8 DEF Workflow

LEMMA Appending ==
  ASSUME NEW a, NEW b, NEW c
  PROVE  /\ Append(<<>>, a) = <<a>>
         /\ Append(<<a>>, b) = <<a, b>>
         /\ Append(<<a, b>>, c) = <<a, b, c>>
  <1> DEFINE S == {a, b, c}
  <1>0. a \in S /\ b \in S /\ c \in S
    OBVIOUS
  <1> HIDE DEF S
  <1> USE <1>0
  <1>1. Append(<<>>, a) = <<a>>
    BY SeqEqual
  <1>2. Append(<<a>>, b) = <<a, b>>
    <2>1. /\ Append(<<a>>, b) \in Seq(S) /\ <<a, b>> \in Seq(S)
          /\ Len(Append(<<a>>, b)) = 2 /\ Len(<<a, b>>) = 2
          /\ \A i \in 1..2 : Append(<<a>>, b)[i] = <<a, b>>[i]
      OBVIOUS
    <2> QED
      BY <2>1, SeqEqual
  <1>3. Append(<<a, b>>, c) = <<a, b, c>>
    <2>1. /\ <<a, b>> \in Seq(S) /\ Len(<<a, b>>) = 2
          /\ <<a, b>>[1] = a /\ <<a, b>>[2] = b
      OBVIOUS
    <2>2. /\ <<a, b, c>> \in Seq(S) /\ Len(<<a, b, c>>) = 3
          /\ <<a, b, c>>[1] = a /\ <<a, b, c>>[2] = b /\ <<a, b, c>>[3] = c
      OBVIOUS
    <2>3. /\ Append(<<a, b>>, c) \in Seq(S) /\ Len(Append(<<a, b>>, c)) = 3
          /\ Append(<<a, b>>, c)[1] = a /\ Append(<<a, b>>, c)[2] = b
          /\ Append(<<a, b>>, c)[3] = c
      <3> DEFINE s == <<a, b>>
      <3>1. s \in Seq(S) /\ Len(s) = 2 /\ s[1] = a /\ s[2] = b
        BY <2>1
      <3> HIDE DEF s
      <3> QED
        BY <3>1, AppendProperties
    <2>4. \A i \in 1..3 : i = 1 \/ i = 2 \/ i = 3
      OBVIOUS
    <2>5. \A i \in 1..3 : Append(<<a, b>>, c)[i] = <<a, b, c>>[i]
      BY <2>2, <2>3, <2>4
    <2> QED
      BY <2>2, <2>3, <2>5, SeqEqual
  <1> QED
    BY <1>1, <1>2, <1>3

\* What is appended to the few timelines there can be.
LEMMA FramesAppended ==
  /\ Append(<<>>, "run.started") = <<"run.started">>
  /\ Append(<<"run.started">>, "run.failed") = <<"run.started", "run.failed">>
  /\ \A fs \in Opened : Append(fs, "run.completed") \in Bracketed
  <1>1. /\ Append(<<>>, "run.started") = <<"run.started">>
        /\ Append(<<"run.started">>, "run.failed") = <<"run.started", "run.failed">>
        /\ Append(<<"run.started", "run.failed">>, "run.completed")
             = <<"run.started", "run.failed", "run.completed">>
    BY Appending, Zenon
  <1>2. Append(<<"run.started">>, "run.completed") = <<"run.started", "run.completed">>
    BY Appending, Zenon
  <1> QED
    BY <1>1, <1>2, Zenon DEF Opened, Bracketed

LEMMA FramesPreserved ==
  ASSUME FramesFollowTheRun, [Next]_vars
  PROVE  FramesFollowTheRun'
  <1> USE DEF Ending, Passes
  <1>1. CASE ~Workflow
    BY <1>1, QuietFrame DEF FramesFollowTheRun, runVars
  <1>2. CASE Wrapper
    <2>1. CASE Start
      BY <2>1, FramesAppended DEF Start, FramesFollowTheRun
    <2>2. CASE CreateRunFails
      BY <2>2 DEF CreateRunFails, runVars, FramesFollowTheRun
    <2>3. CASE LogAndNotify
      <3>1. pc = "log_and_notify" /\ pc' = "finally" /\ row' = row /\ frames' = frames
        BY <2>3 DEF LogAndNotify
      <3> QED
        BY <3>1 DEF FramesFollowTheRun, Opened
    <2>4. CASE Finally
      BY <2>4 DEF Finally, runVars, FramesFollowTheRun
    <2>5. CASE Complete
      <3>1. /\ pc = "complete" /\ pc' = "update_row" /\ row' = row /\ outcome' = outcome
            /\ frames' = Append(frames, "run.completed")
        BY <2>5 DEF Complete, Closed
      <3> QED
        BY <3>1, FramesAppended DEF FramesFollowTheRun
    <2>6. CASE UpdateRow
      BY <2>6 DEF UpdateRow, FramesFollowTheRun
    <2>7. CASE UpdateRowFails \/ Dispose
      BY <2>7 DEF UpdateRowFails, Dispose, runVars, FramesFollowTheRun
    <2> QED
      BY <1>2, <2>1, <2>2, <2>3, <2>4, <2>5, <2>6, <2>7 DEF Wrapper
  <1>3. CASE Throw /\ pc \notin Ending \union {"create_run"}
    <2>1. /\ frames = <<"run.started">> /\ row = "running"
          /\ pc' = "finally" /\ row' = row
          /\ frames' = frames \/ frames' = Append(frames, "run.failed")
      BY <1>3 DEF Throw, FramesFollowTheRun
    <2>2. frames' \in Opened
      BY <2>1, FramesAppended DEF Opened
    <2> QED
      BY <2>1, <2>2 DEF FramesFollowTheRun
  <1>4. CASE /\ UNCHANGED runVars
             /\ pc \notin Ending \union {"create_run"}
             /\ pc' \notin Ending \union {"create_run"}
    BY <1>4 DEF runVars, FramesFollowTheRun
  <1> QED
    BY <1>1, <1>2, <1>3, <1>4, CancelLeads, Block1Leads, ReviewGateLeads, ExecuteLeads,
       VerifyGateLeads DEF Workflow, Reviewed

LEMMA Initially ==
  Init => IInv
  <1> SUFFICES ASSUME Init
               PROVE  IInv
    OBVIOUS
  <1>1. RunType
    <2>1. [backtrack |-> 0, refine |-> 0, pass |-> 0] \in Plans
      BY DEF Plans
    <2>2. review \in [decision : {"approve", "terminate"}, plan : Plans]
      BY <2>1 DEF Init
    <2>3. frames \in Seq({"run.started", "run.failed", "run.completed"})
      BY DEF Init
    <2>4. pc \in Labels /\ backtrackCount \in 0..MaxBacktracks
          /\ refineCount \in 0..MaxPreGateRefines /\ pass \in 0..Block1MaxPasses - 1
      BY DEF Init, Labels
    <2> QED
      BY <2>2, <2>3, <2>4 DEF Init, RunType
  <1>2. GateType
    BY MaxSlotsType DEF Init, GateType, Gate!Init
  <1>3. TypeOK
    BY <1>1, <1>2, TypeSplits
  <1> QED
    BY <1>3 DEF Init, IInv, CardIsThePlan, Reviewed, EachPlanOnce, SessionIsThePlans,
       WalksItsOwnSession, BoundaryNeedsACard, OneOpenSession, StraysAreCounted, StoryIsTrue,
       StatusTellsTheStory, FramesFollowTheRun, Ending

LEMMA Inductive ==
  IInv /\ [Next]_vars => IInv'
  <1> SUFFICES ASSUME IInv, [Next]_vars
               PROVE  IInv'
    OBVIOUS
  <1>1. RunType /\ None \notin Plans
    BY TypeSplits DEF IInv
  <1>2. TypeOK'
    BY TypePreserved DEF IInv
  <1> QED
    BY <1>1, <1>2, CardPreserved, OncePreserved, SessionPreserved, BoundaryPreserved,
       OpenSessionPreserved, StraysPreserved, StoryPreserved, FramesPreserved DEF IInv

\* The invariant that carries all of them.
THEOREM TriageInvariant == Spec => []IInv
  BY Initially, Inductive, PTL DEF Spec

-----------------------------------------------------------------------------
(* What the workflow promises, whatever its budgets are.                   *)

\* The state of a run keeps its types.
THEOREM TriageTypeCorrect == Spec => []TypeOK
  <1>1. IInv => TypeOK
    BY DEF IInv
  <1> QED
    BY <1>1, TriageInvariant, PTL

\* executeSkillCardSteps only ever walks the card of the plan the latest review
\* approved, which is the plan Block 1 produced last, and no plan is walked
\* twice.
THEOREM OnlyTheApprovedPlan == Spec => []WalksTheApprovedPlan
  <1>1. IInv => WalksTheApprovedPlan
    BY DEF IInv, CardIsThePlan, Reviewed, Approved, EachPlanOnce, BeforeTheWalk, TypeOK,
           WalksTheApprovedPlan, CurrentPlan, Plans
  <1> QED
    BY <1>1, TriageInvariant, PTL

\* The walk resumes in the middle of a card only in the session in which the
\* dry run of that very plan stopped there.
THEOREM ResumesWhereItStopped == Spec => []WalksItsOwnSession
  <1>1. IInv => WalksItsOwnSession
    BY DEF IInv, SessionIsThePlans
  <1> QED
    BY <1>1, TriageInvariant, PTL

\* An approved plan whose dry run reached its boundary can be materialized: the
\* guard of runMaterializeSkillCardStep against a plan without a skill card
\* never strikes.
THEOREM ApprovedPlanHasItsCard ==
  Spec => [](pc = "materialize" /\ Approved /\ boundary => skillCard)
  <1>1. IInv => (pc = "materialize" /\ Approved /\ boundary => skillCard)
    BY DEF IInv, BoundaryNeedsACard
  <1> QED
    BY <1>1, TriageInvariant, PTL

\* Whatever throws and whenever the run is aborted, the workflow knows of every
\* session it has not closed: a launch finds none, ctx.browser holds the only one
\* there is, and the wrapper's finally leaves none. What is alive besides is
\* counted: the processes that failed kills and crashes have left behind, and one
\* when the abort signal closed a session whose teardown nobody waits for.
THEOREM NoSessionLeaks == Spec => []NoSessionIsForgotten
  <1>1. IInv => NoSessionIsForgotten
    BY DEF IInv, OneOpenSession, StraysAreCounted, NoSessionIsForgotten
  <1> QED
    BY <1>1, TriageInvariant, PTL

\* The terminal status is ok only for a card that was walked and verified, and
\* rejected only after a reviewer refused.
THEOREM StatusIsEarned == Spec => []StatusTellsTheStory
  <1>1. IInv => StatusTellsTheStory
    BY DEF IInv, StoryIsTrue
  <1> QED
    BY <1>1, TriageInvariant, PTL

\* Every exit of a started run closes its timeline exactly once, and the row
\* never shows a status before the timeline is closed.
THEOREM EveryRunIsClosed == Spec => []CompletedClosesTheRun
  <1>1. ASSUME frames \in Bracketed
        PROVE  /\ frames[Len(frames)] = "run.completed"
               /\ \A k \in 1..Len(frames) - 1 : frames[k] # "run.completed"
    <2>1. CASE frames = <<"run.started", "run.completed">>
      <3>1. Len(frames) = 2 /\ frames[1] = "run.started" /\ frames[2] = "run.completed"
        BY <2>1
      <3> QED
        BY <3>1
    <2>2. CASE frames = <<"run.started", "run.failed", "run.completed">>
      <3>1. /\ Len(frames) = 3 /\ frames[1] = "run.started" /\ frames[2] = "run.failed"
            /\ frames[3] = "run.completed"
        BY <2>2
      <3> QED
        BY <3>1
    <2> QED
      BY <1>1, <2>1, <2>2 DEF Bracketed
  <1>2. IInv => CompletedClosesTheRun
    BY <1>1 DEF IInv, FramesFollowTheRun, CompletedClosesTheRun
  <1> QED
    BY <1>2, TriageInvariant, PTL

-----------------------------------------------------------------------------
(* The budgets.  The product is kept behind a name: what the proof needs of *)
(* it is what one more backtrack adds.                                      *)

PlanRounds(b) == b * (MaxPreGateRefines + 1)

\* Where a question of this round, or its walk, is still to come.
BeforeTheReview == Passes \union {"create_run", "open_review_gate"}
BeforeTheResult ==
  BeforeTheReview \union Reviewed \union {"review_gate", "open_verify_gate"}

BudgetsKept ==
  /\ rounds["review_gate"] <= PlanRounds(backtrackCount) + refineCount
                              + (IF pc \in BeforeTheReview THEN 0 ELSE 1)
  /\ rounds["human_verify_gate"] <= backtrackCount
                                    + (IF pc \in BeforeTheResult THEN 0 ELSE 1)
  /\ executions <= backtrackCount + (IF pc \in BeforeTheWalk THEN 0 ELSE 1)

LEMMA PlanRoundsGrow ==
  ASSUME NEW b \in Nat
  PROVE  /\ PlanRounds(b) \in Nat
         /\ PlanRounds(b + 1) = PlanRounds(b) + MaxPreGateRefines + 1
  <1> DEFINE r == MaxPreGateRefines + 1
  <1>1. r \in Nat
    OBVIOUS
  <1>2. b * r \in Nat /\ (b + 1) * r = b * r + r
    <2> HIDE DEF r
    <2> QED
      BY <1>1
  <1> QED
    BY <1>1, <1>2 DEF PlanRounds

\* The slots of the model are one more than a run can ask for.
LEMMA SlotsSuffice ==
  ASSUME NEW b \in 0..MaxBacktracks
  PROVE  PlanRounds(b) + MaxPreGateRefines + 1 < MaxSlots /\ b + 1 < MaxSlots
  <1> DEFINE r == MaxPreGateRefines + 1
             m == MaxBacktracks + 1
             c == b + 1
  <1>1. r \in Nat /\ r >= 1 /\ m \in Nat /\ c \in Nat /\ c <= m
    OBVIOUS
  <1>2. c * r <= m * r /\ c <= c * r /\ c * r \in Nat /\ m * r \in Nat
    <2> HIDE DEF r, m, c
    <2>1. PICK d \in Nat, e \in Nat : m = c + d /\ r = 1 + e
      <3>1. m - c \in Nat /\ r - 1 \in Nat /\ m = c + (m - c) /\ r = 1 + (r - 1)
        BY <1>1
      <3> QED
        BY <3>1
    <2>2. m * r = c * r + d * r /\ d * r \in Nat /\ c * r \in Nat
      BY <1>1, <2>1
    <2>3. c * r = c + c * e /\ c * e \in Nat
      BY <1>1, <2>1
    <2> QED
      BY <1>1, <2>2, <2>3
  <1>3. MaxSlots = m * r + 1
    BY DEF MaxSlots
  <1>4. PlanRounds(b) + r = c * r
    BY PlanRoundsGrow DEF PlanRounds
  <1>5. PlanRounds(b) \in Nat
    BY PlanRoundsGrow
  <1> HIDE DEF m
  <1>6. PlanRounds(b) + r < MaxSlots /\ c < MaxSlots
    <2> HIDE DEF r, c
    <2> QED
      BY <1>1, <1>2, <1>3, <1>4, <1>5
  <1> QED
    BY <1>5, <1>6

\* Only opening a gate asks, and asks once.
LEMMA RoundsFrame ==
  ASSUME GateType, [Next]_vars
  PROVE  \/ UNCHANGED rounds
         \/ OpenReviewGate /\ rounds' = [rounds EXCEPT !["review_gate"] = @ + 1]
         \/ OpenVerifyGate /\ rounds' = [rounds EXCEPT !["human_verify_gate"] = @ + 1]
  <1> USE DEF gateVars
  <1>1. CASE Wrapper
    BY <1>1 DEF Wrapper, Start, CreateRunFails, LogAndNotify, Finally, Complete, UpdateRow,
                UpdateRowFails, Dispose
  <1>2. CASE Throw
    BY <1>2 DEF Throw
  <1>3. CASE Block1 /\ ~Throw
    <2>1. CASE NoScaffold \/ \E r \in Replies : PlanRefuses(r)
      BY <2>1 DEF NoScaffold, PlanRefuses, EndPass
    <2>2. CASE \E found \in BOOLEAN : Explore(found)
      BY <2>2 DEF Explore, EndPass
    <2> QED
      BY <1>3, <2>1, <2>2 DEF Block1, Classify, Retrieve, PlanActionable, CognitiveThrows,
                              PreClose, LaunchDryRun, DryRunThrows
  <1>4. CASE ReviewGate
    BY <1>4 DEF ReviewGate, OpenReviewGate, ApprovePlan, Refine, TerminatePlan, Gate!Ask,
                Gate!Continue
  <1>5. CASE ExecutePhase /\ ~Throw
    BY <1>5 DEF ExecutePhase, SkipMaterialize, Materialize, MaterializeThrows, SkipExecute,
                ReuseSession, DropSession, LaunchExecute, LaunchExecuteThrows, Walk, WalkThrows,
                VerifySkipped, VerifyHardFails, VerifyJudged, VerifyResult, VerifyThrows
  <1>6. CASE VerifyGate
    BY <1>6 DEF VerifyGate, SkipVerifyGate, OpenVerifyGate, AcceptResult, Backtrack,
                RefuseResult, Gate!Ask, Gate!Continue
  <1>7. CASE ~Workflow
    <2>1. CASE \E s \in Submissions : Reviewer(s) \/ EarlyReviewer(s)
      BY <2>1 DEF Reviewer, EarlyReviewer, Gate!Answer, Gate!KeepEarly
    <2> QED
      BY <1>7, <2>1 DEF Next, SessionDies, Abort, Terminating, vars
  <1> QED
    BY <1>1, <1>2, <1>3, <1>4, <1>5, <1>6, <1>7 DEF Workflow, CancelRun

LEMMA BudgetsPreserved ==
  ASSUME RunType, GateType, BudgetsKept, [Next]_vars
  PROVE  BudgetsKept'
  <1> DEFINE rev == rounds["review_gate"]
             ver == rounds["human_verify_gate"]
             base == PlanRounds(backtrackCount)
  <1>1. /\ rev \in Nat /\ ver \in Nat /\ executions \in Nat
        /\ backtrackCount \in Nat /\ refineCount \in Nat /\ refineCount <= MaxPreGateRefines
    BY MaxSlotsType DEF RunType, GateType, Gates
  <1>2. base \in Nat
    BY <1>1, PlanRoundsGrow
  <1>3. /\ backtrackCount' = backtrackCount => PlanRounds(backtrackCount)' = base
        /\ backtrackCount' = backtrackCount + 1 =>
             PlanRounds(backtrackCount)' = base + MaxPreGateRefines + 1
    BY <1>1, PlanRoundsGrow DEF PlanRounds
  <1>4. /\ rev <= base + refineCount + (IF pc \in BeforeTheReview THEN 0 ELSE 1)
        /\ ver <= backtrackCount + (IF pc \in BeforeTheResult THEN 0 ELSE 1)
        /\ executions <= backtrackCount + (IF pc \in BeforeTheWalk THEN 0 ELSE 1)
    BY DEF BudgetsKept
  \* A step that asks and counts nothing has only to go forward.
  <1>5. ASSUME UNCHANGED <<rounds, backtrackCount, refineCount, executions>>,
               pc' \in BeforeTheReview => pc \in BeforeTheReview,
               pc' \in BeforeTheResult => pc \in BeforeTheResult,
               pc' \in BeforeTheWalk => pc \in BeforeTheWalk
        PROVE  BudgetsKept'
    <2>1. PlanRounds(backtrackCount)' = base
      BY <1>3, <1>5
    <2> HIDE DEF base
    <2> QED
      BY <1>1, <1>2, <1>4, <1>5, <2>1 DEF BudgetsKept
  <1>6. CASE ~Workflow
    <2>1. UNCHANGED rounds
      BY <1>6, RoundsFrame DEF Workflow, ReviewGate, VerifyGate
    <2> QED
      BY <1>5, <1>6, <2>1, QuietFrame DEF planVars, execVars
  <1>11. CASE CancelRun
    <2>1. UNCHANGED rounds
      BY <1>11, CancelLeads DEF Throw, gateVars
    <2> QED
      BY <1>5, <1>11, <2>1, CancelLeads DEF Throw, planVars, execVars, BeforeTheReview,
                                           BeforeTheResult, BeforeTheWalk, Passes, Reviewed
  <1>7. CASE Wrapper \/ Block1
    <2>1. UNCHANGED <<backtrackCount, refineCount, executions>>
      BY <1>7, WrapperLeads, Block1Leads DEF planVars, execVars
    <2>2. /\ pc \in Passes \union {"create_run"} \union {"log_and_notify"} \union Ending
          /\ pc' \in Passes \union {"open_review_gate"} \union Ending
          /\ pc' \notin Ending => pc \in Passes \union {"create_run"}
      BY <1>7, WrapperLeads, Block1Leads DEF Throw, Ending, Passes
    <2>3. UNCHANGED rounds
      BY <2>2, RoundsFrame DEF OpenReviewGate, OpenVerifyGate, Passes, Ending
    <2> QED
      BY <1>5, <2>1, <2>2, <2>3 DEF BeforeTheReview, BeforeTheResult, BeforeTheWalk, Passes,
                                    Ending, Reviewed
  <1>8. CASE ReviewGate
    <2>1. UNCHANGED <<backtrackCount, executions>>
      BY <1>8, ReviewGateLeads
    <2>2. CASE OpenReviewGate
      <3>1. /\ pc = "open_review_gate" /\ pc' = "review_gate" /\ refineCount' = refineCount
            /\ rounds' = [rounds EXCEPT !["review_gate"] = rounds["review_gate"] + 1]
        BY <2>2 DEF OpenReviewGate, planVars, Gate!Ask
      <3>2. rounds'["review_gate"] = rev + 1 /\ rounds'["human_verify_gate"] = ver
        BY <3>1 DEF GateType, Gates
      <3>3. PlanRounds(backtrackCount)' = base
        BY <1>3, <2>1
      <3>4. /\ pc \in BeforeTheReview /\ pc' \notin BeforeTheReview
            /\ pc \in BeforeTheResult /\ pc' \in BeforeTheResult
            /\ pc \in BeforeTheWalk /\ pc' \in BeforeTheWalk
        BY <3>1 DEF BeforeTheReview, BeforeTheResult, BeforeTheWalk, Passes, Reviewed
      <3> HIDE DEF base, rev, ver
      <3> QED
        BY <1>1, <1>2, <1>4, <2>1, <3>1, <3>2, <3>3, <3>4 DEF BudgetsKept
    <2>3. CASE Refine
      <3>1. /\ pc = "review_gate" /\ pc' = "classify" /\ refineCount' = refineCount + 1
            /\ UNCHANGED rounds
        BY <2>3 DEF Refine, Gate!Continue
      <3>2. rounds'["review_gate"] = rev /\ rounds'["human_verify_gate"] = ver
        BY <3>1
      <3>3. PlanRounds(backtrackCount)' = base
        BY <1>3, <2>1
      <3>4. /\ pc \notin BeforeTheReview /\ pc' \in BeforeTheReview
            /\ pc \in BeforeTheResult /\ pc' \in BeforeTheResult
            /\ pc \in BeforeTheWalk /\ pc' \in BeforeTheWalk
        BY <3>1 DEF BeforeTheReview, BeforeTheResult, BeforeTheWalk, Passes, Reviewed
      <3> HIDE DEF base, rev, ver
      <3> QED
        BY <1>1, <1>2, <1>4, <2>1, <3>1, <3>2, <3>3, <3>4 DEF BudgetsKept
    <2>4. CASE ApprovePlan \/ TerminatePlan
      <3>1. /\ pc = "review_gate" /\ pc' \in {"materialize", "open_verify_gate"}
            /\ refineCount' = refineCount /\ UNCHANGED rounds
        BY <2>4 DEF ApprovePlan, TerminatePlan, Gate!Continue
      <3> QED
        BY <1>5, <2>1, <3>1 DEF BeforeTheReview, BeforeTheResult, BeforeTheWalk, Passes, Reviewed
    <2> QED
      BY <1>8, <2>2, <2>3, <2>4 DEF ReviewGate
  <1>9. CASE ExecutePhase
    <2>1. UNCHANGED <<backtrackCount, refineCount>> /\ pc \in Reviewed
      BY <1>9, ExecuteLeads DEF planVars
    <2>2. UNCHANGED rounds
      BY <2>1, RoundsFrame DEF OpenReviewGate, OpenVerifyGate, Reviewed
    <2>3. CASE Walk \/ WalkThrows
      <3>1. /\ pc = "walk" /\ pc' \in {"verify", "finally"} /\ executions' = executions + 1
        BY <2>3 DEF Walk, WalkThrows, Walked, Throw
      <3>2. rounds'["review_gate"] = rev /\ rounds'["human_verify_gate"] = ver
        BY <2>2
      <3>3. PlanRounds(backtrackCount)' = base
        BY <1>3, <2>1
      <3>4. /\ pc \notin BeforeTheReview /\ pc' \notin BeforeTheReview
            /\ pc \in BeforeTheResult
            /\ pc \in BeforeTheWalk /\ pc' \notin BeforeTheWalk
        BY <3>1 DEF BeforeTheReview, BeforeTheResult, BeforeTheWalk, Passes, Reviewed
      <3> HIDE DEF base, rev, ver
      <3> QED
        BY <1>1, <1>2, <1>4, <2>1, <3>1, <3>2, <3>3, <3>4 DEF BudgetsKept
    <2>4. CASE /\ executions' = executions
               /\ \/ pc \in BeforeTheWalk /\ pc' \in Reviewed
                  \/ pc' \in {"finally", "open_verify_gate"}
      BY <1>5, <2>1, <2>2, <2>4 DEF BeforeTheReview, BeforeTheResult, BeforeTheWalk, Passes,
                                    Reviewed
    <2>5. CASE SkipMaterialize \/ Materialize \/ SkipExecute \/ ReuseSession
      BY <2>4, <2>5 DEF SkipMaterialize, Materialize, SkipExecute, ReuseSession, execVars,
                        BeforeTheWalk, Reviewed
    <2>6. CASE DropSession \/ LaunchExecute
      BY <2>4, <2>6 DEF DropSession, LaunchExecute, execVars, BeforeTheWalk, Reviewed
    <2>7. CASE MaterializeThrows \/ LaunchExecuteThrows \/ VerifyThrows
      BY <2>4, <2>7 DEF MaterializeThrows, LaunchExecuteThrows, VerifyThrows, Throw, execVars
    <2>8. CASE VerifySkipped \/ VerifyHardFails \/ \E ok \in BOOLEAN : VerifyJudged(ok)
      BY <2>4, <2>8 DEF VerifySkipped, VerifyHardFails, VerifyJudged, VerifyResult
    <2> QED
      BY <1>9, <2>3, <2>5, <2>6, <2>7, <2>8 DEF ExecutePhase
  <1>10. CASE VerifyGate
    <2>1. executions' = executions
      BY <1>10, VerifyGateLeads
    <2>2. CASE OpenVerifyGate
      <3>1. /\ pc = "open_verify_gate" /\ pc' = "human_verify_gate"
            /\ UNCHANGED <<backtrackCount, refineCount>>
            /\ rounds' = [rounds EXCEPT !["human_verify_gate"] = rounds["human_verify_gate"] + 1]
        BY <2>2 DEF OpenVerifyGate, planVars, Gate!Ask
      <3>2. rounds'["review_gate"] = rev /\ rounds'["human_verify_gate"] = ver + 1
        BY <3>1 DEF GateType, Gates
      <3>3. PlanRounds(backtrackCount)' = base
        BY <1>3, <3>1
      <3>4. /\ pc \notin BeforeTheReview /\ pc' \notin BeforeTheReview
            /\ pc \in BeforeTheResult /\ pc' \notin BeforeTheResult
            /\ pc \notin BeforeTheWalk /\ pc' \notin BeforeTheWalk
        BY <3>1 DEF BeforeTheReview, BeforeTheResult, BeforeTheWalk, Passes, Reviewed
      <3> HIDE DEF base, rev, ver
      <3> QED
        BY <1>1, <1>2, <1>4, <2>1, <3>1, <3>2, <3>3, <3>4 DEF BudgetsKept
    <2>3. CASE Backtrack
      <3>1. /\ pc = "human_verify_gate" /\ pc' = "classify"
            /\ backtrackCount' = backtrackCount + 1 /\ refineCount' = 0 /\ UNCHANGED rounds
        BY <2>3 DEF Backtrack, Gate!Continue
      <3>2. rounds'["review_gate"] = rev /\ rounds'["human_verify_gate"] = ver
        BY <3>1
      <3>3. PlanRounds(backtrackCount)' = base + MaxPreGateRefines + 1
        BY <1>3, <3>1
      <3>4. /\ pc \notin BeforeTheReview /\ pc' \in BeforeTheReview
            /\ pc \notin BeforeTheResult /\ pc' \in BeforeTheResult
            /\ pc \notin BeforeTheWalk /\ pc' \in BeforeTheWalk
        BY <3>1 DEF BeforeTheReview, BeforeTheResult, BeforeTheWalk, Passes, Reviewed
      <3> HIDE DEF base, rev, ver
      <3> QED
        BY <1>1, <1>2, <1>4, <2>1, <3>1, <3>2, <3>3, <3>4 DEF BudgetsKept
    <2>4. CASE SkipVerifyGate \/ AcceptResult \/ RefuseResult
      <3>1. /\ pc' = "log_and_notify" /\ UNCHANGED <<backtrackCount, refineCount, rounds>>
        BY <2>4 DEF SkipVerifyGate, AcceptResult, RefuseResult, planVars, gateVars, Gate!Continue
      <3> QED
        BY <1>5, <2>1, <3>1 DEF BeforeTheReview, BeforeTheResult, BeforeTheWalk, Passes, Reviewed
    <2> QED
      BY <1>10, <2>2, <2>3, <2>4 DEF VerifyGate
  <1> QED
    BY <1>6, <1>7, <1>8, <1>9, <1>10, <1>11 DEF Workflow

THEOREM BudgetInvariant == Spec => []BudgetsKept
  <1>1. Init => BudgetsKept
    <2>1. PlanRounds(0) = 0
      BY DEF PlanRounds
    <2> QED
      BY <2>1 DEF Init, Gate!Init, Gates, BudgetsKept, BeforeTheReview, BeforeTheResult,
                  BeforeTheWalk
  <1>2. IInv /\ BudgetsKept /\ [Next]_vars => BudgetsKept'
    BY TypeSplits, BudgetsPreserved DEF IInv
  <1> QED
    BY <1>1, <1>2, TriageInvariant, PTL DEF Spec

\* The budgets of refines and backtracks multiply, and bound what a whole run
\* asks of its reviewers and how often it walks a card.
THEOREM BudgetsHold == Spec => []BudgetsBoundTheRun
  <1>1. IInv /\ BudgetsKept => BudgetsBoundTheRun
    <2> SUFFICES ASSUME IInv, BudgetsKept
                 PROVE  BudgetsBoundTheRun
      OBVIOUS
    <2>1. RunType /\ GateType
      BY TypeSplits DEF IInv
    <2>2. /\ rounds["review_gate"] \in Nat /\ rounds["human_verify_gate"] \in Nat
          /\ executions \in Nat /\ backtrackCount \in Nat
          /\ refineCount \in Nat /\ refineCount <= MaxPreGateRefines
      BY <2>1, MaxSlotsType DEF RunType, GateType, Gates
    <2>3. PlanRounds(backtrackCount) \in Nat
      BY <2>2, PlanRoundsGrow
    <2>4. (backtrackCount + 1) * (MaxPreGateRefines + 1)
            = PlanRounds(backtrackCount) + MaxPreGateRefines + 1
      BY <2>2, PlanRoundsGrow DEF PlanRounds
    <2>5. rounds["review_gate"] <= PlanRounds(backtrackCount) + MaxPreGateRefines + 1
      BY <2>2, <2>3 DEF BudgetsKept
    <2> QED
      BY <2>2, <2>4, <2>5 DEF BudgetsKept, BudgetsBoundTheRun
  <1> QED
    BY <1>1, TriageInvariant, BudgetInvariant, PTL

\* A gate the workflow is about to open has a slot left: the bound on slots in
\* the model's guard is never what stops a run.
THEOREM SlotsAreNeverShort ==
  Spec => [](/\ pc = "open_review_gate" => rounds["review_gate"] < MaxSlots
             /\ pc = "open_verify_gate" => rounds["human_verify_gate"] < MaxSlots)
  <1>1. IInv /\ BudgetsKept =>
          /\ pc = "open_review_gate" => rounds["review_gate"] < MaxSlots
          /\ pc = "open_verify_gate" => rounds["human_verify_gate"] < MaxSlots
    <2> SUFFICES ASSUME IInv, BudgetsKept
                 PROVE  /\ pc = "open_review_gate" => rounds["review_gate"] < MaxSlots
                        /\ pc = "open_verify_gate" => rounds["human_verify_gate"] < MaxSlots
      OBVIOUS
    <2>1. RunType /\ GateType
      BY TypeSplits DEF IInv
    <2>2. /\ rounds["review_gate"] \in Nat /\ rounds["human_verify_gate"] \in Nat
          /\ backtrackCount \in 0..MaxBacktracks
          /\ refineCount \in Nat /\ refineCount <= MaxPreGateRefines
      BY <2>1, MaxSlotsType DEF RunType, GateType, Gates
    <2>3. PlanRounds(backtrackCount) \in Nat
      BY <2>2, PlanRoundsGrow
    <2>4. /\ PlanRounds(backtrackCount) + MaxPreGateRefines + 1 < MaxSlots
          /\ backtrackCount + 1 < MaxSlots
      BY <2>2, SlotsSuffice
    <2>5. /\ rounds["review_gate"] <= PlanRounds(backtrackCount) + MaxPreGateRefines + 1
          /\ rounds["human_verify_gate"] <= backtrackCount + 1
      BY <2>2, <2>3 DEF BudgetsKept
    <2> QED
      BY <2>2, <2>3, <2>4, <2>5, MaxSlotsType
  <1> QED
    BY <1>1, TriageInvariant, BudgetInvariant, PTL
=============================================================================
