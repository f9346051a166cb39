--------------------------- MODULE SkillCardWalk ---------------------------
(***************************************************************************)
(* The execution: materializeSteps of mastra/workflows/triage.ts, which    *)
(* makes a card of a rehearsal, and executeSkillCardSteps of               *)
(* mastra/tools/skillCardExecutor.ts, which walks it in a browser session. *)
(*                                                                         *)
(* A click or fill needs a snapshot to find its elements in; the walk keeps*)
(* the last one until a step changes the page. In a session that already   *)
(* has the rehearsal behind it, the leading steps are skipped.             *)
(***************************************************************************)
EXTENDS ReactRunner

VARIABLES
  card,      \* steps of ctx.tempSkillCard
  at,        \* index of the step being walked
  lastSnap,  \* how many changes the kept snapshot shows, or None
  refsFrom   \* history: the same for the snapshot the last click was found in

walkVars == <<card, at, lastSnap, refsFrom>>

CardSteps == [tool : Tools, id : Ids, destructive : BOOLEAN]
MaxSteps == MaxCalls + 1

WalkTypeOK ==
  /\ card \in Seq(CardSteps)
  /\ at \in 1..MaxSteps + 1
  /\ lastSnap \in 0..2 * MaxSteps \cup {None}
  /\ refsFrom \in 0..2 * MaxSteps \cup {None}

WalkInit ==
  /\ card = <<>>
  /\ at = 1
  /\ lastSnap = None
  /\ refsFrom = None

\* The rehearsal's steps, and behind them the click it stopped before.
Materialized ==
  Append([i \in 1..Len(trace) |->
            [tool |-> trace[i].tool, id |-> trace[i].id, destructive |-> FALSE]],
         [tool |-> "click", id |-> 0, destructive |-> TRUE])

\* Where a walk begins: at the first destructive step when it resumes (behind
\* the card when there is none), else at the first.
ResumeAlways(steps, resume) ==    \* mutant: a new session resumes as well
  CHOOSE i \in 1..Len(steps) + 1 :
    /\ i <= Len(steps) => steps[i].destructive
    /\ \A j \in 1..i - 1 : ~steps[j].destructive

FirstStep(steps, resume) ==
  IF ~resume THEN 1
  ELSE CHOOSE i \in 1..Len(steps) + 1 :
         /\ i <= Len(steps) => steps[i].destructive
         /\ \A j \in 1..i - 1 : ~steps[j].destructive

NeedsRefs(t) == t \in {"click", "fillForm"}
Step == card[at]
Changes == Len(effects[cur])

\* The calls of a step: a snapshot first when elements must be looked up and
\* none is kept.
StepCalls == IF NeedsRefs(Step.tool) /\ lastSnap = None
             THEN <<"snapshot">> \o MethodCalls(Step.tool)
             ELSE MethodCalls(Step.tool)

walkFrame == <<aborted, process, signal, closed, teardown, profile, stepOf,
               spilled, cur, iteration, trace, boundary, calls, card>>

-----------------------------------------------------------------------------
BeginWalk(resume) ==
  /\ pc' = "walk"
  /\ at' = FirstStep(card, resume)
  /\ lastSnap' = None

\* executeSkillCardSteps returns or throws; its locals are gone.
LeaveWalk(to) ==
  /\ pc' = to
  /\ at' = 1 /\ lastSnap' = None /\ refsFrom' = None
  /\ tool' = None /\ todo' = <<>> /\ span' = None

\* A PlaywrightMcpError ends the walk; what was done stays done.
StopWalk == LeaveWalk("walked")

\* An argument that does not resolve as a template is not caught by the walk.
WalkThrows ==
  /\ pc = "walk" /\ at <= Len(card)
  /\ LeaveWalk("final")
  /\ UNCHANGED <<walkFrame, effects>>

EndOfCard ==
  /\ pc = "walk" /\ at > Len(card)
  /\ LeaveWalk("walked")
  /\ UNCHANGED <<walkFrame, effects>>

\* A step begins. With a snapshot kept, its elements are looked up at once
\* and may be missing; a closed session throws.
BeginStep ==
  /\ pc = "walk" /\ at <= Len(card)
  /\ \/ /\ OpenSpan(cur, StepCalls[1])
        /\ tool' = Step.tool
        /\ todo' = StepCalls
        /\ pc' = "step"
        /\ refsFrom' = IF NeedsRefs(Step.tool) THEN lastSnap ELSE refsFrom
        /\ UNCHANGED <<at, lastSnap>>
     \/ (closed[cur] \/ NeedsRefs(Step.tool)) /\ StopWalk
  /\ UNCHANGED <<walkFrame, effects>>

SnapKeptOverNavigate ==    \* mutant: navigate does not clear it
  CASE Step.tool \in {"click", "fillForm"} -> None
    [] Step.tool = "snapshot" -> Changes
    [] OTHER -> lastSnap

\* What the kept snapshot is after a step has succeeded.
SnapAfter == CASE Step.tool \in Changing -> None
               [] Step.tool = "snapshot" -> Changes
               [] OTHER -> lastSnap

StepReturns ==
  /\ at' = at + 1
  /\ lastSnap' = SnapAfter
  /\ pc' = "walk"
  /\ refsFrom' = None
  /\ tool' = None /\ todo' = <<>> /\ span' = None

\* The call in flight settles. After the look-up snapshot, the element is
\* searched for in it.
ObserveStep(ok) ==
  /\ pc = "step"
  /\ CallReturns(ok)
  /\ Lands(todo[1], Step.id, ok)
  /\ LET goesOn == ok \/ todo[1] = "after"
         lookUp == todo[1] = "snapshot" /\ Len(todo) > 1
     IN  \/ goesOn /\ Len(todo) = 1 /\ StepReturns
         \/ /\ goesOn /\ Len(todo) > 1
            /\ OpenSpan(cur, todo[2])
            /\ todo' = Tail(todo)
            /\ lastSnap' = IF lookUp THEN Changes ELSE lastSnap
            /\ refsFrom' = IF lookUp THEN Changes ELSE refsFrom
            /\ UNCHANGED <<pc, tool, at>>
         \/ (~goesOn \/ lookUp) /\ StopWalk
  /\ UNCHANGED walkFrame

WalkNext ==
  \/ WalkThrows
  \/ EndOfCard
  \/ BeginStep
  \/ \E ok \in BOOLEAN : ObserveStep(ok)

=============================================================================
