---------------------------- MODULE BrowserWork ----------------------------
(***************************************************************************)
(* What one run does with its browser, from the first rehearsal to the     *)
(* wrapper's `finally`: runDryRunStep and runExecuteStep of                *)
(* mastra/workflows/triage.ts around ReactRunner and SkillCardWalk, and    *)
(* the close in http/triage.ts. The gates and loops between them are in    *)
(* TriageRun; here a round is a rehearsal with or without an execution.    *)
(***************************************************************************)
EXTENDS SkillCardWalk

CONSTANT MaxRounds     \* rounds of one run (bound)

ASSUME RoundAssumption == MaxRounds \in Nat /\ 2 * MaxRounds <= MaxSessions

VARIABLES
  round,     \* rounds begun
  next,      \* the session the coroutine is launching, or None
  began      \* its close() of cur is the one that tears the session down

workVars == <<round, next, began>>
vars == <<sessionVars, runnerVars, walkVars, workVars>>

Awaits == {"dry", "think", "act", "rehearsed", "walk", "step", "walked", "preclose",
           "launch", "probe", "reclose", "relaunch", "final", "closing", "over"}

TypeOK ==
  /\ SessionTypeOK /\ RunnerTypeOK /\ WalkTypeOK
  /\ pc \in Awaits
  /\ round \in 0..MaxRounds
  /\ next \in Sessions \cup {None}
  /\ began \in BOOLEAN

Init ==
  /\ SessionInit /\ RunnerInit /\ WalkInit
  /\ pc = "dry"
  /\ round = 0
  /\ next = None
  /\ began = FALSE

\* The next session that was never launched.
Fresh == CHOOSE s \in Sessions : /\ process[s] = "none"
                                 /\ \A t \in 1..s - 1 : process[t] # "none"

callFrame == <<iteration, tool, todo, trace, boundary, calls, effects, walkVars>>

-----------------------------------------------------------------------------
(* Closing and launching, as the steps of the workflow do it.              *)

\* `await ctx.browser.close()`, and what follows when it returns.
CloseCur(then) ==
  /\ Close(cur)
  /\ began' = ~closed[cur]
  /\ pc' = then

\* launchBrowser is called; the coroutine waits for the connection.
LaunchFrom(step, withSignal, then) ==
  /\ StartLaunch(Fresh, step, withSignal)
  /\ next' = Fresh
  /\ pc' = then

\* The launch throws: ctx.browser is not set, the run fails.
LaunchFails(at_) ==
  /\ pc = at_
  /\ ConnectFails(next)
  /\ next' = None
  /\ pc' = "final"
  /\ UNCHANGED <<cur, callFrame, round, began>>

-----------------------------------------------------------------------------
(* runDryRunStep.                                                          *)

\* A rehearsal begins. An older session is closed before anything else.
PreClose ==
  /\ pc = "dry" /\ cur # None
  /\ CloseCur("preclose")
  /\ UNCHANGED <<cur, callFrame, round, next>>

PreCloseReturns ==
  /\ pc = "preclose"
  /\ CloseReturns(cur, began)
  /\ cur' = None /\ began' = FALSE
  /\ pc' = "dry"
  /\ UNCHANGED <<sessionVars, callFrame, round, next>>

\* No card was picked, or it cannot be loaded: nothing is launched.
NoScaffold ==
  /\ pc = "dry" /\ cur = None /\ round < MaxRounds
  /\ round' = round + 1
  /\ trace' = <<>> /\ boundary' = FALSE
  /\ pc' = "rehearsed"
  /\ UNCHANGED <<sessionVars, cur, iteration, tool, todo, calls, effects, walkVars, next,
                 began>>

Rehearse ==
  /\ pc = "dry" /\ cur = None /\ round < MaxRounds
  /\ round' = round + 1
  /\ \/ LaunchFrom("dry_run", TRUE, "launch")
     \/ ~MayLaunch(TRUE) /\ pc' = "final" /\ UNCHANGED <<sessionVars, next>>
  /\ UNCHANGED <<cur, callFrame, began>>

Launched ==
  /\ pc = "launch"
  /\ Connect(next)
  /\ cur' = next /\ next' = None
  /\ iteration' = 0 /\ trace' = <<>> /\ boundary' = FALSE
  /\ pc' = "think"
  /\ UNCHANGED <<tool, todo, calls, effects, walkVars, round, began>>

-----------------------------------------------------------------------------
(* Between the steps: Block 1 and the gates decide what comes next.        *)

\* Another pass, a refine or a backtrack; or the run is over.
Again ==
  /\ pc \in {"rehearsed", "walked"}
  /\ pc' \in IF round < MaxRounds THEN {"dry", "final"} ELSE {"final"}
  /\ UNCHANGED <<sessionVars, cur, callFrame, workVars>>

-----------------------------------------------------------------------------
(* runMaterializeSkillCardStep and runExecuteStep.                         *)

\* The approved rehearsal is made into a card, and the session that may still
\* be alive is probed with a snapshot. A closed one throws at once and is
\* closed again.
Execute ==
  /\ pc = "rehearsed" /\ boundary
  /\ card' = Materialized
  /\ stepOf' = [stepOf EXCEPT ![cur] = "execute"]
  /\ \/ /\ ~closed[cur]
        /\ span' = [session |-> cur, op |-> "snapshot", step |-> "execute"]
        /\ pc' = "probe"
     \/ /\ closed[cur]
        /\ pc' = "reclose"
        /\ UNCHANGED span
  /\ began' = FALSE
  /\ UNCHANGED <<aborted, process, signal, closed, teardown, profile, spilled, cur,
                 iteration, tool, todo, trace, boundary, calls, effects, at,
                 lastSnap, refsFrom, round, next>>

\* The session is alive: the walk resumes at the destructive step.
ProbeSucceeds ==
  /\ pc = "probe"
  /\ CallReturns(TRUE)
  /\ span' = None
  /\ BeginWalk(TRUE)
  /\ UNCHANGED <<aborted, process, signal, closed, teardown, profile, stepOf,
                 spilled, cur, iteration, tool, todo, trace, boundary, calls, effects,
                 card, refsFrom, workVars>>

\* It is not: close it and start over in a session of its own.
ProbeFails ==
  /\ pc = "probe"
  /\ CallReturns(FALSE)
  /\ span' = None
  /\ RaiseClosed({cur} \ {t \in Sessions : closed[t]})
  /\ began' = ~closed[cur]
  /\ pc' = "reclose"
  /\ UNCHANGED <<aborted, process, signal, profile, stepOf, spilled, cur, callFrame,
                 round, next>>

\* ctx.browser is cleared, and the new session gets no signal.
Relaunch ==
  /\ pc = "reclose"
  /\ CloseReturns(cur, began)
  /\ cur' = None
  /\ began' = FALSE
  /\ LaunchFrom("execute", FALSE, "relaunch")
  /\ UNCHANGED <<callFrame, round>>

Relaunched ==
  /\ pc = "relaunch"
  /\ Connect(next)
  /\ cur' = next /\ next' = None
  /\ BeginWalk(FALSE)
  /\ UNCHANGED <<iteration, tool, todo, trace, boundary, calls, effects, card, refsFrom,
                 round, began>>

-----------------------------------------------------------------------------
(* The wrapper's `finally`.                                                *)

FinallyForgets ==    \* mutant: nothing is closed
  /\ pc = "final"
  /\ pc' = "over"
  /\ UNCHANGED <<sessionVars, began, cur, callFrame, round, next>>

Finally ==
  /\ pc = "final"
  /\ \/ /\ cur # None
        /\ CloseCur("closing")
     \/ /\ cur = None
        /\ pc' = "over"
        /\ UNCHANGED <<sessionVars, began>>
  /\ UNCHANGED <<cur, callFrame, round, next>>

FinalCloseReturns ==
  /\ pc = "closing"
  /\ CloseReturns(cur, began)
  /\ pc' = "over"
  /\ UNCHANGED <<sessionVars, cur, callFrame, workVars>>

-----------------------------------------------------------------------------
ByItself == SessionNext /\ UNCHANGED <<runnerVars, walkVars, workVars>>

Coroutine ==
  \/ PreClose \/ PreCloseReturns \/ NoScaffold \/ Rehearse \/ Launched
  \/ LaunchFails("launch") \/ LaunchFails("relaunch")
  \/ RunnerNext /\ UNCHANGED <<walkVars, workVars>>
  \/ Again \/ Execute \/ ProbeSucceeds \/ ProbeFails \/ Relaunch \/ Relaunched
  \/ WalkNext /\ UNCHANGED workVars
  \/ Finally \/ FinalCloseReturns

\* The run is over and its teardown done.
Done == pc = "over" /\ UNCHANGED vars

Next == ByItself \/ Coroutine \/ Done

Spec == Init /\ [][Next]_vars

\* Calls settle, teardown steps end, reviewers answer. Nothing has to crash,
\* and the signal need not fire.
FairSpec ==
  /\ Spec
  /\ WF_vars(Coroutine)
  /\ \A s \in Sessions : WF_vars((KillTree(s) \/ RemoveProfile(s))
                                 /\ UNCHANGED <<runnerVars, walkVars, workVars>>)

-----------------------------------------------------------------------------
(* Properties.                                                             *)

\* playwrightMcp.ts promises one MCP subprocess per run and a profile per
\* session: however passes, refines and relaunches follow each other, a
\* session works alone and in a profile directory it made itself, unless the
\* signal has fired, a cleanup has failed, or npx died without its Chromium
\* (none of which is repaired).
ProfileIsOwn ==
  \A s \in Sessions :
    process[s] = "up" /\ ~closed[s] /\ ~aborted /\ spilled = {} =>
      /\ profile = s
      /\ \A t \in Sessions \ {s} : ~Alive(t)

\* The first n actions of a recording that change the page are behind, each
\* once and in their order, and the destructive click is not.
Carried(recording, n, behind) ==
  LET planned == {i \in 1..n : recording[i].tool \in Changing}
  IN  /\ \A i \in planned : \E p \in 1..Len(behind) : behind[p] = recording[i].id
      /\ \A i, j \in planned : \A p, q \in 1..Len(behind) :
           behind[p] = recording[i].id /\ behind[q] = recording[j].id => (p < q <=> i < j)
      /\ \A p \in 1..Len(behind) : behind[p] # 0

\* The destructive click is issued only in a browser that has the rehearsal's
\* recorded actions behind it, each once and in their order, whether the walk
\* resumed in the rehearsal's session or started over in another; and it is
\* issued once.
DestructiveFollowsThePlan ==
  (span # None /\ pc = "step" /\ Step.destructive /\ span.op = "click") =>
    Carried(trace, Len(trace), effects[cur])

\* A click or a fill of the walk finds its elements in a snapshot taken after
\* the last change of the page, never in one kept from before it.
RefsAreCurrent ==
  (pc = "step" /\ span.op \in {"click", "fillForm"}) => refsFrom = Changes

\* The run ends, and nothing of its browsers outlives it: whatever crashed,
\* failed or was aborted, every subprocess is gone, unless the kill itself
\* failed or npx had died without its Chromium.
NothingSurvivesTheRun ==
  <>[](pc = "over" /\ (\A s \in Sessions : ~Alive(s) \/ "chromium" \in spilled))

\* playwrightMcp.ts: "ONE MCP subprocess per run".
OneSubprocess ==
  spilled = {} => Cardinality({s \in Sessions : process[s] \in {"connecting", "up"}}) <= 1

=============================================================================
