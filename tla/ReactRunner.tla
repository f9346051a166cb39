---------------------------- MODULE ReactRunner ----------------------------
(***************************************************************************)
(* The rehearsal: runReActIterations of mastra/lib/reactRunner.ts with the *)
(* tools of mastra/tools/reactBrowserTools.ts, as runDryRunStep uses them. *)
(*                                                                         *)
(* Each iteration asks the model once and runs at most one tool. A tool is *)
(* one browser call or several: click and fillForm are followed by a       *)
(* screenshot, whose failure is ignored, and by a snapshot for the model.  *)
(* A tool is recorded when all of its calls have returned.                 *)
(***************************************************************************)
EXTENDS BrowserSession

CONSTANTS
  MaxIterations,   \* cap of the loop
  MaxCalls,        \* tools the model calls in one run (bound)
  CalledTools      \* the browser tools among which it chooses (bound)

ASSUME IterationAssumption == /\ MaxIterations \in Nat \ {0}
                              /\ MaxCalls \in Nat
                              /\ CalledTools \subseteq Tools

VARIABLES
  pc,         \* the await at which the run's coroutine stands
  cur,        \* ctx.browser, or None
  iteration,  \* iterations completed in this rehearsal
  tool,       \* the tool that is running, or None
  todo,       \* its calls that have not returned
  trace,      \* actionTrace: what the rehearsal recorded, in order
  boundary,   \* boundary_reached was called
  calls,      \* tools called so far in the run
  effects     \* [Sessions -> Seq] history: what changed in a session's browser

runnerVars == <<pc, cur, iteration, tool, todo, trace, boundary, calls, effects>>

\* Tools that change the page. An action is known by its number among the
\* run's calls; 0 is the destructive click of an execution.
Changing == {"navigate", "click", "fillForm"}
Ids == 0..MaxCalls
Actions == [tool : Tools, id : 1..MaxCalls]

RunnerTypeOK ==
  /\ cur \in Sessions \cup {None}
  /\ iteration \in 0..MaxIterations
  /\ tool \in Tools \cup {None}
  /\ todo \in Seq(Ops)
  /\ trace \in Seq(Actions)
  /\ boundary \in BOOLEAN
  /\ calls \in 0..MaxCalls
  /\ effects \in [Sessions -> Seq(Ids)]

RunnerInit ==
  /\ cur = None
  /\ iteration = 0
  /\ tool = None
  /\ todo = <<>>
  /\ trace = <<>>
  /\ boundary = FALSE
  /\ calls = 0
  /\ effects = [s \in Sessions |-> <<>>]

\* The browser calls of a tool: the model is shown the page after a change.
ToolCalls(t) == IF t \in {"click", "fillForm"} THEN MethodCalls(t) \o <<"snapshot">>
                ELSE MethodCalls(t)

\* A call may change the page: surely when it succeeds, and perhaps when its
\* answer is lost on the way back from a browser that was alive.
Lands(op, id, ok) ==
  LET landed == [effects EXCEPT ![span.session] = Append(@, id)]
  IN  \/ op \in Changing /\ (ok \/ process[span.session] = "up") /\ effects' = landed
      \/ (op \notin Changing \/ ~ok) /\ UNCHANGED effects

-----------------------------------------------------------------------------
(* The loop. `continue` and the end of the body lead to LoopGoesOn, `break`*)
(* to LeaveLoop.                                                           *)

LoopGoesOn ==
  /\ iteration' = iteration + 1
  /\ pc' = IF iteration + 1 < MaxIterations THEN "think" ELSE "rehearsed"

LeaveLoop ==
  /\ iteration' = iteration + 1
  /\ pc' = "rehearsed"

Thinking == pc = "think" /\ ~aborted

\* streamMessage rejects, always when the signal has fired. The runner does
\* not catch it: the step and with it the run fails.
ModelFails ==
  /\ pc = "think"
  /\ pc' = "final"
  /\ UNCHANGED <<sessionVars, cur, iteration, tool, todo, trace, boundary, calls, effects>>

\* Text only, or a tool that is not in the registry: the last iteration.
ModelFinishes ==
  /\ Thinking
  /\ LeaveLoop
  /\ UNCHANGED <<sessionVars, cur, tool, todo, trace, boundary, calls, effects>>

\* The tool's input does not parse: an observation, and the next iteration.
ModelMisspells ==
  /\ Thinking
  /\ LoopGoesOn
  /\ UNCHANGED <<sessionVars, cur, tool, todo, trace, boundary, calls, effects>>

\* boundary_reached returns the sentinel: it is recorded and the loop left.
ReachBoundary ==
  /\ Thinking
  /\ boundary' = TRUE
  /\ LeaveLoop
  /\ UNCHANGED <<sessionVars, cur, tool, todo, trace, calls, effects>>

\* The model calls a browser tool, whose first call starts.
CallTool(t) ==
  /\ Thinking
  /\ calls < MaxCalls
  /\ calls' = calls + 1
  /\ OpenSpan(cur, t)
  /\ tool' = t
  /\ todo' = ToolCalls(t)
  /\ pc' = "act"
  /\ UNCHANGED <<aborted, process, signal, closed, teardown, profile, stepOf,
                 spilled, cur, iteration, trace, boundary, effects>>

\* Some call of the tool throws: an error observation, nothing recorded.
ToolThrows ==
  /\ LoopGoesOn
  /\ tool' = None /\ todo' = <<>> /\ span' = None
  /\ UNCHANGED trace

ToolReturns ==
  /\ trace' = Append(trace, [tool |-> tool, id |-> calls])
  /\ LoopGoesOn
  /\ tool' = None /\ todo' = <<>> /\ span' = None

\* The call in flight settles. The implicit screenshot may fail; a session
\* closed in the meantime makes the next call throw without a span.
ObserveCall(ok) ==
  /\ pc = "act"
  /\ CallReturns(ok)
  /\ Lands(todo[1], calls, ok)
  /\ LET goesOn == ok \/ todo[1] = "after"
     IN  \/ goesOn /\ Len(todo) = 1 /\ ToolReturns
         \/ /\ goesOn /\ Len(todo) > 1
            /\ OpenSpan(cur, todo[2])
            /\ todo' = Tail(todo)
            /\ UNCHANGED <<pc, iteration, tool, trace>>
         \/ goesOn /\ Len(todo) > 1 /\ closed[cur] /\ ToolThrows
         \/ ~goesOn /\ ToolThrows
  /\ UNCHANGED <<aborted, process, signal, closed, teardown, profile, stepOf,
                 spilled, cur, boundary, calls>>

RunnerNext ==
  \/ ModelFails
  \/ ModelFinishes
  \/ ModelMisspells
  \/ ReachBoundary
  \/ \E t \in CalledTools : CallTool(t)
  \/ \E ok \in BOOLEAN : ObserveCall(ok)

=============================================================================
