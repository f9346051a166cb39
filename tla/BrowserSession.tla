--------------------------- MODULE BrowserSession ---------------------------
(***************************************************************************)
(* The browser sessions of one run: mastra/tools/playwrightMcp.ts.         *)
(*                                                                         *)
(* launchBrowser spawns an MCP subprocess whose Chromium uses the run's    *)
(* one profile directory. A session is closed by its caller or by the      *)
(* abort listener; either way the flag `closed` is raised first and the    *)
(* teardown goes on behind it: transport and process tree, then the        *)
(* profile directory. A second close returns at once.                      *)
(*                                                                         *)
(* The actions here are what happens by itself. The operators StartLaunch  *)
(* to CallReturns are parts of the callers' actions (ReactRunner,          *)
(* SkillCardWalk, BrowserWork).                                            *)
(***************************************************************************)
EXTENDS Integers, Sequences, FiniteSets

CONSTANTS
  MaxSessions,   \* launches in one run (bound)
  None

Sessions == 1..MaxSessions

ASSUME SessionAssumption == MaxSessions \in Nat \ {0} /\ None \notin Sessions

VARIABLES
  aborted,    \* the abort signal of the engine has fired
  process,    \* [Sessions -> Lives] the subprocess tree of a session
  signal,     \* [Sessions -> BOOLEAN] launched with the abort signal
  closed,     \* [Sessions -> BOOLEAN] the flag of close()
  teardown,   \* [Sessions -> Stages] how far the one real close has come
  profile,    \* the session whose browser made the profile directory, or None
  stepOf,     \* [Sessions -> Steps] currentStepId
  span,       \* the tool call in flight, or None
  spilled     \* history: what no cleanup will clean up any more

sessionVars == <<aborted, process, signal, closed, teardown, profile, stepOf,
                 span, spilled>>

Lives == {"none", "connecting", "failed", "up", "orphan", "gone"}
Stages == {"no", "client", "rm", "done"}
Steps == {"dry_run", "execute"}
Tools == {"navigate", "snapshot", "click", "fillForm", "takeScreenshot"}
\* "after" is the screenshot that click and fillForm take by themselves.
Ops == Tools \cup {"after"}
Spans == [session : Sessions, op : Ops, step : Steps]

SessionTypeOK ==
  /\ aborted \in BOOLEAN
  /\ process \in [Sessions -> Lives]
  /\ signal \in [Sessions -> BOOLEAN]
  /\ closed \in [Sessions -> BOOLEAN]
  /\ teardown \in [Sessions -> Stages]
  /\ profile \in Sessions \cup {None}
  /\ stepOf \in [Sessions -> Steps]
  /\ span \in Spans \cup {None}
  /\ spilled \subseteq {"chromium", "profile"}

SessionInit ==
  /\ aborted = FALSE
  /\ process = [s \in Sessions |-> "none"]
  /\ signal = [s \in Sessions |-> FALSE]
  /\ closed = [s \in Sessions |-> FALSE]
  /\ teardown = [s \in Sessions |-> "no"]
  /\ profile = None
  /\ stepOf = [s \in Sessions |-> "dry_run"]
  /\ span = None
  /\ spilled = {}

-----------------------------------------------------------------------------
(* Launching. A signal that has fired already is refused at the entry; one *)
(* that fires while the client connects is noticed by nobody, because the  *)
(* listener is registered afterwards.                                      *)

MayLaunch(withSignal) == ~(withSignal /\ aborted)

StartLaunch(s, step, withSignal) ==
  /\ process[s] = "none"
  /\ MayLaunch(withSignal)
  /\ process' = [process EXCEPT ![s] = "connecting"]
  /\ signal' = [signal EXCEPT ![s] = withSignal]
  /\ stepOf' = [stepOf EXCEPT ![s] = step]
  /\ UNCHANGED <<aborted, closed, teardown, profile, span, spilled>>

\* Chromium makes the profile directory, or takes the one it finds.
Connect(s) ==
  /\ process[s] = "connecting"
  /\ process' = [process EXCEPT ![s] = "up"]
  /\ profile' = IF profile = None THEN s ELSE profile
  /\ UNCHANGED <<aborted, signal, closed, teardown, stepOf, span, spilled>>

ConnectFails(s) ==
  /\ process[s] = "connecting"
  /\ process' = [process EXCEPT ![s] = "failed"]
  /\ UNCHANGED <<aborted, signal, closed, teardown, profile, stepOf, span, spilled>>

Alive(s) == process[s] \in {"up", "orphan"}

\* launchBrowser returned the session, whatever became of its process.
Opened == {"up", "orphan", "gone"}

-----------------------------------------------------------------------------
(* Closing.                                                                *)

RaiseClosed(S) ==
  /\ closed' = [s \in Sessions |-> closed[s] \/ s \in S]
  /\ teardown' = [s \in Sessions |-> IF s \in S THEN "client" ELSE teardown[s]]

\* close() called by the workflow: the first call starts the teardown.
Close(s) ==
  /\ RaiseClosed({s} \ {t \in Sessions : closed[t]})
  /\ UNCHANGED <<aborted, process, signal, profile, stepOf, span, spilled>>

\* When the call of close(s) comes back. The caller that began the teardown
\* waits for its end; `first` says whether this caller did.
CloseReturnsAtOnce(s, first) == TRUE    \* mutant: the caller does not wait

CloseReturns(s, first) == first => teardown[s] = "done"

\* The signal fires: every session that listens begins to close.
Abort ==
  /\ ~aborted
  /\ aborted' = TRUE
  /\ RaiseClosed({s \in Sessions : process[s] \in Opened /\ signal[s] /\ ~closed[s]})
  /\ UNCHANGED <<process, signal, profile, stepOf, span, spilled>>

\* What a kill leaves: `ps` may fail, and then Chromium outlives the session.
\* Nothing is found below an npx that died before, and an orphan stays one.
AfterKill(s) == IF process[s] = "up" THEN {"gone", "orphan"} ELSE {process[s]}

\* client.close() has settled; the tree is killed, a failure is logged.
KillTree(s) ==
  /\ teardown[s] = "client"
  /\ teardown' = [teardown EXCEPT ![s] = "rm"]
  /\ \E left \in AfterKill(s) :
       /\ process' = [process EXCEPT ![s] = left]
       /\ spilled' = IF left = "orphan" THEN spilled \cup {"chromium"} ELSE spilled
  /\ UNCHANGED <<aborted, signal, closed, profile, stepOf, span>>

\* The directory is removed by its path, whoever uses it by now.
RemoveProfile(s) ==
  /\ teardown[s] = "rm"
  /\ teardown' = [teardown EXCEPT ![s] = "done"]
  /\ \/ /\ profile' = None
        /\ UNCHANGED spilled
     \/ /\ spilled' = spilled \cup {"profile"}
        /\ UNCHANGED profile
  /\ UNCHANGED <<aborted, process, signal, closed, stepOf, span>>

\* The subprocess is lost with all below it, or npx alone, and then Chromium
\* is reparented to init, where the walk from npx's pid will not find it.
Crash(s) ==
  /\ process[s] = "up"
  /\ \E left \in {"gone", "orphan"} :
       /\ process' = [process EXCEPT ![s] = left]
       /\ spilled' = IF left = "orphan" THEN spilled \cup {"chromium"} ELSE spilled
  /\ UNCHANGED <<aborted, signal, closed, teardown, profile, stepOf, span>>

-----------------------------------------------------------------------------
(* Tool calls: callWithSpan. On a closed session a call throws before any  *)
(* frame is published; otherwise tool.started opens the span and the       *)
(* result closes it under the same step.                                   *)

\* The calls one method of a session makes.
MethodCalls(t) == IF t \in {"click", "fillForm"} THEN <<t, "after">> ELSE <<t>>

OpenSpan(s, op) ==
  /\ ~closed[s]
  /\ span' = [session |-> s, op |-> op, step |-> stepOf[s]]

\* A call can succeed when the browser lives, holds the profile alone, and
\* the signal it was given has not fired.
CanSucceed(s) ==
  /\ process[s] = "up"
  /\ ~(signal[s] /\ aborted)
  /\ \A t \in Sessions \ {s} : ~Alive(t)

CallReturns(ok) ==
  /\ span # None
  /\ ok => CanSucceed(span.session)

-----------------------------------------------------------------------------
SessionNext == \/ Abort
               \/ \E s \in Sessions : KillTree(s) \/ RemoveProfile(s) \/ Crash(s)

=============================================================================
