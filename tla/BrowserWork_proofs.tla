------------------------- MODULE BrowserWork_proofs -------------------------
(***************************************************************************)
(* Proofs about the browser sessions of a run, for any number of rounds,   *)
(* iterations and tool calls.                                              *)
(***************************************************************************)
EXTENDS BrowserWork, SequenceTheorems, TLAPS

USE SessionAssumption, RoundAssumption

-----------------------------------------------------------------------------
(* The inductive invariant.                                                *)

Early == {"none", "connecting", "failed"}
Closing == {"preclose", "reclose", "closing"}
Launching == {"launch", "relaunch"}
Working == {"think", "act", "probe", "walk", "step"}

\* A session that never came up was never closed, and every close has its
\* teardown.
SessionInv ==
  /\ aborted \in BOOLEAN
  /\ process \in [Sessions -> Lives]
  /\ closed \in [Sessions -> BOOLEAN]
  /\ teardown \in [Sessions -> Stages]
  /\ \A s \in Sessions : teardown[s] = "no" <=> ~closed[s]
  /\ \A s \in Sessions : process[s] \in Early => ~closed[s]

\* Sessions are used in order, two at most in a round; in the places where the
\* second of a round may still come, there is room for it.
UsedUpTo(n) == \A s \in Sessions : process[s] = "none" <=> s > n
RelaunchAhead == {"launch", "think", "act", "rehearsed", "probe", "reclose"}

CountInv ==
  /\ round \in 0..MaxRounds
  /\ \E n \in Nat : /\ UsedUpTo(n) /\ n <= 2 * round
                    /\ pc \in RelaunchAhead => n <= 2 * round - 1

\* The coroutine has a browser where it works with one, and has none while it
\* launches one.
ControlInv ==
  /\ pc \in Awaits
  /\ cur \in Sessions \cup {None} /\ next \in Sessions \cup {None}
  /\ cur # None => process[cur] \in Lives \ Early
  /\ next # None => process[next] = "connecting"
  /\ next # None <=> pc \in Launching
  /\ pc \in Launching => cur = None
  /\ pc \in Working \cup Closing => cur # None
  /\ pc = "rehearsed" /\ boundary => cur # None
  /\ pc \in Closing => closed[cur]

\* As long as nobody aborts and no cleanup fails, what lives is the
\* coroutine's, and it gives a session up only when its teardown is over.
NothingOwed(s) == process[s] \notin {"up", "connecting"} /\ teardown[s] \in {"no", "done"}

Calm ==
  /\ \A s \in Sessions : process[s] # "orphan"
  /\ \A s \in Sessions : process[s] = "connecting" => s = next
  /\ \A s \in Sessions \ {cur, next} : NothingOwed(s)
  /\ \A s \in Sessions : process[s] = "up" => teardown[s] \in {"no", "client"}
  /\ profile = None \/ (profile = cur /\ teardown[cur] # "done")
  /\ cur # None => (process[cur] = "up" => profile = cur)
  /\ cur # None => (closed[cur] => pc \in Closing \cup {"over"})
  /\ pc \in Closing => began

Quiet == ~aborted /\ spilled = {}

BrowserInv == SessionInv /\ CountInv /\ ControlInv /\ (Quiet => Calm)

keyVars == <<aborted, process, closed, teardown, profile, spilled, cur, next, round, began>>

-----------------------------------------------------------------------------
(* The coroutine goes from one await to another.                           *)

LEMMA PcMoves ==
  ASSUME BrowserInv, UNCHANGED keyVars,
         pc' \in Awaits \ (Closing \cup Launching),
         pc \notin Launching, pc \in Closing \cup {"over"} => pc' = "over",
         pc' \in RelaunchAhead => pc \in RelaunchAhead,
         pc' \in Working => cur # None,
         pc' = "rehearsed" /\ boundary' => cur # None
  PROVE  BrowserInv'
  <1>1. SessionInv'
    BY DEF BrowserInv, SessionInv, keyVars
  <1>2. CountInv'
    BY DEF BrowserInv, CountInv, UsedUpTo, keyVars
  <1>3. ControlInv'
    BY DEF BrowserInv, ControlInv, keyVars
  <1>4. Quiet' => Calm'
    BY DEF BrowserInv, ControlInv, Calm, Quiet, NothingOwed, keyVars
  <1> QED
    BY <1>1, <1>2, <1>3, <1>4 DEF BrowserInv

LEMMA RunnerKeeps ==
  ASSUME BrowserInv, RunnerNext, UNCHANGED <<walkVars, workVars>>
  PROVE  BrowserInv'
  <1>1. UNCHANGED keyVars
    BY DEF RunnerNext, ModelFails, ModelFinishes, ModelMisspells, ReachBoundary, CallTool,
           ObserveCall, sessionVars, workVars, keyVars
  <1>2. pc \in {"think", "act"} /\ pc' \in {"think", "act", "rehearsed", "final"}
    BY DEF RunnerNext, ModelFails, ModelFinishes, ModelMisspells, ReachBoundary, CallTool,
           ObserveCall, Thinking, LoopGoesOn, LeaveLoop, ToolThrows, ToolReturns
  <1>3. cur # None
    BY <1>2 DEF BrowserInv, ControlInv, Working
  <1> QED
    BY <1>1, <1>2, <1>3, PcMoves DEF Awaits, Closing, Launching, Working, RelaunchAhead

LEMMA WalkKeeps ==
  ASSUME BrowserInv, WalkNext, UNCHANGED workVars
  PROVE  BrowserInv'
  <1>1. UNCHANGED keyVars
    BY DEF WalkNext, WalkThrows, EndOfCard, BeginStep, ObserveStep, walkFrame, workVars, keyVars
  <1>2. pc \in {"walk", "step"} /\ pc' \in {"walk", "step", "walked", "final"}
    BY DEF WalkNext, WalkThrows, EndOfCard, BeginStep, ObserveStep, LeaveWalk, StopWalk,
           StepReturns
  <1>3. cur # None
    BY <1>2 DEF BrowserInv, ControlInv, Working
  <1> QED
    BY <1>1, <1>2, <1>3, PcMoves DEF Awaits, Closing, Launching, Working, RelaunchAhead

-----------------------------------------------------------------------------
(* Closing.                                                                *)

\* The caller closes its browser and waits.
LEMMA CloseKeeps ==
  ASSUME BrowserInv, NEW then \in Closing, cur # None,
         pc \in Awaits \ (Closing \cup Launching \cup {"over"}),
         then = "reclose" => pc \in RelaunchAhead,
         RaiseClosed({cur} \ {t \in Sessions : closed[t]}),
         began' = ~closed[cur], pc' = then,
         UNCHANGED <<aborted, process, profile, spilled, cur, next, round>>
  PROVE  BrowserInv'
  <1>1. cur \in Sessions /\ next = None
    BY DEF BrowserInv, ControlInv
  <1>2. /\ closed' \in [Sessions -> BOOLEAN] /\ teardown' \in [Sessions -> Stages]
        /\ closed'[cur] = TRUE
        /\ \A s \in Sessions \ {cur} : closed'[s] = closed[s] /\ teardown'[s] = teardown[s]
        /\ IF closed[cur] THEN teardown'[cur] = teardown[cur] ELSE teardown'[cur] = "client"
    BY <1>1 DEF RaiseClosed, BrowserInv, SessionInv, Stages
  <1>3. SessionInv'
    BY <1>1, <1>2 DEF BrowserInv, SessionInv, ControlInv, Stages
  <1>4. CountInv'
    <2>1. pc' \in RelaunchAhead => pc \in RelaunchAhead
      BY DEF Closing, RelaunchAhead
    <2> QED
      BY <2>1 DEF BrowserInv, CountInv, UsedUpTo
  <1>5. ControlInv'
    BY <1>1, <1>2 DEF BrowserInv, ControlInv, Closing, Launching, Working, Awaits
  <1>6. ASSUME Quiet'
        PROVE  Calm'
    <2>1. Calm /\ ~closed[cur]
      BY <1>6, <1>1 DEF BrowserInv, Quiet, Calm
    <2>2. teardown'[cur] = "client" /\ began'
      BY <1>2, <2>1
    <2> QED
      BY <1>1, <1>2, <2>1, <2>2 DEF Calm, NothingOwed, Closing
  <1> QED
    BY <1>3, <1>4, <1>5, <1>6 DEF BrowserInv

\* A close that has returned leaves nothing behind.
LEMMA ClosedForGood ==
  ASSUME BrowserInv, pc \in Closing, CloseReturns(cur, began), Quiet
  PROVE  /\ Calm /\ cur \in Sessions /\ next = None /\ teardown[cur] = "done"
         /\ profile = None /\ NothingOwed(cur)
  <1>1. Calm /\ cur \in Sessions /\ next = None
    BY DEF BrowserInv, ControlInv, Quiet, Closing, Launching
  <1>2. teardown[cur] = "done"
    BY <1>1 DEF Calm, CloseReturns
  <1> QED
    BY <1>1, <1>2 DEF Calm, NothingOwed

LEMMA PreCloseReturnsKeeps ==
  ASSUME BrowserInv, PreCloseReturns
  PROVE  BrowserInv'
  <1>1. /\ pc = "preclose" /\ pc' = "dry" /\ cur' = None /\ CloseReturns(cur, began)
        /\ UNCHANGED <<aborted, process, closed, teardown, profile, spilled, next, round>>
    BY DEF PreCloseReturns, sessionVars
  <1>2. SessionInv' /\ CountInv'
    BY <1>1 DEF BrowserInv, SessionInv, CountInv, UsedUpTo, RelaunchAhead
  <1>3. ControlInv'
    BY <1>1 DEF BrowserInv, ControlInv, Closing, Launching, Working, Awaits
  <1>4. ASSUME Quiet'
        PROVE  Calm'
    <2>1. /\ Calm /\ cur \in Sessions /\ next = None /\ profile = None /\ NothingOwed(cur)
      BY <1>1, <1>4, ClosedForGood DEF Quiet, Closing
    <2> QED
      BY <1>1, <2>1 DEF Calm, NothingOwed, Closing
  <1> QED
    BY <1>2, <1>3, <1>4 DEF BrowserInv

-----------------------------------------------------------------------------
(* Launching.                                                              *)

LEMMA FreshIsNext ==
  ASSUME NEW n \in Nat, UsedUpTo(n), n < MaxSessions
  PROVE  Fresh = n + 1 /\ n + 1 \in Sessions
  <1> DEFINE P(s) == process[s] = "none" /\ \A t \in 1..s - 1 : process[t] # "none"
  <1>1. n + 1 \in Sessions
    BY DEF Sessions
  <1>2. P(n + 1)
    BY <1>1 DEF UsedUpTo, Sessions
  <1>3. \A s \in Sessions : P(s) => s = n + 1
    <2> SUFFICES ASSUME NEW s \in Sessions, P(s)
                 PROVE  s = n + 1
      OBVIOUS
    <2>1. s > n
      BY DEF UsedUpTo
    <2>2. ~(n + 1 \in 1..s - 1)
      BY <1>2
    <2> QED
      BY <2>1, <2>2 DEF Sessions
  <1>4. Fresh = CHOOSE s \in Sessions : P(s)
    BY DEF Fresh
  <1> HIDE DEF P
  <1>5. Fresh \in Sessions /\ P(Fresh)
    BY <1>1, <1>2, <1>4
  <1> QED
    BY <1>1, <1>3, <1>5

\* A session is launched by a coroutine that has none, and there is room.
LEMMA LaunchKeeps ==
  ASSUME SessionInv, NEW n \in Nat, UsedUpTo(n), n < MaxSessions,
         Quiet => Calm, NEW then \in Launching,
         round' \in 0..MaxRounds, n + 1 <= 2 * round',
         then = "launch" => n + 1 <= 2 * round' - 1,
         next = None, cur' = None, next' = Fresh, pc' = then,
         Quiet => profile = None /\ \A s \in Sessions : NothingOwed(s),
         process' = [process EXCEPT ![Fresh] = "connecting"],
         UNCHANGED <<aborted, closed, teardown, profile, spilled>>
  PROVE  BrowserInv'
  <1>1. Fresh = n + 1 /\ Fresh \in Sessions
    BY FreshIsNext
  <1>2. process[Fresh] = "none" /\ process'[Fresh] = "connecting"
    BY <1>1 DEF UsedUpTo, SessionInv, Sessions
  <1>3. SessionInv'
    BY <1>1, <1>2 DEF SessionInv, Lives, Early
  <1>4. CountInv'
    <2>1. PICK m \in Nat : m = n + 1
      OBVIOUS
    <2>2. UsedUpTo(m)'
      <3>1. \A s \in Sessions : process'[s] = "none" <=> (process[s] = "none" /\ s # n + 1)
        BY <1>1, <1>2 DEF SessionInv
      <3>2. \A s \in Sessions : s \in Nat
        BY DEF Sessions
      <3> QED
        BY <2>1, <3>1, <3>2 DEF UsedUpTo
    <2>3. m <= 2 * round' /\ (pc' \in RelaunchAhead => m <= 2 * round' - 1)
      <3>1. pc' \in RelaunchAhead => then = "launch"
        BY DEF Launching, RelaunchAhead
      <3> QED
        BY <2>1, <3>1
    <2> QED
      BY <2>2, <2>3 DEF CountInv
  <1>5. ControlInv'
    BY <1>1, <1>2 DEF ControlInv, Launching, Closing, Working, Awaits
  <1>6. ASSUME Quiet'
        PROVE  Calm'
    <2>1. Calm /\ profile = None /\ \A s \in Sessions : NothingOwed(s)
      BY <1>6 DEF Quiet
    <2>2. \A s \in Sessions \ {Fresh} : process'[s] = process[s]
      BY DEF SessionInv
    <2> QED
      BY <1>1, <1>2, <2>1, <2>2 DEF Calm, NothingOwed, Launching, Closing
  <1> QED
    BY <1>3, <1>4, <1>5, <1>6 DEF BrowserInv

LEMMA RehearseKeeps ==
  ASSUME BrowserInv, Rehearse
  PROVE  BrowserInv'
  <1>1. /\ pc = "dry" /\ cur = None /\ round < MaxRounds /\ round' = round + 1
        /\ UNCHANGED <<cur, began>>
    BY DEF Rehearse
  <1>2. PICK n \in Nat : UsedUpTo(n) /\ n <= 2 * round
    BY DEF BrowserInv, CountInv
  <1>3. n < MaxSessions /\ round' \in 0..MaxRounds /\ n + 1 <= 2 * round' - 1
    BY <1>1, <1>2 DEF BrowserInv, CountInv
  <1>4. next = None
    BY <1>1 DEF BrowserInv, ControlInv, Launching
  <1>5. Quiet => profile = None /\ \A s \in Sessions : NothingOwed(s)
    BY <1>1, <1>4 DEF BrowserInv, Calm
  <1>6. CASE LaunchFrom("dry_run", TRUE, "launch")
    <2>1. /\ process' = [process EXCEPT ![Fresh] = "connecting"]
          /\ UNCHANGED <<aborted, closed, teardown, profile, spilled>>
          /\ next' = Fresh /\ pc' = "launch"
      BY <1>6 DEF LaunchFrom, StartLaunch
    <2> QED
      BY <1>1, <1>2, <1>3, <1>4, <1>5, <2>1, LaunchKeeps DEF BrowserInv, Launching
  <1>7. CASE pc' = "final" /\ UNCHANGED <<sessionVars, next>>
    <2>1. SessionInv'
      BY <1>7 DEF BrowserInv, SessionInv, sessionVars
    <2>2. CountInv'
      <3>1. UsedUpTo(n)' /\ n <= 2 * round'
        BY <1>1, <1>2, <1>3, <1>7 DEF UsedUpTo, sessionVars
      <3> QED
        BY <1>3, <1>7, <3>1 DEF CountInv, RelaunchAhead
    <2>3. ControlInv'
      BY <1>1, <1>7 DEF BrowserInv, ControlInv, sessionVars, Launching, Closing, Working, Awaits
    <2>4. Quiet' => Calm'
      BY <1>1, <1>7 DEF BrowserInv, Quiet, Calm, NothingOwed, sessionVars, Closing
    <2> QED
      BY <2>1, <2>2, <2>3, <2>4 DEF BrowserInv
  <1> QED
    BY <1>6, <1>7 DEF Rehearse

LEMMA NoScaffoldKeeps ==
  ASSUME BrowserInv, NoScaffold
  PROVE  BrowserInv'
  <1>1. /\ pc = "dry" /\ cur = None /\ round < MaxRounds /\ round' = round + 1
        /\ pc' = "rehearsed" /\ boundary' = FALSE
        /\ UNCHANGED <<aborted, process, closed, teardown, profile, spilled, cur, next, began>>
    BY DEF NoScaffold, sessionVars
  <1>2. SessionInv'
    BY <1>1 DEF BrowserInv, SessionInv
  <1>3. CountInv'
    <2>1. PICK n \in Nat : UsedUpTo(n) /\ n <= 2 * round
      BY DEF BrowserInv, CountInv
    <2>2. UsedUpTo(n)' /\ n <= 2 * round' - 1 /\ n <= 2 * round' /\ round' \in 0..MaxRounds
      BY <1>1, <2>1 DEF UsedUpTo, BrowserInv, CountInv
    <2> QED
      BY <2>2 DEF CountInv
  <1>4. ControlInv'
    BY <1>1 DEF BrowserInv, ControlInv, Launching, Closing, Working, Awaits
  <1>5. Quiet' => Calm'
    BY <1>1 DEF BrowserInv, Quiet, Calm, NothingOwed, Closing
  <1> QED
    BY <1>2, <1>3, <1>4, <1>5 DEF BrowserInv

LEMMA RelaunchKeeps ==
  ASSUME BrowserInv, Relaunch
  PROVE  BrowserInv'
  <1>1. /\ pc = "reclose" /\ CloseReturns(cur, began) /\ cur' = None /\ round' = round
        /\ process' = [process EXCEPT ![Fresh] = "connecting"]
        /\ UNCHANGED <<aborted, closed, teardown, profile, spilled>>
        /\ next' = Fresh /\ pc' = "relaunch"
    BY DEF Relaunch, LaunchFrom, StartLaunch
  <1>2. PICK n \in Nat : UsedUpTo(n) /\ n <= 2 * round - 1
    BY <1>1 DEF BrowserInv, CountInv, RelaunchAhead
  <1>3. n < MaxSessions /\ round' \in 0..MaxRounds /\ n + 1 <= 2 * round'
    BY <1>1, <1>2 DEF BrowserInv, CountInv
  <1>4. next = None
    BY <1>1 DEF BrowserInv, ControlInv, Launching
  <1>5. Quiet => profile = None /\ \A s \in Sessions : NothingOwed(s)
    BY <1>1, <1>4, ClosedForGood DEF Calm, Closing
  <1> QED
    BY <1>1, <1>2, <1>3, <1>4, <1>5, LaunchKeeps DEF BrowserInv, Launching

\* The browser is up, and the profile directory is the one it makes.
LEMMA ConnectKeeps ==
  ASSUME BrowserInv, pc \in Launching, NEW then \in {"think", "walk"},
         then = "think" => pc = "launch",
         Connect(next), cur' = next, next' = None, pc' = then, UNCHANGED <<round, began>>
  PROVE  BrowserInv'
  <1>1. /\ next \in Sessions /\ cur = None /\ process[next] = "connecting"
        /\ ~closed[next] /\ teardown[next] = "no" /\ next # None
    BY DEF BrowserInv, ControlInv, SessionInv, Early
  <1>2. /\ process' = [process EXCEPT ![next] = "up"]
        /\ profile' = IF profile = None THEN next ELSE profile
        /\ UNCHANGED <<aborted, closed, teardown, spilled>>
    BY DEF Connect
  <1>3. /\ process'[next] = "up"
        /\ \A s \in Sessions \ {next} : process'[s] = process[s]
        /\ process' \in [Sessions -> Lives]
    BY <1>1, <1>2 DEF BrowserInv, SessionInv, Lives
  <1>4. SessionInv'
    BY <1>1, <1>2, <1>3 DEF BrowserInv, SessionInv
  <1>5. CountInv'
    <2>1. PICK n \in Nat : /\ UsedUpTo(n) /\ n <= 2 * round
                           /\ pc \in RelaunchAhead => n <= 2 * round - 1
      BY DEF BrowserInv, CountInv
    <2>2. UsedUpTo(n)'
      BY <1>1, <1>3, <2>1 DEF UsedUpTo
    <2>3. pc' \in RelaunchAhead => pc \in RelaunchAhead
      BY DEF RelaunchAhead
    <2> QED
      BY <2>1, <2>2, <2>3 DEF BrowserInv, CountInv
  <1>6. ControlInv'
    BY <1>1, <1>3 DEF BrowserInv, ControlInv, Launching, Closing, Working, Awaits, Lives, Early
  <1>7. ASSUME Quiet'
        PROVE  Calm'
    <2>1. Calm
      BY <1>2, <1>7 DEF BrowserInv, Quiet
    <2>2. profile' = next
      BY <1>1, <1>2, <2>1 DEF Calm
    <2> QED
      BY <1>1, <1>2, <1>3, <2>1, <2>2 DEF Calm, NothingOwed, Closing
  <1> QED
    BY <1>4, <1>5, <1>6, <1>7 DEF BrowserInv

LEMMA LaunchFailsKeeps ==
  ASSUME BrowserInv, NEW at_ \in Launching, LaunchFails(at_)
  PROVE  BrowserInv'
  <1>1. /\ next \in Sessions /\ cur = None /\ process[next] = "connecting" /\ ~closed[next]
    BY DEF LaunchFails, BrowserInv, ControlInv, SessionInv, Early
  <1>2. /\ process' = [process EXCEPT ![next] = "failed"] /\ next' = None /\ pc' = "final"
        /\ UNCHANGED <<aborted, closed, teardown, profile, spilled, cur, round, began>>
    BY DEF LaunchFails, ConnectFails
  <1>3. /\ process'[next] = "failed"
        /\ \A s \in Sessions \ {next} : process'[s] = process[s]
        /\ process' \in [Sessions -> Lives]
    BY <1>1, <1>2 DEF BrowserInv, SessionInv, Lives
  <1>4. SessionInv'
    BY <1>1, <1>2, <1>3 DEF BrowserInv, SessionInv
  <1>5. CountInv'
    <2>1. PICK n \in Nat : UsedUpTo(n) /\ n <= 2 * round
      BY DEF BrowserInv, CountInv
    <2>2. UsedUpTo(n)'
      BY <1>1, <1>3, <2>1 DEF UsedUpTo
    <2> QED
      BY <1>2, <2>1, <2>2 DEF BrowserInv, CountInv, RelaunchAhead
  <1>6. ControlInv'
    BY <1>1, <1>2 DEF BrowserInv, ControlInv, Launching, Closing, Working, Awaits
  <1>7. ASSUME Quiet'
        PROVE  Calm'
    <2>1. Calm
      BY <1>2, <1>7 DEF BrowserInv, Quiet
    <2>2. teardown[next] = "no"
      BY <1>1 DEF BrowserInv, SessionInv
    <2> QED
      BY <1>1, <1>2, <1>3, <2>1, <2>2 DEF Calm, NothingOwed, Closing
  <1> QED
    BY <1>4, <1>5, <1>6, <1>7 DEF BrowserInv

-----------------------------------------------------------------------------
(* What happens by itself.                                                 *)

\* A kill, a crash: a session that was up goes.
LEMMA ProcessEnds ==
  ASSUME BrowserInv, NEW s \in Sessions, process[s] \in Lives \ Early,
         NEW left \in {"gone", "orphan"}, process' = [process EXCEPT ![s] = left],
         closed' = closed, teardown' \in [Sessions -> Stages],
         \A t \in Sessions : teardown'[t] = "no" <=> teardown[t] = "no",
         UNCHANGED <<aborted, pc, cur, next, round, boundary>>
  PROVE  SessionInv' /\ CountInv' /\ ControlInv'
  <1>1. /\ process'[s] = left /\ \A t \in Sessions \ {s} : process'[t] = process[t]
        /\ process' \in [Sessions -> Lives]
    BY DEF BrowserInv, SessionInv, Lives
  <1>2. left \in Lives \ Early
    BY DEF Lives, Early
  <1>3. SessionInv'
    BY <1>1, <1>2 DEF BrowserInv, SessionInv
  <1>4. CountInv'
    <2>1. \A t \in Sessions : process'[t] = "none" <=> process[t] = "none"
      BY <1>1, <1>2 DEF Early
    <2>2. \A n \in Nat : UsedUpTo(n)' <=> UsedUpTo(n)
      BY <2>1 DEF UsedUpTo
    <2> QED
      BY <2>2 DEF BrowserInv, CountInv
  <1>5. ControlInv'
    <2>1. next # None => next # s
      BY DEF BrowserInv, ControlInv, Early
    <2> QED
      BY <1>1, <1>2, <2>1 DEF BrowserInv, ControlInv
  <1> QED
    BY <1>3, <1>4, <1>5

LEMMA AbortKeeps ==
  ASSUME BrowserInv, Abort, UNCHANGED <<pc, cur, next, round, boundary>>
  PROVE  BrowserInv'
  <1> DEFINE S == {s \in Sessions : process[s] \in Opened /\ signal[s] /\ ~closed[s]}
  <1>1. /\ aborted' = TRUE /\ process' = process
        /\ closed' = [s \in Sessions |-> closed[s] \/ s \in S]
        /\ teardown' = [s \in Sessions |-> IF s \in S THEN "client" ELSE teardown[s]]
    BY DEF Abort, RaiseClosed
  <1>2. \A s \in S : process[s] \notin Early
    BY DEF Opened, Early
  <1> HIDE DEF S
  <1>3. SessionInv'
    <2>1. closed' \in [Sessions -> BOOLEAN] /\ teardown' \in [Sessions -> Stages]
      BY <1>1 DEF BrowserInv, SessionInv, Stages
    <2>2. \A s \in Sessions : teardown'[s] = "no" <=> ~closed'[s]
      BY <1>1 DEF BrowserInv, SessionInv
    <2>3. \A s \in Sessions : process'[s] \in Early => ~closed'[s]
      BY <1>1, <1>2 DEF BrowserInv, SessionInv
    <2> QED
      BY <1>1, <2>1, <2>2, <2>3 DEF BrowserInv, SessionInv
  <1>4. CountInv'
    BY <1>1 DEF BrowserInv, CountInv, UsedUpTo
  <1>5. ControlInv'
    BY <1>1 DEF BrowserInv, ControlInv
  <1>6. ~Quiet'
    BY <1>1 DEF Quiet
  <1> QED
    BY <1>3, <1>4, <1>5, <1>6 DEF BrowserInv

LEMMA KillKeeps ==
  ASSUME BrowserInv, NEW s \in Sessions, KillTree(s),
         UNCHANGED <<pc, cur, next, round, began, boundary>>
  PROVE  BrowserInv'
  <1>3. process[s] \in Lives \ Early
    BY DEF KillTree, BrowserInv, SessionInv
  <1>1. PICK left \in {"gone", "orphan"} :
          /\ process' = [process EXCEPT ![s] = left]
          /\ spilled' = IF left = "orphan" THEN spilled \cup {"chromium"} ELSE spilled
    BY <1>3 DEF KillTree, AfterKill, Lives, Early
  <1>2. /\ teardown[s] = "client" /\ teardown' = [teardown EXCEPT ![s] = "rm"]
        /\ UNCHANGED <<aborted, closed, profile>>
    BY DEF KillTree
  <1>4. /\ teardown' \in [Sessions -> Stages] /\ teardown'[s] = "rm"
        /\ \A t \in Sessions \ {s} : teardown'[t] = teardown[t]
    BY <1>2 DEF BrowserInv, SessionInv, Stages
  <1>5. SessionInv' /\ CountInv' /\ ControlInv'
    BY <1>1, <1>2, <1>3, <1>4, ProcessEnds
  <1>6. ASSUME Quiet'
        PROVE  Calm'
    <2>1. Quiet /\ Calm /\ left = "gone"
      BY <1>1, <1>2, <1>6 DEF BrowserInv, Quiet
    <2>2. process'[s] = "gone" /\ \A t \in Sessions \ {s} : process'[t] = process[t]
      BY <1>1, <2>1 DEF BrowserInv, SessionInv
    <2>3. s = cur
      BY <1>2, <2>1, <1>3 DEF Calm, NothingOwed, BrowserInv, ControlInv, Early
    <2> QED
      BY <1>2, <1>4, <2>1, <2>2, <2>3 DEF Calm, NothingOwed
  <1> QED
    BY <1>5, <1>6 DEF BrowserInv

LEMMA RemoveKeeps ==
  ASSUME BrowserInv, NEW s \in Sessions, RemoveProfile(s),
         UNCHANGED <<pc, cur, next, round, began, boundary>>
  PROVE  BrowserInv'
  <1>1. /\ teardown[s] = "rm" /\ teardown' = [teardown EXCEPT ![s] = "done"]
        /\ UNCHANGED <<aborted, process, closed>>
        /\ (profile' = None /\ spilled' = spilled) \/ spilled' = spilled \cup {"profile"}
    BY DEF RemoveProfile
  <1>2. /\ teardown' \in [Sessions -> Stages] /\ teardown'[s] = "done"
        /\ \A t \in Sessions \ {s} : teardown'[t] = teardown[t]
    BY <1>1 DEF BrowserInv, SessionInv, Stages
  <1>3. SessionInv' /\ CountInv' /\ ControlInv'
    BY <1>1, <1>2 DEF BrowserInv, SessionInv, CountInv, UsedUpTo, ControlInv
  <1>4. ASSUME Quiet'
        PROVE  Calm'
    <2>1. Calm /\ profile' = None
      BY <1>1, <1>4 DEF BrowserInv, Quiet
    <2>2. process[s] # "up"
      BY <1>1, <2>1 DEF Calm
    <2>3. s # next
      BY <1>1 DEF BrowserInv, SessionInv, ControlInv, Early
    <2>4. s = cur
      BY <1>1, <2>1, <2>3 DEF Calm, NothingOwed
    <2> QED
      BY <1>1, <1>2, <2>1, <2>2, <2>4 DEF Calm, NothingOwed
  <1> QED
    BY <1>3, <1>4 DEF BrowserInv

LEMMA CrashKeeps ==
  ASSUME BrowserInv, NEW s \in Sessions, Crash(s),
         UNCHANGED <<pc, cur, next, round, began, boundary>>
  PROVE  BrowserInv'
  <1>1. PICK left \in {"gone", "orphan"} :
          /\ process' = [process EXCEPT ![s] = left]
          /\ spilled' = IF left = "orphan" THEN spilled \cup {"chromium"} ELSE spilled
    BY DEF Crash
  <1>2. /\ process[s] = "up"
        /\ UNCHANGED <<aborted, closed, teardown, profile>>
    BY DEF Crash
  <1>3. SessionInv' /\ CountInv' /\ ControlInv'
    <2>1. process[s] \in Lives \ Early /\ teardown' \in [Sessions -> Stages]
      BY <1>2 DEF BrowserInv, SessionInv, Lives, Early
    <2> QED
      BY <1>1, <1>2, <2>1, ProcessEnds
  <1>4. ASSUME Quiet'
        PROVE  Calm'
    <2>1. Quiet /\ Calm /\ left = "gone"
      BY <1>1, <1>2, <1>4 DEF BrowserInv, Quiet
    <2>2. process'[s] = "gone" /\ \A t \in Sessions \ {s} : process'[t] = process[t]
      BY <1>1, <2>1 DEF BrowserInv, SessionInv
    <2> QED
      BY <1>2, <2>1, <2>2 DEF BrowserInv, ControlInv, Calm, NothingOwed
  <1> QED
    BY <1>3, <1>4 DEF BrowserInv

-----------------------------------------------------------------------------
LEMMA BrowserInitially == Init => BrowserInv
  <1> SUFFICES ASSUME Init
               PROVE  BrowserInv
    OBVIOUS
  <1>1. /\ aborted = FALSE /\ spilled = {} /\ profile = None
        /\ process = [s \in Sessions |-> "none"]
        /\ closed = [s \in Sessions |-> FALSE]
        /\ teardown = [s \in Sessions |-> "no"]
        /\ pc = "dry" /\ round = 0 /\ next = None /\ cur = None /\ began = FALSE
    BY DEF Init, SessionInit, RunnerInit
  <1>2. SessionInv
    BY <1>1 DEF SessionInv, Lives, Stages
  <1>3. CountInv
    <2>1. UsedUpTo(0)
      BY <1>1 DEF UsedUpTo, Sessions
    <2> QED
      BY <1>1, <2>1 DEF CountInv, RelaunchAhead
  <1>4. ControlInv
    BY <1>1 DEF ControlInv, Awaits, Launching, Working, Closing
  <1>5. Calm
    BY <1>1 DEF Calm, NothingOwed, Closing
  <1> QED
    BY <1>2, <1>3, <1>4, <1>5 DEF BrowserInv

LEMMA ExecuteKeeps ==
  ASSUME BrowserInv, Execute
  PROVE  BrowserInv'
  <1>1. /\ pc = "rehearsed" /\ boundary /\ cur # None /\ cur \in Sessions
        /\ UNCHANGED <<aborted, process, closed, teardown, profile, spilled, cur, next, round,
                       boundary>>
    BY DEF Execute, BrowserInv, ControlInv
  <1>2. CASE closed[cur] /\ pc' = "reclose"
    <2>1. SessionInv' /\ CountInv'
      BY <1>1, <1>2 DEF BrowserInv, SessionInv, CountInv, UsedUpTo, RelaunchAhead
    <2>2. ControlInv'
      BY <1>1, <1>2 DEF BrowserInv, ControlInv, Closing, Launching, Working, Awaits
    <2>3. ~Quiet
      BY <1>1, <1>2 DEF BrowserInv, Calm, Closing
    <2> QED
      BY <1>1, <2>1, <2>2, <2>3 DEF BrowserInv, Quiet
  <1>3. CASE ~closed[cur] /\ pc' = "probe"
    <2>1. SessionInv' /\ CountInv'
      BY <1>1, <1>3 DEF BrowserInv, SessionInv, CountInv, UsedUpTo, RelaunchAhead
    <2>2. ControlInv'
      BY <1>1, <1>3 DEF BrowserInv, ControlInv, Closing, Launching, Working, Awaits
    <2>3. Quiet' => Calm'
      BY <1>1, <1>3 DEF BrowserInv, Quiet, Calm, NothingOwed, Closing
    <2> QED
      BY <2>1, <2>2, <2>3 DEF BrowserInv
  <1> QED
    BY <1>2, <1>3 DEF Execute

LEMMA CoroutineKeeps ==
  ASSUME BrowserInv, Coroutine
  PROVE  BrowserInv'
  <1>1. CASE PreClose
    <2>1. /\ pc = "dry" /\ cur # None /\ pc' = "preclose" /\ began' = ~closed[cur]
          /\ RaiseClosed({cur} \ {t \in Sessions : closed[t]})
          /\ UNCHANGED <<aborted, process, profile, spilled, cur, next, round>>
      BY <1>1 DEF PreClose, CloseCur, Close
    <2> QED
      BY <2>1, CloseKeeps DEF Closing, Launching, Awaits
  <1>2. CASE ProbeFails
    <2>1. /\ pc = "probe" /\ pc' = "reclose" /\ began' = ~closed[cur]
          /\ RaiseClosed({cur} \ {t \in Sessions : closed[t]})
          /\ UNCHANGED <<aborted, process, profile, spilled, cur, next, round>>
      BY <1>2 DEF ProbeFails
    <2>2. cur # None
      BY <2>1 DEF BrowserInv, ControlInv, Working
    <2> QED
      BY <2>1, <2>2, CloseKeeps DEF Closing, Launching, Awaits, RelaunchAhead
  <1>3. CASE Finally
    <2>1. CASE cur # None /\ CloseCur("closing") /\ UNCHANGED <<cur, next, round>>
      <3>1. /\ pc = "final" /\ pc' = "closing" /\ began' = ~closed[cur]
            /\ RaiseClosed({cur} \ {t \in Sessions : closed[t]})
            /\ UNCHANGED <<aborted, process, profile, spilled, cur, next, round>>
        BY <1>3, <2>1 DEF Finally, CloseCur, Close
      <3> QED
        BY <2>1, <3>1, CloseKeeps DEF Closing, Launching, Awaits
    <2>2. CASE pc = "final" /\ pc' = "over" /\ UNCHANGED keyVars
      BY <2>2, PcMoves DEF Closing, Launching, Awaits, RelaunchAhead, Working
    <2> QED
      BY <1>3, <2>1, <2>2 DEF Finally, sessionVars, keyVars
  <1>4. CASE FinalCloseReturns
    <2>1. pc = "closing" /\ pc' = "over" /\ UNCHANGED keyVars
      BY <1>4 DEF FinalCloseReturns, sessionVars, workVars, keyVars
    <2> QED
      BY <2>1, PcMoves DEF Closing, Launching, Awaits, RelaunchAhead, Working
  <1>5. CASE Again
    <2>1. pc \in {"rehearsed", "walked"} /\ pc' \in {"dry", "final"} /\ UNCHANGED keyVars
      BY <1>5 DEF Again, sessionVars, workVars, keyVars
    <2> QED
      BY <2>1, PcMoves DEF Closing, Launching, Awaits, RelaunchAhead, Working
  <1>6. CASE ProbeSucceeds
    <2>1. pc = "probe" /\ pc' = "walk" /\ UNCHANGED keyVars
      BY <1>6 DEF ProbeSucceeds, BeginWalk, workVars, keyVars
    <2>2. cur # None
      BY <2>1 DEF BrowserInv, ControlInv, Working
    <2> QED
      BY <2>1, <2>2, PcMoves DEF Closing, Launching, Awaits, RelaunchAhead, Working
  <1>7. CASE Launched
    BY <1>7, ConnectKeeps DEF Launched, Launching
  <1>8. CASE Relaunched
    <2>1. /\ pc = "relaunch" /\ pc' = "walk" /\ Connect(next) /\ cur' = next /\ next' = None
          /\ UNCHANGED <<round, began>>
      BY <1>8 DEF Relaunched, BeginWalk
    <2> QED
      BY <2>1, ConnectKeeps DEF Launching
  <1>9. CASE LaunchFails("launch") \/ LaunchFails("relaunch")
    BY <1>9, LaunchFailsKeeps DEF Launching
  <1> QED
    BY <1>1, <1>2, <1>3, <1>4, <1>5, <1>6, <1>7, <1>8, <1>9, PreCloseReturnsKeeps,
       NoScaffoldKeeps, RehearseKeeps, RunnerKeeps, ExecuteKeeps, RelaunchKeeps, WalkKeeps
       DEF Coroutine

LEMMA BrowserInductive == BrowserInv /\ [Next]_vars => BrowserInv'
  <1> SUFFICES ASSUME BrowserInv, [Next]_vars
               PROVE  BrowserInv'
    OBVIOUS
  <1>1. CASE ByItself
    <2>1. UNCHANGED <<pc, cur, next, round, began, boundary>>
      BY <1>1 DEF ByItself, runnerVars, workVars
    <2> QED
      BY <1>1, <2>1, AbortKeeps, KillKeeps, RemoveKeeps, CrashKeeps DEF ByItself, SessionNext
  <1>2. CASE Coroutine
    BY <1>2, CoroutineKeeps
  <1>3. CASE UNCHANGED vars
    <2>1. UNCHANGED <<pc, boundary>> /\ UNCHANGED keyVars
      BY <1>3 DEF vars, sessionVars, runnerVars, workVars, keyVars
    <2> QED
      BY <2>1 DEF keyVars, BrowserInv, SessionInv, CountInv, UsedUpTo, ControlInv, Calm, Quiet,
                  NothingOwed
  <1> QED
    BY <1>1, <1>2, <1>3 DEF Next, Done

\* However rehearsals, executions and relaunches follow each other, a session
\* works alone and in a profile directory it made itself, unless the signal has
\* fired or a cleanup has failed.
THEOREM SessionsAreAlone == Spec => []ProfileIsOwn
  <1>1. BrowserInv => ProfileIsOwn
    BY DEF BrowserInv, ControlInv, Quiet, Calm, NothingOwed, ProfileIsOwn, Alive
  <1> QED
    BY <1>1, BrowserInitially, BrowserInductive, PTL DEF Spec

-----------------------------------------------------------------------------
(* The snapshot a walk keeps.                                              *)

\* Between two steps a kept snapshot shows all changes. Within a step that
\* needs elements, the call that uses them comes right after they were found.
KeptIsCurrent == lastSnap \in {None, Changes}

StepInv ==
  /\ span.op = todo[1]
  /\ ~NeedsRefs(Step.tool) => todo = <<Step.tool>> /\ KeptIsCurrent
  /\ NeedsRefs(Step.tool) =>
       \/ todo = <<"snapshot", Step.tool, "after">>
       \/ todo = <<Step.tool, "after">> /\ refsFrom = Changes
       \/ todo = <<"after">>

WalkInv ==
  /\ pc = "walk" => KeptIsCurrent
  /\ pc = "step" => StepInv

LEMMA OneBeforeTwo ==
  ASSUME NEW S, NEW a \in S, NEW b \in S, NEW c \in S
  PROVE  <<a>> \o <<b, c>> = <<a, b, c>>
  <1> DEFINE s == <<a>> \o <<b, c>>
             t == <<a, b, c>>
  <1>1. /\ s \in Seq(S) /\ t \in Seq(S) /\ Len(s) = 3 /\ Len(t) = 3
    OBVIOUS
  <1>2. s[1] = t[1] /\ s[2] = t[2] /\ s[3] = t[3]
    OBVIOUS
  <1> HIDE DEF s, t
  <1>3. \A i \in 1..Len(s) : s[i] = t[i]
    BY <1>1, <1>2
  <1>4. s = t
    BY <1>1, <1>3, SeqEqual
  <1> QED
    BY <1>4 DEF s, t

LEMMA BeginStepKeeps ==
  ASSUME WalkInv, BeginStep
  PROVE  WalkInv'
  <1>1. /\ pc = "walk" /\ KeptIsCurrent
        /\ UNCHANGED <<card, effects, cur>>
    BY DEF WalkInv, BeginStep, walkFrame
  <1>2. CASE pc' = "walked"
    BY <1>2 DEF WalkInv
  <1>3. CASE /\ OpenSpan(cur, StepCalls[1]) /\ todo' = StepCalls /\ pc' = "step"
             /\ refsFrom' = IF NeedsRefs(Step.tool) THEN lastSnap ELSE refsFrom
             /\ UNCHANGED <<at, lastSnap>>
    <2>1. span'.op = todo'[1]
      BY <1>3 DEF OpenSpan
    <2>2. UNCHANGED <<Step, Changes>>
      BY <1>1, <1>3 DEF Step, Changes
    <2>3. CASE ~NeedsRefs(Step.tool)
      <3>1. StepCalls = <<Step.tool>>
        BY <2>3 DEF StepCalls, MethodCalls, NeedsRefs
      <3> QED
        BY <1>1, <1>3, <2>1, <2>2, <2>3, <3>1 DEF WalkInv, StepInv, KeptIsCurrent, NeedsRefs
    <2>4. CASE NeedsRefs(Step.tool) /\ lastSnap = None
      <3>1. StepCalls = <<"snapshot", Step.tool, "after">>
        <4>1. MethodCalls(Step.tool) = <<Step.tool, "after">>
          BY <2>4 DEF MethodCalls, NeedsRefs
        <4>2. StepCalls = <<"snapshot">> \o <<Step.tool, "after">>
          BY <2>4, <4>1 DEF StepCalls
        <4>3. Step.tool \in {Step.tool, "snapshot", "after"}
          OBVIOUS
        <4> QED
          BY <4>2, <4>3, OneBeforeTwo
      <3>2. todo' = <<"snapshot", Step'.tool, "after">> /\ NeedsRefs(Step.tool)'
        BY <1>3, <2>2, <2>4, <3>1 DEF NeedsRefs
      <3>3. StepInv'
        BY <2>1, <3>2 DEF StepInv
      <3> QED
        BY <1>3, <3>3 DEF WalkInv
    <2>5. CASE NeedsRefs(Step.tool) /\ lastSnap # None
      <3>1. StepCalls = <<Step.tool, "after">>
        BY <2>5 DEF StepCalls, MethodCalls, NeedsRefs
      <3> QED
        BY <1>1, <1>3, <2>1, <2>2, <2>5, <3>1 DEF WalkInv, StepInv, KeptIsCurrent, NeedsRefs
    <2> QED
      BY <2>3, <2>4, <2>5
  <1> QED
    BY <1>2, <1>3 DEF BeginStep, StopWalk, LeaveWalk

\* Only a step that changes the page moves the count of changes, and it drops
\* the snapshot.
LEMMA ObserveStepKeeps ==
  ASSUME WalkInv, NEW ok \in BOOLEAN, ObserveStep(ok)
  PROVE  WalkInv'
  <1>1. pc = "step" /\ StepInv /\ UNCHANGED <<card, cur>>
    BY DEF WalkInv, ObserveStep, walkFrame
  <1>2. todo[1] \notin Changing => UNCHANGED Changes
    BY <1>1 DEF ObserveStep, Lands, Changes
  <1>3. CASE pc' = "walked"
    BY <1>3 DEF WalkInv
  <1>4. CASE Len(todo) = 1 /\ StepReturns
    <2>1. pc' = "walk" /\ lastSnap' = SnapAfter
      BY <1>4 DEF StepReturns
    <2>2. CASE Step.tool \in Changing
      BY <2>1, <2>2 DEF SnapAfter, Changing, WalkInv, KeptIsCurrent
    <2>3. CASE Step.tool \notin Changing
      <3>1. todo = <<Step.tool>> /\ KeptIsCurrent
        BY <1>1, <2>3 DEF StepInv, NeedsRefs, Changing
      <3>2. UNCHANGED Changes
        BY <1>2, <2>3, <3>1
      <3> QED
        BY <2>1, <2>3, <3>1, <3>2 DEF SnapAfter, WalkInv, KeptIsCurrent
    <2> QED
      BY <2>2, <2>3
  <1>5. CASE /\ Len(todo) > 1
             /\ OpenSpan(cur, todo[2]) /\ todo' = Tail(todo) /\ UNCHANGED <<pc, at>>
             /\ refsFrom' = IF todo[1] = "snapshot" THEN Changes ELSE refsFrom
    <2>1. span'.op = todo[2] /\ UNCHANGED Step /\ pc' = "step"
      BY <1>1, <1>5 DEF OpenSpan, Step
    <2>2. NeedsRefs(Step.tool)
      BY <1>1, <1>5 DEF StepInv
    <2>3. CASE todo = <<"snapshot", Step.tool, "after">>
      <3>1. todo' = <<Step.tool, "after">> /\ span'.op = todo'[1]
        BY <1>5, <2>1, <2>3
      <3>2. UNCHANGED Changes /\ refsFrom' = Changes
        BY <1>2, <1>5, <2>3 DEF Changing
      <3> QED
        BY <2>1, <2>2, <3>1, <3>2 DEF WalkInv, StepInv, NeedsRefs
    <2>4. CASE todo = <<Step.tool, "after">>
      <3>1. todo' = <<"after">> /\ span'.op = todo'[1]
        BY <1>5, <2>1, <2>4
      <3> QED
        BY <2>1, <2>2, <3>1 DEF WalkInv, StepInv, NeedsRefs
    <2>5. todo # <<"after">>
      BY <1>5
    <2> QED
      BY <1>1, <2>2, <2>3, <2>4, <2>5 DEF StepInv
  <1> QED
    BY <1>3, <1>4, <1>5 DEF ObserveStep, StopWalk, LeaveWalk

LEMMA WalkInductive == WalkInv /\ [Next]_vars => WalkInv'
  <1> SUFFICES ASSUME WalkInv, [Next]_vars
               PROVE  WalkInv'
    OBVIOUS
  <1>1. ASSUME UNCHANGED <<pc, cur, effects, card, at, lastSnap, refsFrom, span, todo>>
        PROVE  WalkInv'
    BY <1>1 DEF WalkInv, StepInv, KeptIsCurrent, Step, Changes, NeedsRefs
  <1>2. CASE ByItself
    BY <1>1, <1>2 DEF ByItself, SessionNext, Abort, KillTree, RemoveProfile, Crash,
                      runnerVars, walkVars
  <1>3. ASSUME pc' \notin {"walk", "step"}
        PROVE  WalkInv'
    BY <1>3 DEF WalkInv
  <1>4. ASSUME pc' = "walk", lastSnap' = None
        PROVE  WalkInv'
    BY <1>4 DEF WalkInv, KeptIsCurrent
  <1>5. CASE RunnerNext /\ UNCHANGED <<walkVars, workVars>>
    <2>1. pc' \in {"think", "act", "rehearsed", "final"}
      BY <1>5 DEF RunnerNext, ModelFails, ModelFinishes, ModelMisspells, ReachBoundary, CallTool,
           ObserveCall, Thinking, LoopGoesOn, LeaveLoop, ToolThrows, ToolReturns
    <2> QED
      BY <1>3, <2>1
  <1>6. CASE WalkNext /\ UNCHANGED workVars
    BY <1>3, <1>6, BeginStepKeeps, ObserveStepKeeps
       DEF WalkNext, WalkThrows, EndOfCard, LeaveWalk
  <1>7. CASE ProbeSucceeds \/ Relaunched
    BY <1>4, <1>7 DEF ProbeSucceeds, Relaunched, BeginWalk
  <1>8. CASE \/ PreClose \/ PreCloseReturns \/ NoScaffold \/ Launched \/ Rehearse
             \/ LaunchFails("launch") \/ LaunchFails("relaunch") \/ Again \/ Execute
             \/ ProbeFails \/ Relaunch \/ Finally \/ FinalCloseReturns
    BY <1>3, <1>8 DEF PreClose, PreCloseReturns, NoScaffold, Launched, Rehearse, LaunchFails,
         Again, Execute, ProbeFails, Relaunch, Finally, FinalCloseReturns, CloseCur, LaunchFrom
  <1>9. CASE UNCHANGED vars
    BY <1>1, <1>9 DEF vars, sessionVars, runnerVars, walkVars
  <1> QED
    BY <1>2, <1>5, <1>6, <1>7, <1>8, <1>9 DEF Next, Coroutine, Done

\* A click or a fill of the walk uses elements found after the last change of
\* the page, through any card, failing calls and resumed walks.
THEOREM ElementsAreFresh == Spec => []RefsAreCurrent
  <1>1. Init => WalkInv
    BY DEF Init, WalkInv
  <1>2. WalkInv => RefsAreCurrent
    <2> SUFFICES ASSUME WalkInv, pc = "step", span.op \in {"click", "fillForm"}
                 PROVE  refsFrom = Changes
      BY DEF RefsAreCurrent
    <2>1. span.op = todo[1] /\ StepInv
      BY DEF WalkInv, StepInv
    <2>2. todo[1] \notin {"snapshot", "after"}
      BY <2>1
    <2> QED
      BY <2>1, <2>2 DEF StepInv, NeedsRefs
  <1> QED
    BY <1>1, <1>2, WalkInductive, PTL DEF Spec

-----------------------------------------------------------------------------
(* The destructive click comes after the plan. Actions are recorded by     *)
(* their numbers, which grow; a browser that rehearsed has each of them    *)
(* behind it, and one that walks has those of the steps it has walked.     *)

USE IterationAssumption

Recordings == [tool : Tools, id : Nat]

EffectsInv ==
  /\ effects \in [Sessions -> Seq(Nat)]
  /\ \A s \in Sessions : process[s] \in {"none", "connecting"} => effects[s] = <<>>

TraceInv ==
  /\ calls \in Nat
  /\ trace \in Seq(Recordings)
  /\ \A i \in 1..Len(trace) : trace[i].id \in 1..calls
  /\ \A i, j \in 1..Len(trace) : i < j => trace[i].id < trace[j].id

UpTo(behind, n) == \A p \in 1..Len(behind) : behind[p] \in 1..n

\* A tool that changes the page has done so when its first call is over.
ActInv ==
  /\ span.session = cur
  /\ tool \in Tools /\ calls > 0
  /\ \A i \in 1..Len(trace) : trace[i].id < calls
  /\ \E front \in Seq(Nat) :
       /\ UpTo(front, calls - 1)
       /\ Carried(trace, Len(trace), front)
       /\ \/ todo = ToolCalls(tool) /\ effects[cur] = front
          \/ /\ tool \in {"click", "fillForm"}
             /\ todo \in {<<"after", "snapshot">>, <<"snapshot">>}
             /\ effects[cur] = Append(front, calls)

RehearsalInv ==
  /\ pc \in {"think", "rehearsed", "probe"} /\ cur # None =>
       UpTo(effects[cur], calls) /\ Carried(trace, Len(trace), effects[cur])
  /\ pc = "act" => ActInv

\* n steps of the card were walked. Until the last of the rehearsal's, the
\* browser has nothing else behind it.
Walked(n, behind) ==
  /\ n <= Len(trace) => Carried(trace, n, behind)
  /\ n < Len(trace) =>
       \A p \in 1..Len(behind) : \E i \in 1..n : behind[p] = trace[i].id

HasCard == {"probe", "reclose", "relaunch", "walk", "step"}

ExecutionInv ==
  /\ pc \in HasCard => card = Materialized
  /\ pc = "walk" => at \in 1..Len(trace) + 2 /\ Walked(at - 1, effects[cur])
  /\ pc = "step" =>
       /\ at \in 1..Len(trace) + 1
       /\ span.session = cur
       /\ \E front \in Seq(Nat) :
            /\ Walked(at - 1, front)
            /\ \/ todo # <<"after">> /\ effects[cur] = front
               \/ todo = <<"after">> /\ effects[cur] = Append(front, Step.id)

PlanInv == EffectsInv /\ TraceInv /\ RehearsalInv /\ ExecutionInv

-----------------------------------------------------------------------------
(* What is behind a browser when one more action is.                       *)

LEMMA CarriedAlone ==
  ASSUME NEW recording, NEW n \in Nat, NEW behind \in Seq(Nat), NEW id \in Nat \ {0},
         Carried(recording, n, behind), \A i \in 1..n : recording[i].id # id
  PROVE  Carried(recording, n, Append(behind, id))
  <1> DEFINE more == Append(behind, id)
  <1>1. /\ Len(more) = Len(behind) + 1 /\ more[Len(behind) + 1] = id /\ Len(behind) \in Nat
        /\ \A p \in 1..Len(behind) : more[p] = behind[p]
    BY AppendProperties
  <1> HIDE DEF more
  <1>2. \A p \in 1..Len(more) : p = Len(behind) + 1 \/ p \in 1..Len(behind)
    BY <1>1
  <1>3. \A p \in 1..Len(behind) : p \in 1..Len(more)
    BY <1>1
  <1>4. Carried(recording, n, more)
    BY <1>1, <1>2, <1>3 DEF Carried
  <1> QED
    BY <1>4 DEF more

LEMMA CarriedOver ==
  ASSUME NEW recording, NEW n \in Nat, NEW behind,
         Carried(recording, n, behind), recording[n + 1].tool \notin Changing
  PROVE  Carried(recording, n + 1, behind)
  <1>1. {i \in 1..n + 1 : recording[i].tool \in Changing} = {i \in 1..n : recording[i].tool \in Changing}
    <2>1. \A i \in 1..n + 1 : i = n + 1 \/ i \in 1..n
      OBVIOUS
    <2>2. \A i \in 1..n : i \in 1..n + 1
      OBVIOUS
    <2> QED
      BY <2>1, <2>2
  <1> QED
    BY <1>1 DEF Carried

LEMMA CarriedOn ==
  ASSUME NEW recording, NEW n \in Nat, NEW behind \in Seq(Nat),
         Carried(recording, n, behind), recording[n + 1].id \in Nat \ {0},
         \A i \in 1..n : recording[i].id # recording[n + 1].id,
         \A p \in 1..Len(behind) : behind[p] # recording[n + 1].id
  PROVE  Carried(recording, n + 1, Append(behind, recording[n + 1].id))
  <1> DEFINE id == recording[n + 1].id
             more == Append(behind, id)
             planned == {i \in 1..n : recording[i].tool \in Changing}
             next_ == {i \in 1..n + 1 : recording[i].tool \in Changing}
  <1>1. /\ Len(more) = Len(behind) + 1 /\ more[Len(behind) + 1] = id /\ Len(behind) \in Nat
        /\ \A p \in 1..Len(behind) : more[p] = behind[p]
    BY AppendProperties
  <1>2. /\ \A i \in planned : \E p \in 1..Len(behind) : behind[p] = recording[i].id
        /\ \A i, j \in planned : \A p, q \in 1..Len(behind) :
             behind[p] = recording[i].id /\ behind[q] = recording[j].id => (p < q <=> i < j)
        /\ \A p \in 1..Len(behind) : behind[p] # 0
    BY DEF Carried
  <1>3. \A i \in next_ : (i \in planned /\ i \in 1..n /\ recording[i].id # id) \/ i = n + 1
    <2>1. \A i \in 1..n + 1 : i = n + 1 \/ i \in 1..n
      OBVIOUS
    <2> QED
      BY <2>1
  <1> HIDE DEF more, planned, next_, id
  <1>4. \A p \in 1..Len(more) : p = Len(behind) + 1 \/ p \in 1..Len(behind)
    BY <1>1
  <1>5. \A p \in 1..Len(behind) : p \in 1..Len(more) /\ behind[p] # id
    BY <1>1 DEF id
  <1>6. \A i \in next_ : \E p \in 1..Len(more) : more[p] = recording[i].id
    <2> SUFFICES ASSUME NEW i \in next_
                 PROVE  \E p \in 1..Len(more) : more[p] = recording[i].id
      OBVIOUS
    <2>1. CASE i \in planned
      BY <1>1, <1>2, <1>5, <2>1
    <2>2. CASE i = n + 1
      <3>1. Len(behind) + 1 \in 1..Len(more)
        BY <1>1
      <3> QED
        BY <1>1, <2>2, <3>1 DEF id
    <2> QED
      BY <1>3, <2>1, <2>2
  <1>7. ASSUME NEW i \in next_, NEW j \in next_, NEW p \in 1..Len(more), NEW q \in 1..Len(more),
               more[p] = recording[i].id, more[q] = recording[j].id
        PROVE  p < q <=> i < j
    <2>1. (i = n + 1 /\ p = Len(behind) + 1) \/ (i \in planned /\ i \in 1..n /\ p \in 1..Len(behind)
                                                 /\ behind[p] = recording[i].id)
      BY <1>1, <1>3, <1>4, <1>5, <1>7 DEF id
    <2>2. (j = n + 1 /\ q = Len(behind) + 1) \/ (j \in planned /\ j \in 1..n /\ q \in 1..Len(behind)
                                                 /\ behind[q] = recording[j].id)
      BY <1>1, <1>3, <1>4, <1>5, <1>7 DEF id
    <2> QED
      BY <1>1, <1>2, <2>1, <2>2
  <1>8. \A p \in 1..Len(more) : more[p] # 0
    BY <1>1, <1>2, <1>4 DEF id
  <1>9. Carried(recording, n + 1, more)
    BY <1>6, <1>7, <1>8, Zenon DEF Carried, next_
  <1> QED
    BY <1>9 DEF more, id

LEMMA CarriedBySame ==
  ASSUME NEW one, NEW other, NEW n \in Nat, NEW behind, Carried(one, n, behind),
         \A i \in 1..n : one[i] = other[i]
  PROVE  Carried(other, n, behind)
  <1>1. {i \in 1..n : one[i].tool \in Changing} = {i \in 1..n : other[i].tool \in Changing}
    OBVIOUS
  <1> QED
    BY <1>1 DEF Carried

LEMMA CarriedNothing ==
  ASSUME NEW recording, NEW behind \in Seq(Nat), Len(behind) = 0
  PROVE  Carried(recording, 0, behind)
  BY DEF Carried

-----------------------------------------------------------------------------
(* The rehearsal.                                                          *)

\* A tool ends, whether it is recorded or not.
LEMMA ToolEnds ==
  ASSUME TraceInv, calls > 0, \A i \in 1..Len(trace) : trace[i].id < calls,
         NEW front \in Seq(Nat), UpTo(front, calls - 1), Carried(trace, Len(trace), front),
         NEW behind, behind \in {front, Append(front, calls)}
  PROVE  UpTo(behind, calls) /\ Carried(trace, Len(trace), behind)
  <1>1. /\ calls \in Nat \ {0} /\ Len(trace) \in Nat
        /\ \A i \in 1..Len(trace) : trace[i].id \in Nat /\ trace[i].id # calls
    BY DEF TraceInv
  <1>2. CASE behind = front
    BY <1>1, <1>2 DEF UpTo
  <1>3. CASE behind = Append(front, calls)
    <2>1. Carried(trace, Len(trace), Append(front, calls))
      BY <1>1, CarriedAlone
    <2>2. /\ Len(behind) = Len(front) + 1 /\ behind[Len(front) + 1] = calls
          /\ \A p \in 1..Len(front) : behind[p] = front[p] /\ Len(front) \in Nat
      BY <1>1, <1>3, AppendProperties
    <2>3. \A p \in 1..Len(behind) : p \in 1..Len(front) \/ p = Len(front) + 1
      BY <2>2
    <2>4. \A p \in 1..Len(front) : front[p] \in 1..calls
      BY <1>1 DEF UpTo
    <2>5. UpTo(behind, calls)
      BY <1>1, <2>2, <2>3, <2>4 DEF UpTo
    <2> QED
      BY <1>3, <2>1, <2>5
  <1> QED
    BY <1>2, <1>3

LEMMA ToolRecorded ==
  ASSUME TraceInv, calls > 0, \A i \in 1..Len(trace) : trace[i].id < calls, NEW t \in Tools,
         NEW front \in Seq(Nat), UpTo(front, calls - 1), Carried(trace, Len(trace), front),
         NEW behind, \/ behind = front /\ t \notin Changing
                     \/ behind = Append(front, calls),
         trace' = Append(trace, [tool |-> t, id |-> calls]), calls' = calls
  PROVE  TraceInv' /\ UpTo(behind, calls) /\ Carried(trace', Len(trace'), behind)
  <1> DEFINE n == Len(trace)
             new == trace'
  <1>1. /\ calls \in Nat \ {0} /\ n \in Nat
        /\ \A i \in 1..n : trace[i].id \in 1..calls /\ trace[i].id # calls
    BY DEF TraceInv
  <1>2. /\ new \in Seq(Recordings) /\ Len(new) = n + 1
        /\ new[n + 1] = [tool |-> t, id |-> calls] /\ \A i \in 1..n : new[i] = trace[i]
    BY <1>1, AppendProperties DEF TraceInv, Recordings
  <1>3. TraceInv'
    <2>1. \A i \in 1..Len(new) : i = n + 1 \/ i \in 1..n
      BY <1>1, <1>2
    <2>2. \A i \in 1..Len(new) : new[i].id \in 1..calls
      BY <1>1, <1>2, <2>1
    <2>3. ASSUME NEW i \in 1..Len(new), NEW j \in 1..Len(new), i < j
          PROVE  new[i].id < new[j].id
      <3>1. i \in 1..n
        BY <1>1, <1>2, <2>3
      <3> QED
        BY <1>1, <1>2, <2>1, <2>3, <3>1 DEF TraceInv
    <2> QED
      BY <1>1, <1>2, <2>2, <2>3 DEF TraceInv
  <1>4. UpTo(behind, calls)
    BY ToolEnds
  <1>5. Carried(new, n, front)
    BY <1>1, <1>2, CarriedBySame
  <1>6. new[n + 1].tool = t /\ new[n + 1].id = calls
    BY <1>2
  <1> HIDE DEF new, n
  <1>7. Carried(new, n + 1, behind)
    <2>1. CASE behind = front /\ t \notin Changing
      BY <1>1, <1>5, <1>6, <2>1, CarriedOver
    <2>2. CASE behind = Append(front, calls)
      <3>1. \A p \in 1..Len(front) : front[p] # calls
        BY <1>1 DEF UpTo
      <3>2. \A i \in 1..n : new[i].id # new[n + 1].id
        BY <1>1, <1>2, <1>6
      <3> QED
        BY <1>1, <1>5, <1>6, <2>2, <3>1, <3>2, CarriedOn
    <2> QED
      BY <2>1, <2>2
  <1> QED
    BY <1>2, <1>3, <1>4, <1>7 DEF new, n

LEMMA ToolCallsOf ==
  ASSUME NEW t \in Tools
  PROVE  ToolCalls(t) = IF t \in {"click", "fillForm"} THEN <<t, "after", "snapshot">> ELSE <<t>>
  <1>1. CASE t \in {"click", "fillForm"}
    <2> DEFINE s == <<t, "after">> \o <<"snapshot">>
               u == <<t, "after", "snapshot">>
    <2>1. /\ s \in Seq({t, "after", "snapshot"}) /\ u \in Seq({t, "after", "snapshot"})
          /\ Len(s) = 3 /\ Len(u) = 3
      OBVIOUS
    <2>2. s[1] = u[1] /\ s[2] = u[2] /\ s[3] = u[3]
      OBVIOUS
    <2> HIDE DEF s, u
    <2>3. \A i \in 1..Len(s) : s[i] = u[i]
      BY <2>1, <2>2
    <2>4. s = u
      BY <2>1, <2>3, SeqEqual
    <2> QED
      BY <1>1, <2>4 DEF ToolCalls, MethodCalls, s, u
  <1>2. CASE t \notin {"click", "fillForm"}
    BY <1>2 DEF ToolCalls, MethodCalls
  <1> QED
    BY <1>1, <1>2

\* What a call that returns did to the browser.
LEMMA CallLands ==
  ASSUME EffectsInv, BrowserInv, cur # None, span.session = cur, NEW op, NEW id \in Nat,
         NEW ok \in BOOLEAN, Lands(op, id, ok), UNCHANGED process
  PROVE  /\ EffectsInv'
         /\ effects'[cur] \in {effects[cur], Append(effects[cur], id)}
         /\ op \notin Changing => effects'[cur] = effects[cur]
         /\ op \in Changing /\ ok => effects'[cur] = Append(effects[cur], id)
  <1>1. cur \in Sessions /\ process[cur] \notin {"none", "connecting"}
    BY DEF BrowserInv, ControlInv, Early
  <1>2. effects[cur] \in Seq(Nat) /\ Append(effects[cur], id) \in Seq(Nat)
    BY <1>1 DEF EffectsInv
  <1>3. CASE op \in Changing /\ effects' = [effects EXCEPT ![cur] = Append(@, id)]
    <2>1. EffectsInv'
      BY <1>1, <1>2, <1>3 DEF EffectsInv
    <2> QED
      BY <1>1, <1>3, <2>1 DEF EffectsInv
  <1>4. CASE (op \notin Changing \/ ~ok) /\ UNCHANGED effects
    BY <1>4 DEF EffectsInv
  <1> QED
    BY <1>3, <1>4 DEF Lands

LEMMA ObserveCallKeepsPlan ==
  ASSUME BrowserInv, PlanInv, NEW ok \in BOOLEAN, ObserveCall(ok), UNCHANGED walkVars
  PROVE  PlanInv'
  <1>1. /\ pc = "act" /\ ActInv /\ TraceInv /\ EffectsInv
        /\ UNCHANGED <<process, cur, calls, card>>
    BY DEF ObserveCall, PlanInv, RehearsalInv, walkVars
  <1>2. /\ cur # None /\ cur \in Sessions /\ span.session = cur
        /\ tool \in Tools /\ calls \in Nat /\ calls > 0
        /\ \A i \in 1..Len(trace) : trace[i].id < calls
    BY <1>1 DEF ActInv, BrowserInv, ControlInv, Working, TraceInv
  <1>3. PICK front \in Seq(Nat) :
          /\ UpTo(front, calls - 1)
          /\ Carried(trace, Len(trace), front)
          /\ \/ todo = ToolCalls(tool) /\ effects[cur] = front
             \/ /\ tool \in {"click", "fillForm"}
                /\ todo \in {<<"after", "snapshot">>, <<"snapshot">>}
                /\ effects[cur] = Append(front, calls)
    BY <1>1 DEF ActInv
  <1>4. /\ EffectsInv'
        /\ effects'[cur] \in {effects[cur], Append(effects[cur], calls)}
        /\ todo[1] \notin Changing => effects'[cur] = effects[cur]
        /\ todo[1] \in Changing /\ ok => effects'[cur] = Append(effects[cur], calls)
    BY <1>1, <1>2, CallLands DEF ObserveCall
  <1>5. \/ tool \in {"click", "fillForm"} /\ todo = <<tool, "after", "snapshot">>
           /\ effects[cur] = front
        \/ tool \notin {"click", "fillForm"} /\ todo = <<tool>> /\ effects[cur] = front
        \/ tool \in {"click", "fillForm"} /\ todo = <<"after", "snapshot">>
           /\ effects[cur] = Append(front, calls)
        \/ tool \in {"click", "fillForm"} /\ todo = <<"snapshot">>
           /\ effects[cur] = Append(front, calls)
    BY <1>2, <1>3, ToolCallsOf
  <1>6. effects'[cur] \in {front, Append(front, calls)}
    BY <1>4, <1>5 DEF Changing
  <1>7. \/ todo[1] \in Changing /\ todo[1] = tool /\ effects[cur] = front
        \/ todo[1] = tool /\ tool \notin Changing /\ Len(todo) = 1 /\ effects[cur] = front
        \/ todo[1] \notin Changing /\ effects[cur] = Append(front, calls)
    BY <1>2, <1>5 DEF Changing, Tools
  <1>8. ExecutionInv'
    <2>1. pc' \in {"act", "think", "rehearsed"}
      BY <1>1 DEF ObserveCall, ToolThrows, ToolReturns, LoopGoesOn
    <2> QED
      BY <2>1 DEF ExecutionInv, HasCard
  <1>9. CASE ToolThrows
    <2>1. UNCHANGED trace /\ pc' \in {"think", "rehearsed"}
      BY <1>9 DEF ToolThrows, LoopGoesOn
    <2>2. UpTo(effects'[cur], calls) /\ Carried(trace, Len(trace), effects'[cur])
      BY <1>1, <1>2, <1>3, <1>6, ToolEnds
    <2>3. TraceInv' /\ RehearsalInv'
      BY <1>1, <2>1, <2>2 DEF TraceInv, RehearsalInv
    <2> QED
      BY <1>4, <1>8, <2>3 DEF PlanInv
  <1>10. CASE (ok \/ todo[1] = "after") /\ Len(todo) = 1 /\ ToolReturns
    <2>1. /\ trace' = Append(trace, [tool |-> tool, id |-> calls])
          /\ pc' \in {"think", "rehearsed"}
      BY <1>10 DEF ToolReturns, LoopGoesOn
    <2>2. \/ effects'[cur] = front /\ tool \notin Changing
          \/ effects'[cur] = Append(front, calls)
      BY <1>4, <1>7, <1>10 DEF Changing
    <2>3. TraceInv' /\ UpTo(effects'[cur], calls) /\ Carried(trace', Len(trace'), effects'[cur])
      BY <1>1, <1>2, <1>3, <2>1, <2>2, ToolRecorded
    <2>4. RehearsalInv'
      BY <1>1, <2>1, <2>3 DEF RehearsalInv
    <2> QED
      BY <1>4, <1>8, <2>3, <2>4 DEF PlanInv
  <1>11. CASE /\ ok \/ todo[1] = "after"
              /\ Len(todo) > 1
              /\ OpenSpan(cur, todo[2])
              /\ todo' = Tail(todo)
              /\ UNCHANGED <<pc, iteration, tool, trace>>
    <2>1. /\ tool \in {"click", "fillForm"}
          /\ todo' \in {<<"after", "snapshot">>, <<"snapshot">>}
          /\ effects'[cur] = Append(front, calls)
      <3>1. CASE todo = <<tool, "after", "snapshot">>
        <4>1. todo[1] = tool /\ todo' = <<"after", "snapshot">>
          BY <1>11, <3>1
        <4>2. tool \in {"click", "fillForm"}
          BY <1>5, <3>1
        <4> QED
          BY <1>4, <1>7, <1>11, <4>1, <4>2 DEF Changing
      <3>2. CASE todo = <<"after", "snapshot">>
        <4>1. todo[1] = "after" /\ todo' = <<"snapshot">> /\ Len(todo) = 2
          BY <1>11, <3>2
        <4>2. tool \in {"click", "fillForm"} /\ effects[cur] = Append(front, calls)
          BY <1>5, <3>2, <4>1
        <4> QED
          BY <1>4, <4>1, <4>2 DEF Changing
      <3> QED
        BY <1>5, <1>11, <3>1, <3>2
    <2>2. span'.session = cur
      BY <1>11 DEF OpenSpan
    <2>3. ActInv'
      BY <1>1, <1>2, <1>3, <1>11, <2>1, <2>2 DEF ActInv
    <2>4. TraceInv' /\ RehearsalInv'
      BY <1>1, <1>11, <2>3 DEF TraceInv, RehearsalInv
    <2> QED
      BY <1>4, <1>8, <2>4 DEF PlanInv
  <1> QED
    BY <1>9, <1>10, <1>11 DEF ObserveCall

\* The other steps of the rehearsal.
LEMMA RunnerKeepsPlan ==
  ASSUME BrowserInv, PlanInv, RunnerNext, UNCHANGED <<walkVars, workVars>>
  PROVE  PlanInv'
  <1>1. CASE ModelFails
    <2>1. UNCHANGED <<process, effects, calls, trace>> /\ pc' = "final"
      BY <1>1 DEF ModelFails, sessionVars
    <2> QED
      BY <2>1 DEF PlanInv, EffectsInv, TraceInv, RehearsalInv, ExecutionInv, HasCard
  <1>2. CASE ModelFinishes \/ ModelMisspells \/ ReachBoundary
    <2>1. /\ UNCHANGED <<process, effects, calls, trace, cur>>
          /\ pc = "think" /\ pc' \in {"think", "rehearsed"}
      BY <1>2 DEF ModelFinishes, ModelMisspells, ReachBoundary, Thinking, LoopGoesOn, LeaveLoop,
                  sessionVars
    <2> QED
      BY <2>1 DEF PlanInv, EffectsInv, TraceInv, RehearsalInv, ExecutionInv, HasCard
  <1>3. ASSUME NEW t \in CalledTools, CallTool(t)
        PROVE  PlanInv'
    <2>1. /\ UNCHANGED <<process, effects, trace, cur>>
          /\ pc = "think" /\ pc' = "act" /\ calls' = calls + 1
          /\ span'.session = cur /\ tool' = t /\ todo' = ToolCalls(t)
      BY <1>3 DEF CallTool, Thinking, OpenSpan
    <2>2. cur # None /\ cur \in Sessions /\ process[cur] \notin {"none", "connecting"}
      BY <2>1 DEF BrowserInv, ControlInv, Working, Early
    <2>3. calls \in Nat /\ effects[cur] \in Seq(Nat)
      BY <2>2 DEF PlanInv, TraceInv, EffectsInv
    <2>4. EffectsInv' /\ TraceInv'
      BY <2>1, <2>3 DEF PlanInv, EffectsInv, TraceInv
    <2>5. calls' - 1 = calls /\ calls' > 0 /\ \A i \in 1..Len(trace') : trace'[i].id < calls'
      BY <2>1, <2>3 DEF PlanInv, TraceInv
    <2>6. UpTo(effects'[cur], calls' - 1) /\ Carried(trace', Len(trace'), effects'[cur])
      BY <2>1, <2>2, <2>5 DEF PlanInv, RehearsalInv
    <2>7. tool' \in Tools
      BY <2>1 DEF IterationAssumption
    <2>8. ActInv'
      BY <2>1, <2>3, <2>5, <2>6, <2>7 DEF ActInv
    <2> QED
      BY <2>1, <2>4, <2>8 DEF PlanInv, RehearsalInv, ExecutionInv, HasCard
  <1>4. ASSUME NEW ok \in BOOLEAN, ObserveCall(ok)
        PROVE  PlanInv'
    BY <1>4, ObserveCallKeepsPlan
  <1> QED
    BY <1>1, <1>2, <1>3, <1>4 DEF RunnerNext

-----------------------------------------------------------------------------
(* The walk.                                                               *)

LEMMA TheCard ==
  ASSUME TraceInv
  PROVE  /\ Len(Materialized) = Len(trace) + 1
         /\ Materialized[Len(trace) + 1] = [tool |-> "click", id |-> 0, destructive |-> TRUE]
         /\ \A i \in 1..Len(trace) :
              Materialized[i] = [tool |-> trace[i].tool, id |-> trace[i].id, destructive |-> FALSE]
  <1> DEFINE Rows == [tool : Tools, id : Nat, destructive : BOOLEAN]
             made == [i \in 1..Len(trace) |->
                        [tool |-> trace[i].tool, id |-> trace[i].id, destructive |-> FALSE]]
             last == [tool |-> "click", id |-> 0, destructive |-> TRUE]
  <1>1. Len(trace) \in Nat /\ \A i \in 1..Len(trace) : trace[i] \in Recordings
    BY DEF TraceInv
  <1>2. made \in Seq(Rows) /\ Len(made) = Len(trace)
    <2>1. \A i \in 1..Len(trace) : made[i] \in Rows
      BY <1>1 DEF Recordings
    <2>2. made \in [1..Len(trace) -> Rows]
      BY <2>1
    <2> QED
      BY <1>1, <2>2
  <1>3. last \in Rows
    BY DEF Tools
  <1>4. Materialized = Append(made, last)
    BY DEF Materialized
  <1>5. \A i \in 1..Len(trace) :
          made[i] = [tool |-> trace[i].tool, id |-> trace[i].id, destructive |-> FALSE]
    OBVIOUS
  <1> HIDE DEF made, last, Rows
  <1>6. /\ Len(Materialized) = Len(trace) + 1 /\ Materialized[Len(trace) + 1] = last
        /\ \A i \in 1..Len(trace) : Materialized[i] = made[i]
    BY <1>2, <1>3, <1>4, AppendProperties
  <1> QED
    BY <1>5, <1>6 DEF last

\* A resumed walk begins at the destructive click, any other at the first step.
LEMMA WalkBegins ==
  ASSUME TraceInv, card = Materialized
  PROVE  FirstStep(card, TRUE) = Len(trace) + 1 /\ FirstStep(card, FALSE) = 1
  <1> DEFINE n == Len(trace)
             P(i) == /\ i <= Len(card) => card[i].destructive
                     /\ \A j \in 1..i - 1 : ~card[j].destructive
  <1>1. n \in Nat /\ Len(card) = n + 1
    BY TheCard DEF TraceInv
  <1>a. card[n + 1].destructive
    BY TheCard
  <1>b. ASSUME NEW i \in 1..n
        PROVE  ~card[i].destructive
    <2>1. card[i] = [tool |-> trace[i].tool, id |-> trace[i].id, destructive |-> FALSE]
      BY TheCard
    <2> QED
      BY <2>1
  <1>2. P(n + 1) /\ n + 1 \in 1..Len(card) + 1
    <2>1. ASSUME NEW j \in 1..n + 1 - 1
          PROVE  ~card[j].destructive
      <3>1. j \in 1..n
        BY <1>1
      <3> QED
        BY <1>b, <3>1
    <2>2. n + 1 \in 1..Len(card) + 1
      BY <1>1
    <2>3. \A j \in 1..n + 1 - 1 : ~card[j].destructive
      BY <2>1
    <2>4. P(n + 1)
      BY <1>a, <2>3
    <2> QED
      BY <2>2, <2>4
  <1>3. ASSUME NEW i \in 1..Len(card) + 1, P(i)
        PROVE  i = n + 1
    <2>1. ASSUME i < n + 1
          PROVE  FALSE
      <3>1. i \in 1..n /\ i <= Len(card)
        BY <1>1, <2>1
      <3>2. card[i].destructive
        BY <1>3, <3>1
      <3> QED
        BY <1>b, <3>1, <3>2
    <2>2. ASSUME i > n + 1
          PROVE  FALSE
      <3>1. n + 1 \in 1..i - 1
        BY <1>1, <2>2
      <3>2. ~card[n + 1].destructive
        BY <1>3, <3>1
      <3> QED
        BY <1>a, <3>2
    <2> QED
      BY <1>1, <2>1, <2>2
  <1>4. FirstStep(card, TRUE) = CHOOSE i \in 1..Len(card) + 1 : P(i)
    BY DEF FirstStep
  <1> HIDE DEF P
  <1>5. FirstStep(card, TRUE) = n + 1
    BY <1>2, <1>3, <1>4
  <1> QED
    BY <1>5 DEF FirstStep

\* One more step of the card is walked, and it landed if it changes the page.
LEMMA WalkedOn ==
  ASSUME TraceInv, NEW n \in 0..Len(trace), NEW front \in Seq(Nat), Walked(n, front),
         NEW behind,
         n < Len(trace) => \/ behind = front /\ trace[n + 1].tool \notin Changing
                           \/ behind = Append(front, trace[n + 1].id)
  PROVE  Walked(n + 1, behind)
  <1>1. CASE n = Len(trace)
    BY <1>1 DEF Walked, TraceInv
  <1>2. CASE n < Len(trace)
    <2> DEFINE id == trace[n + 1].id
    <2>1. n \in Nat /\ n + 1 \in 1..Len(trace) /\ id \in Nat \ {0}
      BY <1>2 DEF TraceInv
    <2>2. \A i \in 1..n : i \in 1..Len(trace) /\ trace[i].id # id /\ i \in 1..n + 1
      <3> SUFFICES ASSUME NEW i \in 1..n
                   PROVE  i \in 1..Len(trace) /\ trace[i].id # id /\ i \in 1..n + 1
        OBVIOUS
      <3>1. i \in 1..Len(trace) /\ i < n + 1
        BY <2>1
      <3>2. trace[i].id < id /\ trace[i].id \in Nat
        BY <2>1, <3>1 DEF TraceInv
      <3> QED
        BY <2>1, <3>1, <3>2
    <2>3. /\ Carried(trace, n, front)
          /\ \A p \in 1..Len(front) : \E i \in 1..n : front[p] = trace[i].id
      BY <1>2, <2>1 DEF Walked
    <2>4. CASE behind = front /\ trace[n + 1].tool \notin Changing
      <3>1. Carried(trace, n + 1, behind)
        BY <2>1, <2>3, <2>4, CarriedOver
      <3> QED
        BY <2>2, <2>3, <2>4, <3>1 DEF Walked
    <2>5. CASE behind = Append(front, id)
      <3>1. \A p \in 1..Len(front) : front[p] # id
        BY <2>2, <2>3
      <3>2. Carried(trace, n + 1, behind)
        BY <2>1, <2>2, <2>3, <2>5, <3>1, CarriedOn
      <3>3. /\ Len(behind) = Len(front) + 1 /\ behind[Len(front) + 1] = id
            /\ \A p \in 1..Len(front) : behind[p] = front[p] /\ Len(front) \in Nat
        BY <2>1, <2>5, AppendProperties
      <3>4. \A p \in 1..Len(behind) : p \in 1..Len(front) \/ p = Len(front) + 1
        BY <3>3
      <3>5. n + 1 \in 1..n + 1
        BY <2>1
      <3>6. \A p \in 1..Len(behind) : \E i \in 1..n + 1 : behind[p] = trace[i].id
        BY <2>2, <2>3, <3>3, <3>4, <3>5
      <3> QED
        BY <3>2, <3>6 DEF Walked
    <2> QED
      BY <1>2, <2>4, <2>5
  <1> QED
    BY <1>1, <1>2 DEF TraceInv

\* What a step of the card is, and how it begins.
LEMMA TheStep ==
  ASSUME TraceInv, card = Materialized, at \in 1..Len(trace) + 1
  PROVE  /\ Step.tool \in Tools /\ Step.id \in Nat
         /\ at \in 1..Len(trace) => Step.tool = trace[at].tool /\ Step.id = trace[at].id
  <1>1. Len(trace) \in Nat /\ \A i \in 1..Len(trace) : trace[i] \in Recordings
    BY DEF TraceInv
  <1>2. CASE at \in 1..Len(trace)
    <2>1. Step = [tool |-> trace[at].tool, id |-> trace[at].id, destructive |-> FALSE]
      BY <1>2, TheCard DEF Step
    <2>2. trace[at].tool \in Tools /\ trace[at].id \in Nat
      BY <1>1, <1>2 DEF Recordings
    <2> QED
      BY <2>1, <2>2
  <1>3. CASE at = Len(trace) + 1
    <2>1. Step = [tool |-> "click", id |-> 0, destructive |-> TRUE]
      BY <1>3, TheCard DEF Step
    <2> QED
      BY <1>1, <1>3, <2>1 DEF Tools
  <1> QED
    BY <1>1, <1>2, <1>3

LEMMA StepStarts == Step.tool \in Tools => StepCalls # <<"after">>
  <1> SUFFICES ASSUME Step.tool \in Tools
               PROVE  StepCalls # <<"after">>
    OBVIOUS
  <1>1. CASE ~NeedsRefs(Step.tool)
    <2>1. StepCalls = <<Step.tool>>
      BY <1>1 DEF StepCalls, MethodCalls, NeedsRefs
    <2>2. Step.tool # "after"
      BY DEF Tools
    <2> QED
      BY <2>1, <2>2
  <1>2. CASE NeedsRefs(Step.tool) /\ lastSnap = None
    <2>1. MethodCalls(Step.tool) = <<Step.tool, "after">>
      BY <1>2 DEF MethodCalls, NeedsRefs
    <2>2. StepCalls = <<"snapshot">> \o <<Step.tool, "after">>
      BY <1>2, <2>1 DEF StepCalls
    <2>3. Step.tool \in {Step.tool, "snapshot", "after"}
      OBVIOUS
    <2>4. StepCalls = <<"snapshot", Step.tool, "after">>
      BY <2>2, <2>3, OneBeforeTwo
    <2> QED
      BY <2>4
  <1>3. CASE NeedsRefs(Step.tool) /\ lastSnap # None
    <2>1. StepCalls = <<Step.tool, "after">>
      BY <1>3 DEF StepCalls, MethodCalls, NeedsRefs
    <2> QED
      BY <2>1
  <1> QED
    BY <1>1, <1>2, <1>3

LEMMA BeginStepKeepsPlan ==
  ASSUME BrowserInv, PlanInv, BeginStep
  PROVE  PlanInv'
  <1>1. /\ pc = "walk" /\ at <= Len(card) /\ EffectsInv /\ TraceInv /\ card = Materialized
        /\ at \in 1..Len(trace) + 2 /\ Walked(at - 1, effects[cur])
        /\ UNCHANGED <<process, cur, trace, calls, card, effects>>
    BY DEF BeginStep, walkFrame, PlanInv, ExecutionInv, HasCard
  <1>2. Len(card) = Len(trace) + 1 /\ Len(trace) \in Nat
    BY <1>1, TheCard DEF TraceInv
  <1>3. at \in 1..Len(trace) + 1
    BY <1>1, <1>2
  <1>4. EffectsInv' /\ TraceInv'
    BY <1>1 DEF EffectsInv, TraceInv
  <1>5. CASE pc' = "walked"
    BY <1>4, <1>5 DEF PlanInv, RehearsalInv, ExecutionInv, HasCard
  <1>6. CASE OpenSpan(cur, StepCalls[1]) /\ todo' = StepCalls /\ pc' = "step" /\ at' = at
    <2>1. cur # None /\ cur \in Sessions /\ process[cur] \notin {"none", "connecting"}
      BY <1>1 DEF BrowserInv, ControlInv, Working, Early
    <2>2. effects[cur] \in Seq(Nat)
      BY <1>1, <2>1 DEF EffectsInv
    <2>3. todo' # <<"after">>
      BY <1>1, <1>3, <1>6, TheStep, StepStarts
    <2>4. span'.session = cur'
      BY <1>1, <1>6 DEF OpenSpan
    <2>5. UNCHANGED Materialized
      BY <1>1 DEF Materialized
    <2>6. UNCHANGED Walked(at - 1, effects[cur])
      BY <1>1, <1>6 DEF Walked
    <2>7. ExecutionInv'
      BY <1>1, <1>3, <1>6, <2>2, <2>3, <2>4, <2>5, <2>6 DEF ExecutionInv
    <2> QED
      BY <1>4, <1>6, <2>7 DEF PlanInv, RehearsalInv
  <1> QED
    BY <1>5, <1>6 DEF BeginStep, StopWalk, LeaveWalk

LEMMA ObserveStepKeepsPlan ==
  ASSUME BrowserInv, WalkInv, PlanInv, NEW ok \in BOOLEAN, ObserveStep(ok)
  PROVE  PlanInv'
  <1>1. /\ pc = "step" /\ EffectsInv /\ TraceInv /\ card = Materialized /\ StepInv
        /\ at \in 1..Len(trace) + 1 /\ span.session = cur
        /\ UNCHANGED <<process, cur, trace, calls, card>>
    BY DEF ObserveStep, walkFrame, PlanInv, ExecutionInv, HasCard, WalkInv
  <1>2. cur # None /\ Len(trace) \in Nat /\ Step.tool \in Tools /\ Step.id \in Nat
    BY <1>1, TheStep DEF BrowserInv, ControlInv, Working, TraceInv
  <1>3. PICK front \in Seq(Nat) :
          /\ Walked(at - 1, front)
          /\ \/ todo # <<"after">> /\ effects[cur] = front
             \/ todo = <<"after">> /\ effects[cur] = Append(front, Step.id)
    BY <1>1 DEF PlanInv, ExecutionInv
  <1>4. /\ EffectsInv'
        /\ todo[1] \notin Changing => effects'[cur] = effects[cur]
        /\ todo[1] \in Changing /\ ok => effects'[cur] = Append(effects[cur], Step.id)
    BY <1>1, <1>2, CallLands DEF ObserveStep
  <1>5. TraceInv'
    BY <1>1 DEF TraceInv
  <1>6. UNCHANGED Materialized
    BY <1>1 DEF Materialized
  <1>7. CASE pc' = "walked"
    BY <1>4, <1>5, <1>7 DEF PlanInv, RehearsalInv, ExecutionInv, HasCard
  <1>8. CASE (ok \/ todo[1] = "after") /\ Len(todo) = 1 /\ StepReturns
    <2>1. at' = at + 1 /\ pc' = "walk"
      BY <1>8 DEF StepReturns
    <2>2. \/ Step.tool \notin Changing /\ effects'[cur] = front
          \/ effects'[cur] = Append(front, Step.id)
      <3>1. CASE todo = <<"after">>
        BY <1>3, <1>4, <3>1 DEF Changing
      <3>2. CASE todo # <<"after">>
        <4>1. todo = <<Step.tool>>
          BY <1>1, <1>8, <3>2 DEF StepInv
        <4>2. todo[1] = Step.tool /\ todo[1] # "after"
          BY <1>2, <4>1 DEF Tools
        <4> QED
          BY <1>3, <1>4, <1>8, <3>2, <4>2
      <3> QED
        BY <3>1, <3>2
    <2>3. at \in 1..Len(trace) => Step.tool = trace[at].tool /\ Step.id = trace[at].id
      BY <1>1, TheStep
    <2>4. Walked(at, effects'[cur])
      <3> DEFINE n == at - 1
      <3>1. n \in 0..Len(trace) /\ n + 1 = at /\ (n < Len(trace) => at \in 1..Len(trace))
        BY <1>1, <1>2
      <3> HIDE DEF n
      <3>2. Walked(n, front)
        BY <1>3 DEF n
      <3>3. Walked(n + 1, effects'[cur])
        BY <1>1, <2>2, <2>3, <3>1, <3>2, WalkedOn
      <3> QED
        BY <3>1, <3>3
    <2>5. (Walked(at - 1, effects[cur]))'
      BY <1>1, <2>1, <2>4 DEF Walked
    <2>6. at' \in 1..Len(trace') + 2
      BY <1>1, <1>2, <2>1
    <2> QED
      BY <1>1, <1>4, <1>5, <1>6, <2>1, <2>5, <2>6
         DEF PlanInv, RehearsalInv, ExecutionInv
  <1>9. CASE /\ ok \/ todo[1] = "after"
             /\ Len(todo) > 1
             /\ OpenSpan(cur, todo[2])
             /\ todo' = Tail(todo)
             /\ UNCHANGED <<pc, at>>
    <2>1. /\ UNCHANGED Step /\ span'.session = cur'
          /\ at' \in 1..Len(trace') + 1
      BY <1>1, <1>9 DEF OpenSpan, Step
    <2>2. (Walked(at - 1, front))'
      BY <1>1, <1>3, <1>9 DEF Walked
    <2>3. \/ todo' # <<"after">> /\ effects'[cur'] = front
          \/ todo' = <<"after">> /\ effects'[cur'] = Append(front, Step'.id)
      <3>1. CASE todo = <<"snapshot", Step.tool, "after">>
        <4>1. todo' = <<Step.tool, "after">> /\ todo[1] = "snapshot" /\ todo # <<"after">>
          BY <1>9, <3>1
        <4> QED
          BY <1>1, <1>3, <1>4, <4>1 DEF Changing
      <3>2. CASE todo = <<Step.tool, "after">>
        <4>1. todo' = <<"after">> /\ todo[1] = Step.tool /\ todo # <<"after">>
          BY <1>9, <3>2
        <4>2. Step.tool \in Changing /\ Step.tool # "after"
          <5>1. NeedsRefs(Step.tool)
            BY <1>1, <1>9, <3>2 DEF StepInv
          <5> QED
            BY <5>1 DEF NeedsRefs, Changing
        <4>3. ok /\ effects[cur] = front
          BY <1>3, <1>9, <4>1, <4>2
        <4>4. effects'[cur] = Append(front, Step.id)
          BY <1>4, <4>1, <4>2, <4>3
        <4>5. cur' = cur /\ Step'.id = Step.id
          BY <1>1, <2>1
        <4> QED
          BY <4>1, <4>4, <4>5
      <3>3. todo # <<"after">>
        BY <1>9
      <3>4. todo # <<Step.tool>>
        BY <1>9
      <3> QED
        BY <1>1, <3>1, <3>2, <3>3, <3>4 DEF StepInv
    <2>4. ExecutionInv'
      BY <1>1, <1>6, <1>9, <2>1, <2>2, <2>3 DEF ExecutionInv
    <2> QED
      BY <1>1, <1>4, <1>5, <1>9, <2>4 DEF PlanInv, RehearsalInv
  <1> QED
    BY <1>7, <1>8, <1>9 DEF ObserveStep, StopWalk, LeaveWalk

-----------------------------------------------------------------------------
(* The steps of the workflow around them.                                  *)

\* Nobody rehearses, walks or waits for the probe.
LEMMA PlanElsewhere ==
  ASSUME PlanInv, UNCHANGED <<calls, trace, effects>>,
         \A s \in Sessions :
           process'[s] \in {"none", "connecting"} => process[s] \in {"none", "connecting"},
         pc' \notin {"think", "act", "rehearsed", "probe", "walk", "step"},
         pc' \in HasCard => card' = Materialized
  PROVE  PlanInv'
  <1>1. EffectsInv' /\ TraceInv'
    BY DEF PlanInv, EffectsInv, TraceInv
  <1>2. UNCHANGED Materialized
    BY DEF Materialized
  <1> QED
    BY <1>1, <1>2 DEF PlanInv, RehearsalInv, ExecutionInv

LEMMA PlanFrame ==
  ASSUME PlanInv, UNCHANGED <<calls, trace, effects, card, at, cur, tool, todo, pc, span>>,
         \A s \in Sessions :
           process'[s] \in {"none", "connecting"} => process[s] \in {"none", "connecting"}
  PROVE  PlanInv'
  <1>1. EffectsInv' /\ TraceInv'
    BY DEF PlanInv, EffectsInv, TraceInv
  <1>2. RehearsalInv'
    BY DEF PlanInv, RehearsalInv, ActInv
  <1>3. ExecutionInv'
    BY DEF PlanInv, ExecutionInv, Materialized, Walked, Step
  <1> QED
    BY <1>1, <1>2, <1>3 DEF PlanInv

LEMMA AloneKeepsPlan ==
  ASSUME BrowserInv, PlanInv, ByItself
  PROVE  PlanInv'
  <1>1. UNCHANGED <<calls, trace, effects, card, at, cur, tool, todo, pc, span>>
    BY DEF ByItself, runnerVars, walkVars, SessionNext, Abort, KillTree, RemoveProfile, Crash
  <1>2. ASSUME NEW s \in Sessions, process'[s] \in {"none", "connecting"}
        PROVE  process[s] \in {"none", "connecting"}
    BY <1>2 DEF ByItself, SessionNext, Abort, KillTree, RemoveProfile, Crash, AfterKill,
                BrowserInv, SessionInv
  <1> QED
    BY <1>1, <1>2, PlanFrame

\* A browser that has just come up has nothing behind it.
LEMMA FreshBrowser ==
  ASSUME BrowserInv, EffectsInv, pc \in Launching, Connect(next), UNCHANGED effects
  PROVE  /\ EffectsInv' /\ next # None /\ effects'[next] \in Seq(Nat)
         /\ Len(effects'[next]) = 0
  <1>1. next \in Sessions /\ process[next] = "connecting" /\ next # None
    BY DEF BrowserInv, ControlInv
  <1>2. process' = [process EXCEPT ![next] = "up"] /\ process \in [Sessions -> Lives]
    BY DEF Connect, BrowserInv, SessionInv
  <1>3. EffectsInv'
    BY <1>1, <1>2 DEF EffectsInv
  <1>4. effects[next] = <<>> /\ effects[next] \in Seq(Nat)
    BY <1>1 DEF EffectsInv
  <1> QED
    BY <1>1, <1>3, <1>4

LEMMA LaunchedKeepsPlan ==
  ASSUME BrowserInv, PlanInv, Launched
  PROVE  PlanInv'
  <1>1. /\ pc = "launch" /\ Connect(next) /\ cur' = next /\ trace' = <<>> /\ pc' = "think"
        /\ UNCHANGED <<calls, effects>> /\ EffectsInv /\ TraceInv
    BY DEF Launched, PlanInv
  <1>2. EffectsInv' /\ effects'[next] \in Seq(Nat) /\ Len(effects'[next]) = 0
    BY <1>1, FreshBrowser DEF Launching
  <1>3. Len(trace') = 0
    BY <1>1
  <1>4. TraceInv'
    BY <1>1 DEF TraceInv
  <1>5. Carried(trace', Len(trace'), effects'[next])
    BY <1>2, <1>3, CarriedNothing
  <1>6. UpTo(effects'[next], calls')
    BY <1>2 DEF UpTo
  <1> QED
    BY <1>1, <1>2, <1>4, <1>5, <1>6 DEF PlanInv, RehearsalInv, ExecutionInv, HasCard

LEMMA RelaunchedKeepsPlan ==
  ASSUME BrowserInv, PlanInv, Relaunched
  PROVE  PlanInv'
  <1>1. /\ pc = "relaunch" /\ Connect(next) /\ cur' = next /\ pc' = "walk"
        /\ at' = FirstStep(card, FALSE) /\ card = Materialized
        /\ UNCHANGED <<calls, trace, effects, card>> /\ EffectsInv /\ TraceInv
    BY DEF Relaunched, BeginWalk, PlanInv, ExecutionInv, HasCard
  <1>2. EffectsInv' /\ effects'[next] \in Seq(Nat) /\ Len(effects'[next]) = 0
    BY <1>1, FreshBrowser DEF Launching
  <1>3. TraceInv' /\ UNCHANGED Materialized
    BY <1>1 DEF TraceInv, Materialized
  <1>4. at' = 1
    BY <1>1 DEF FirstStep
  <1>5. Carried(trace', 0, effects'[next])
    BY <1>2, CarriedNothing
  <1>6. Len(trace') \in Nat
    BY <1>3 DEF TraceInv
  <1>7. (Walked(at - 1, effects[cur]))'
    <2>1. at' - 1 = 0
      BY <1>4
    <2>2. effects'[cur'] = effects'[next]
      BY <1>1, Zenon
    <2>3. \A p \in 1..Len(effects'[next]) : FALSE
      BY <1>2
    <2> QED
      BY <1>5, <2>1, <2>2, <2>3 DEF Walked
  <1>8. at' \in 1..Len(trace') + 2
    BY <1>4, <1>6
  <1> QED
    BY <1>1, <1>2, <1>3, <1>7, <1>8 DEF PlanInv, RehearsalInv, ExecutionInv

LEMMA ProbeSucceedsKeepsPlan ==
  ASSUME BrowserInv, PlanInv, ProbeSucceeds
  PROVE  PlanInv'
  <1>1. /\ pc = "probe" /\ pc' = "walk" /\ at' = FirstStep(card, TRUE) /\ card = Materialized
        /\ UNCHANGED <<process, cur, calls, trace, effects, card>> /\ EffectsInv /\ TraceInv
    BY DEF ProbeSucceeds, BeginWalk, PlanInv, ExecutionInv, HasCard
  <1>2. Carried(trace, Len(trace), effects[cur])
    BY <1>1 DEF PlanInv, RehearsalInv, BrowserInv, ControlInv, Working
  <1>3. EffectsInv' /\ TraceInv' /\ UNCHANGED Materialized
    BY <1>1 DEF EffectsInv, TraceInv, Materialized
  <1>4. at' = Len(trace) + 1 /\ Len(trace) \in Nat
    <2>1. FirstStep(card, TRUE) = Len(trace) + 1
      BY <1>1, WalkBegins, Zenon
    <2>2. at' = Len(trace) + 1
      BY <1>1, <2>1, Zenon
    <2>3. TraceInv
      BY <1>1, Zenon
    <2> QED
      BY <2>2, <2>3 DEF TraceInv
  <1>5. at' - 1 = Len(trace') /\ at' \in 1..Len(trace') + 2
    <2>1. trace' = trace
      BY <1>1, Zenon
    <2> QED
      BY <1>4, <2>1
  <1>6. (Walked(at - 1, effects[cur]))'
    <2>1. Carried(trace', Len(trace'), effects'[cur'])
      BY <1>1, <1>2, Zenon
    <2> QED
      BY <1>4, <1>5, <2>1 DEF Walked
  <1> QED
    BY <1>1, <1>3, <1>5, <1>6 DEF PlanInv, RehearsalInv, ExecutionInv

LEMMA ExecuteKeepsPlan ==
  ASSUME BrowserInv, PlanInv, Execute
  PROVE  PlanInv'
  <1>1. /\ pc = "rehearsed" /\ cur # None /\ card' = Materialized
        /\ pc' \in {"probe", "reclose"}
        /\ UNCHANGED <<process, cur, calls, trace, effects>> /\ EffectsInv /\ TraceInv
    BY DEF Execute, PlanInv, BrowserInv, ControlInv
  <1>2. UpTo(effects[cur], calls) /\ Carried(trace, Len(trace), effects[cur])
    BY <1>1 DEF PlanInv, RehearsalInv
  <1>3. EffectsInv' /\ TraceInv' /\ UNCHANGED Materialized
    BY <1>1 DEF EffectsInv, TraceInv, Materialized
  <1> QED
    BY <1>1, <1>2, <1>3 DEF PlanInv, RehearsalInv, ExecutionInv

LEMMA NoScaffoldKeepsPlan ==
  ASSUME PlanInv, NoScaffold
  PROVE  PlanInv'
  <1>1. /\ cur' = None /\ trace' = <<>> /\ pc' = "rehearsed"
        /\ UNCHANGED <<process, calls, effects>>
    BY DEF NoScaffold, sessionVars
  <1>2. EffectsInv' /\ TraceInv'
    BY <1>1 DEF PlanInv, EffectsInv, TraceInv
  <1> QED
    BY <1>1, <1>2 DEF PlanInv, RehearsalInv, ExecutionInv, HasCard

\* The coroutine launches, closes, gives up or goes on with the next round.
LEMMA OthersKeepPlan ==
  ASSUME BrowserInv, PlanInv,
         \/ PreClose \/ PreCloseReturns \/ Rehearse \/ Again \/ ProbeFails \/ Relaunch
         \/ LaunchFails("launch") \/ LaunchFails("relaunch") \/ Finally \/ FinalCloseReturns
  PROVE  PlanInv'
  <1>1. UNCHANGED <<calls, trace, effects, card>>
    BY DEF PreClose, PreCloseReturns, Rehearse, Again, ProbeFails, Relaunch, LaunchFails, Finally,
           FinalCloseReturns, callFrame, walkVars
  <1>2. /\ pc' \notin {"think", "act", "rehearsed", "probe", "walk", "step"}
        /\ pc' \in HasCard => pc \in HasCard
    BY DEF PreClose, PreCloseReturns, Rehearse, Again, ProbeFails, Relaunch, LaunchFails, Finally,
           FinalCloseReturns, CloseCur, LaunchFrom, HasCard
  <1>3. ASSUME NEW s \in Sessions, process'[s] \in {"none", "connecting"}
        PROVE  process[s] \in {"none", "connecting"}
    <2>1. CASE UNCHANGED process
      BY <1>3, <2>1
    <2>2. CASE Rehearse \/ Relaunch
      BY <1>3, <2>2 DEF Rehearse, Relaunch, LaunchFrom, StartLaunch, sessionVars, BrowserInv,
         SessionInv
    <2>3. CASE LaunchFails("launch") \/ LaunchFails("relaunch")
      BY <1>3, <2>3 DEF LaunchFails, ConnectFails, BrowserInv, SessionInv
    <2> QED
      BY <2>1, <2>2, <2>3 DEF PreClose, PreCloseReturns, Again, ProbeFails, Finally,
         FinalCloseReturns, CloseCur, Close, sessionVars
  <1>4. pc \in HasCard => card = Materialized
    BY DEF PlanInv, ExecutionInv
  <1> QED
    BY <1>1, <1>2, <1>3, <1>4, PlanElsewhere

LEMMA WalkKeepsPlan ==
  ASSUME BrowserInv, WalkInv, PlanInv, WalkNext
  PROVE  PlanInv'
  <1>1. CASE WalkThrows \/ EndOfCard
    <2>1. /\ UNCHANGED <<process, calls, trace, effects>> /\ pc' \in {"final", "walked"}
      BY <1>1 DEF WalkThrows, EndOfCard, LeaveWalk, walkFrame
    <2> QED
      BY <2>1, PlanElsewhere DEF HasCard
  <1> QED
    BY <1>1, BeginStepKeepsPlan, ObserveStepKeepsPlan DEF WalkNext

LEMMA PlanInductive == BrowserInv /\ WalkInv /\ PlanInv /\ [Next]_vars => PlanInv'
  <1> SUFFICES ASSUME BrowserInv, WalkInv, PlanInv, [Next]_vars
               PROVE  PlanInv'
    OBVIOUS
  <1>1. CASE Coroutine
    BY <1>1, RunnerKeepsPlan, WalkKeepsPlan, LaunchedKeepsPlan, RelaunchedKeepsPlan,
       ProbeSucceedsKeepsPlan, ExecuteKeepsPlan, NoScaffoldKeepsPlan, OthersKeepPlan DEF Coroutine
  <1>2. CASE UNCHANGED vars
    BY <1>2, PlanFrame DEF vars, sessionVars, runnerVars, walkVars
  <1> QED
    BY <1>1, <1>2, AloneKeepsPlan DEF Next, Done

LEMMA PlanInitially == Init => PlanInv
  <1> SUFFICES ASSUME Init
               PROVE  PlanInv
    OBVIOUS
  <1>1. /\ effects = [s \in Sessions |-> <<>>] /\ trace = <<>> /\ calls = 0 /\ pc = "dry"
    BY DEF Init, RunnerInit
  <1>2. EffectsInv /\ TraceInv
    BY <1>1 DEF EffectsInv, TraceInv
  <1> QED
    BY <1>1, <1>2 DEF PlanInv, RehearsalInv, ExecutionInv, HasCard

\* The destructive click is issued only in a browser that has the recorded
\* actions behind it, each once and in their order, and not yet the click:
\* through any rehearsal, lost answers, aborts, probes and relaunches.
THEOREM PlanBeforeDestruction == Spec => []DestructiveFollowsThePlan
  <1>1. ASSUME BrowserInv, WalkInv, PlanInv, pc = "step", Step.destructive, span.op = "click"
        PROVE  Carried(trace, Len(trace), effects[cur])
    <2>1. /\ TraceInv /\ card = Materialized /\ at \in 1..Len(trace) + 1
          /\ span.op = todo[1]
      BY <1>1 DEF PlanInv, ExecutionInv, HasCard, WalkInv, StepInv
    <2>2. ASSUME at \in 1..Len(trace)
          PROVE  FALSE
      <3>1. Step = [tool |-> trace[at].tool, id |-> trace[at].id, destructive |-> FALSE]
        BY <2>1, <2>2, TheCard DEF Step
      <3>2. ~Step.destructive
        BY <3>1
      <3> QED
        BY <1>1, <3>2
    <2>3. at - 1 = Len(trace) /\ Len(trace) \in Nat
      BY <2>1, <2>2 DEF TraceInv
    <2>4. todo # <<"after">>
      BY <1>1, <2>1
    <2>5. Walked(Len(trace), effects[cur])
      BY <1>1, <2>3, <2>4 DEF PlanInv, ExecutionInv
    <2> QED
      BY <2>3, <2>5 DEF Walked
  <1>2. BrowserInv /\ WalkInv /\ PlanInv => DestructiveFollowsThePlan
    BY <1>1 DEF DestructiveFollowsThePlan
  <1>3. Init => WalkInv
    BY DEF Init, WalkInv
  <1> QED
    BY <1>2, <1>3, BrowserInitially, BrowserInductive, WalkInductive, PlanInitially,
       PlanInductive, PTL DEF Spec

-----------------------------------------------------------------------------
(* Types. The lengths are what is delicate: a browser has at most the run's *)
(* calls behind it when it is rehearsed in, and when it is walked in at     *)
(* most one action more for each step.                                      *)

Pace == pc \in {"think", "act"} => iteration < MaxIterations

GrowthInv ==
  /\ Len(trace) <= calls
  /\ pc = "act" => Len(trace) < calls
  /\ pc \in {"think", "rehearsed", "probe"} /\ cur # None => Len(effects[cur]) <= calls
  /\ pc = "act" => Len(effects[cur]) <= calls - (IF todo[1] = tool THEN 1 ELSE 0)
  /\ pc = "walk" => Len(effects[cur]) <= calls + at - 1
  /\ pc = "step" => Len(effects[cur]) <= calls + at - (IF todo = <<"after">> THEN 0 ELSE 1)

TypesInv == TypeOK /\ Pace /\ GrowthInv

LEMMA SpanOpens ==
  ASSUME cur \in Sessions, stepOf \in [Sessions -> Steps], NEW op \in Ops, OpenSpan(cur, op)
  PROVE  span' \in Spans
  <1>1. span' = [session |-> cur, op |-> op, step |-> stepOf[cur]] /\ stepOf[cur] \in Steps
    BY DEF OpenSpan
  <1> QED
    BY <1>1 DEF Spans

LEMMA OneMoreBehind ==
  ASSUME effects \in [Sessions -> Seq(Ids)], cur \in Sessions, span.session = cur,
         NEW op, NEW id \in Ids, NEW ok \in BOOLEAN, Lands(op, id, ok)
  PROVE  /\ effects' \in [Sessions -> Seq(Ids)]
         /\ Len(effects[cur]) \in Nat /\ Len(effects'[cur]) \in Nat
         /\ Len(effects'[cur]) <= Len(effects[cur]) + 1
         /\ op \notin Changing => effects' = effects
  <1>1. effects[cur] \in Seq(Ids) /\ Append(effects[cur], id) \in Seq(Ids)
    OBVIOUS
  <1>2. Len(Append(effects[cur], id)) = Len(effects[cur]) + 1 /\ Len(effects[cur]) \in Nat
    BY <1>1
  <1>3. CASE op \in Changing /\ effects' = [effects EXCEPT ![cur] = Append(@, id)]
    <2>1. effects' \in [Sessions -> Seq(Ids)] /\ effects'[cur] = Append(effects[cur], id)
      BY <1>1, <1>3
    <2> QED
      BY <1>2, <1>3, <2>1
  <1>4. CASE UNCHANGED effects
    BY <1>2, <1>4
  <1> QED
    BY <1>3, <1>4 DEF Lands

\* The calls of a running tool that are still to return.
LEMMA ActShape ==
  ASSUME BrowserInv, PlanInv, pc = "act"
  PROVE  /\ cur \in Sessions /\ cur # None /\ span.session = cur /\ tool \in Tools
         /\ \/ tool \in {"click", "fillForm"} /\ todo = <<tool, "after", "snapshot">>
            \/ tool \notin {"click", "fillForm"} /\ todo = <<tool>>
            \/ tool \in {"click", "fillForm"} /\ todo = <<"after", "snapshot">>
            \/ tool \in {"click", "fillForm"} /\ todo = <<"snapshot">>
  <1>1. ActInv /\ cur \in Sessions /\ cur # None
    BY DEF PlanInv, RehearsalInv, BrowserInv, ControlInv, Working
  <1> QED
    BY <1>1, ToolCallsOf DEF ActInv

LEMMA ObserveCallTypes ==
  ASSUME BrowserInv, PlanInv, TypesInv, NEW ok \in BOOLEAN, ObserveCall(ok),
         UNCHANGED <<walkVars, workVars>>
  PROVE  TypesInv'
  <1>1. /\ pc = "act" /\ iteration \in 0..MaxIterations /\ iteration < MaxIterations
        /\ calls \in 0..MaxCalls /\ calls \in Nat /\ trace \in Seq(Actions)
        /\ Len(trace) < calls /\ Len(trace) \in Nat
        /\ Len(effects[cur]) <= calls - (IF todo[1] = tool THEN 1 ELSE 0)
        /\ effects \in [Sessions -> Seq(Ids)]
        /\ UNCHANGED <<aborted, process, signal, closed, teardown, profile, stepOf,
                       spilled, cur, boundary, calls>>
    <2>1. pc = "act" /\ UNCHANGED <<aborted, process, signal, closed, teardown, profile, stepOf,
                                    spilled, cur, boundary, calls>>
      BY DEF ObserveCall
    <2>2. RunnerTypeOK /\ Pace /\ GrowthInv
      BY DEF TypesInv, TypeOK
    <2>3. /\ iteration \in 0..MaxIterations /\ calls \in 0..MaxCalls
          /\ trace \in Seq(Actions) /\ effects \in [Sessions -> Seq(Ids)]
      BY <2>2 DEF RunnerTypeOK
    <2>4. calls \in Nat /\ Len(trace) \in Nat
      BY <2>3
    <2> QED
      BY <2>1, <2>2, <2>3, <2>4 DEF Pace, GrowthInv
  <1>2. /\ cur \in Sessions /\ cur # None /\ span.session = cur /\ tool \in Tools
        /\ \/ tool \in {"click", "fillForm"} /\ todo = <<tool, "after", "snapshot">>
           \/ tool \notin {"click", "fillForm"} /\ todo = <<tool>>
           \/ tool \in {"click", "fillForm"} /\ todo = <<"after", "snapshot">>
           \/ tool \in {"click", "fillForm"} /\ todo = <<"snapshot">>
    BY <1>1, ActShape
  <1>3. todo[1] \in Changing => todo[1] = tool
    BY <1>2 DEF Changing
  <1>4. calls \in Ids /\ calls \in 1..MaxCalls
    BY <1>1 DEF Ids
  <1>5. /\ effects' \in [Sessions -> Seq(Ids)] /\ Len(effects'[cur]) \in Nat
        /\ Len(effects'[cur]) <= calls
    <2>1. /\ effects' \in [Sessions -> Seq(Ids)]
          /\ Len(effects[cur]) \in Nat /\ Len(effects'[cur]) \in Nat
          /\ Len(effects'[cur]) <= Len(effects[cur]) + 1
          /\ todo[1] \notin Changing => effects' = effects
      BY <1>1, <1>2, <1>4, OneMoreBehind DEF ObserveCall
    <2> DEFINE n == Len(effects[cur])
               m == Len(effects'[cur])
    <2> HIDE DEF n, m
    <2>4. n \in Nat /\ m \in Nat /\ m <= n + 1 /\ calls \in Nat
      BY <1>1, <2>1 DEF n, m
    <2>5. n <= calls /\ (todo[1] = tool => n <= calls - 1)
      <3>1. n <= calls - (IF todo[1] = tool THEN 1 ELSE 0)
        BY <1>1 DEF n
      <3> QED
        BY <2>4, <3>1
    <2>2. CASE todo[1] \in Changing
      <3>1. m <= calls
        BY <1>3, <2>2, <2>4, <2>5
      <3> QED
        BY <2>1, <3>1 DEF m
    <2>3. CASE todo[1] \notin Changing
      <3>1. m = n
        BY <2>1, <2>3 DEF m, n
      <3> QED
        BY <2>1, <2>5, <3>1 DEF m
    <2> QED
      BY <2>1, <2>2, <2>3
  <1>6. SessionTypeOK /\ WalkTypeOK /\ RunnerTypeOK /\ pc \in Awaits
        /\ round \in 0..MaxRounds /\ next \in Sessions \cup {None} /\ began \in BOOLEAN
    BY DEF TypesInv, TypeOK
  <1>7. WalkTypeOK' /\ round' \in 0..MaxRounds /\ next' \in Sessions \cup {None}
        /\ began' \in BOOLEAN
    BY <1>6 DEF WalkTypeOK, walkVars, workVars
  <1>8. ASSUME span' \in Spans \cup {None}
        PROVE  SessionTypeOK'
    BY <1>1, <1>6, <1>8 DEF SessionTypeOK
  <1>9. ASSUME pc' \in {"think", "rehearsed"}, LoopGoesOn,
               tool' = None, todo' = <<>>, span' = None,
               trace' \in Seq(Actions), Len(trace') <= calls
        PROVE  TypesInv'
    <2>1. iteration' \in 0..MaxIterations /\ Pace'
      BY <1>1, <1>9 DEF LoopGoesOn, Pace
    <2>2. RunnerTypeOK'
      BY <1>1, <1>2, <1>5, <1>6, <1>9, <2>1 DEF RunnerTypeOK
    <2>3. GrowthInv'
      BY <1>1, <1>5, <1>9 DEF GrowthInv
    <2> QED
      BY <1>7, <1>8, <1>9, <2>1, <2>2, <2>3 DEF TypesInv, TypeOK, Awaits
  <1>10. CASE ToolThrows
    BY <1>1, <1>9, <1>10 DEF ToolThrows, LoopGoesOn
  <1>11. CASE ToolReturns
    <2>1. [tool |-> tool, id |-> calls] \in Actions
      BY <1>2, <1>4 DEF Actions
    <2>2. trace' \in Seq(Actions) /\ Len(trace') = Len(trace) + 1
      BY <1>1, <1>11, <2>1 DEF ToolReturns
    <2> QED
      BY <1>1, <1>9, <1>11, <2>2 DEF ToolReturns, LoopGoesOn
  <1>12. CASE /\ Len(todo) > 1
              /\ OpenSpan(cur, todo[2])
              /\ todo' = Tail(todo)
              /\ UNCHANGED <<pc, iteration, tool, trace>>
    <2>1. \/ todo = <<tool, "after", "snapshot">> \/ todo = <<"after", "snapshot">>
      BY <1>2, <1>12
    <2>2. todo[2] \in Ops /\ todo' \in Seq(Ops) /\ todo'[1] \in Ops
      <3>1. tool \in Ops /\ "after" \in Ops /\ "snapshot" \in Ops
        BY <1>2 DEF Ops, Tools
      <3>2. CASE todo = <<tool, "after", "snapshot">>
        <4>1. todo' = <<"after", "snapshot">> /\ todo[2] = "after"
          BY <1>12, <3>2
        <4> QED
          BY <3>1, <4>1
      <3>3. CASE todo = <<"after", "snapshot">>
        <4>1. todo' = <<"snapshot">> /\ todo[2] = "snapshot"
          BY <1>12, <3>3
        <4> QED
          BY <3>1, <4>1
      <3> QED
        BY <2>1, <3>2, <3>3
    <2>3. span' \in Spans
      BY <1>2, <1>6, <1>12, <2>2, SpanOpens DEF SessionTypeOK
    <2>4. RunnerTypeOK'
      BY <1>1, <1>2, <1>5, <1>6, <1>12, <2>2 DEF RunnerTypeOK
    <2>5. todo'[1] # tool'
      <3>1. tool \in {"click", "fillForm"}
        BY <1>2, <1>12
      <3>2. todo'[1] \in {"after", "snapshot"}
        BY <1>12, <2>1
      <3> QED
        BY <1>12, <3>1, <3>2
    <2>6. GrowthInv' /\ Pace'
      <3>1. /\ pc' = "act" /\ calls' = calls /\ trace' = trace /\ cur' = cur
            /\ iteration' = iteration
        BY <1>1, <1>12
      <3>2. calls - 0 = calls
        BY <1>1
      <3>3. GrowthInv'
        BY <1>1, <1>5, <2>5, <3>1, <3>2 DEF GrowthInv
      <3> QED
        BY <1>1, <3>1, <3>3 DEF Pace
    <2> QED
      BY <1>6, <1>7, <1>8, <1>12, <2>3, <2>4, <2>6 DEF TypesInv, TypeOK
  <1> QED
    BY <1>10, <1>11, <1>12 DEF ObserveCall

LEMMA RunnerTypes ==
  ASSUME BrowserInv, PlanInv, TypesInv, RunnerNext, UNCHANGED <<walkVars, workVars>>
  PROVE  TypesInv'
  <1>1. SessionTypeOK /\ WalkTypeOK /\ RunnerTypeOK /\ pc \in Awaits
        /\ round \in 0..MaxRounds /\ next \in Sessions \cup {None} /\ began \in BOOLEAN
    BY DEF TypesInv, TypeOK
  <1>2. WalkTypeOK' /\ round' \in 0..MaxRounds /\ next' \in Sessions \cup {None}
        /\ began' \in BOOLEAN
    BY <1>1 DEF WalkTypeOK, walkVars, workVars
  <1>3. CASE ModelFails
    <2>1. /\ pc' = "final"
          /\ UNCHANGED <<sessionVars, cur, iteration, tool, todo, trace, boundary, calls, effects>>
      BY <1>3 DEF ModelFails
    <2>2. SessionTypeOK' /\ RunnerTypeOK'
      BY <1>1, <2>1 DEF SessionTypeOK, RunnerTypeOK, sessionVars
    <2> QED
      BY <1>2, <2>1, <2>2 DEF TypesInv, TypeOK, Pace, GrowthInv, Awaits
  <1>4. CASE ModelFinishes \/ ModelMisspells \/ ReachBoundary
    <2>1. /\ pc = "think" /\ pc' \in {"think", "rehearsed"} /\ iteration' = iteration + 1
          /\ pc' = "think" => iteration + 1 < MaxIterations
          /\ boundary' \in {boundary, TRUE}
          /\ UNCHANGED <<sessionVars, cur, tool, todo, trace, calls, effects>>
      BY <1>4 DEF ModelFinishes, ModelMisspells, ReachBoundary, Thinking, LoopGoesOn, LeaveLoop
    <2>2. iteration \in 0..MaxIterations /\ iteration < MaxIterations
      BY <1>1, <2>1 DEF RunnerTypeOK, TypesInv, Pace
    <2>3. iteration' \in 0..MaxIterations /\ Pace'
      BY <2>1, <2>2 DEF Pace
    <2>4. SessionTypeOK' /\ RunnerTypeOK'
      BY <1>1, <2>1, <2>3 DEF SessionTypeOK, RunnerTypeOK, sessionVars
    <2>5. GrowthInv'
      BY <2>1 DEF TypesInv, GrowthInv
    <2> QED
      BY <1>2, <2>1, <2>3, <2>4, <2>5 DEF TypesInv, TypeOK, Awaits
  <1>5. ASSUME NEW t \in CalledTools, CallTool(t)
        PROVE  TypesInv'
    <2>1. /\ pc = "think" /\ calls < MaxCalls /\ calls' = calls + 1
          /\ OpenSpan(cur, t) /\ tool' = t /\ todo' = ToolCalls(t) /\ pc' = "act"
          /\ UNCHANGED <<aborted, process, signal, closed, teardown, profile, stepOf,
                         spilled, cur, iteration, trace, boundary, effects>>
      BY <1>5 DEF CallTool, Thinking
    <2>2. t \in Tools /\ t \in Ops /\ cur \in Sessions /\ cur # None
      BY <2>1 DEF IterationAssumption, Ops, BrowserInv, ControlInv, Working
    <2>3. todo' \in Seq(Ops) /\ todo'[1] = t
      <3>1. t \in Ops /\ "after" \in Ops /\ "snapshot" \in Ops
        BY <2>2 DEF Ops, Tools
      <3>2. todo' \in {<<t, "after", "snapshot">>, <<t>>}
        BY <2>1, <2>2, ToolCallsOf
      <3>3. CASE todo' = <<t, "after", "snapshot">>
        BY <3>1, <3>3
      <3>4. CASE todo' = <<t>>
        BY <3>1, <3>4
      <3> QED
        BY <3>2, <3>3, <3>4
    <2>4. SessionTypeOK'
      <3>1. span' \in Spans
        BY <1>1, <2>1, <2>2, SpanOpens DEF SessionTypeOK
      <3> QED
        BY <1>1, <2>1, <3>1 DEF SessionTypeOK
    <2>5. calls \in 0..MaxCalls /\ calls' \in 0..MaxCalls
      BY <1>1, <2>1 DEF RunnerTypeOK
    <2>6. RunnerTypeOK'
      BY <1>1, <2>1, <2>2, <2>3, <2>5 DEF RunnerTypeOK
    <2>7. GrowthInv' /\ Pace'
      <3>1. Len(effects[cur]) <= calls /\ Len(trace) <= calls
        BY <2>1, <2>2 DEF TypesInv, GrowthInv
      <3>2. Len(effects[cur]) \in Nat /\ Len(trace) \in Nat
        BY <1>1, <2>2 DEF RunnerTypeOK
      <3> QED
        BY <2>1, <2>2, <2>3, <2>5, <3>1, <3>2 DEF TypesInv, GrowthInv, Pace
    <2> QED
      BY <1>2, <2>1, <2>4, <2>6, <2>7 DEF TypesInv, TypeOK, Awaits
  <1> QED
    BY <1>3, <1>4, <1>5, ObserveCallTypes DEF RunnerNext

\* A walk never goes beyond the card, and so a browser's changes are bounded.
LEMMA WalkLength ==
  ASSUME BrowserInv, PlanInv, TypesInv, pc \in {"walk", "step"}
  PROVE  /\ cur \in Sessions /\ cur # None /\ Changes \in Nat
         /\ Changes <= 2 * MaxSteps /\ Changes \in 0..2 * MaxSteps
         /\ at \in Nat /\ calls \in Nat /\ Len(trace) \in Nat
         /\ card = Materialized
         /\ pc = "step" => at \in 1..Len(trace) + 1 /\ at + 1 <= MaxSteps + 1
  <1>1. RunnerTypeOK /\ GrowthInv
    BY DEF TypesInv, TypeOK
  <1>2. cur \in Sessions /\ cur # None
    BY DEF BrowserInv, ControlInv, Working
  <1>3. /\ calls \in 0..MaxCalls /\ Len(trace) \in Nat /\ Changes \in Nat
        /\ Len(trace) <= calls
    BY <1>1, <1>2 DEF RunnerTypeOK, GrowthInv, Changes
  <1>4. /\ card = Materialized
        /\ pc = "walk" => at \in 1..Len(trace) + 2
        /\ pc = "step" => at \in 1..Len(trace) + 1
    BY DEF PlanInv, ExecutionInv, HasCard
  <1>5. MaxSteps = MaxCalls + 1 /\ MaxCalls \in Nat
    BY DEF MaxSteps, IterationAssumption
  <1>6. CASE pc = "walk"
    <2>1. Changes <= calls + at - 1
      BY <1>1, <1>6 DEF GrowthInv, Changes
    <2> QED
      BY <1>2, <1>3, <1>4, <1>5, <1>6, <2>1
  <1>7. CASE pc = "step"
    <2>1. Changes <= calls + at - (IF todo = <<"after">> THEN 0 ELSE 1)
      BY <1>1, <1>7 DEF GrowthInv, Changes
    <2>2. at \in Nat
      BY <1>3, <1>4, <1>7
    <2>3. Changes <= calls + at
      BY <1>3, <2>1, <2>2
    <2> QED
      BY <1>2, <1>3, <1>4, <1>5, <1>7, <2>3
  <1> QED
    BY <1>6, <1>7

\* The step the walk stands at is one of the card's.
LEMMA StepTypes ==
  ASSUME BrowserInv, PlanInv, TypesInv, pc \in {"walk", "step"}, at \in 1..Len(trace) + 1
  PROVE  Step.tool \in Tools /\ Step.id \in Ids
  <1>1. TraceInv /\ card = Materialized /\ trace \in Seq(Actions) /\ MaxCalls \in Nat
    BY WalkLength DEF PlanInv, TypesInv, TypeOK, RunnerTypeOK, IterationAssumption
  <1>2. Step.tool \in Tools
    BY <1>1, TheStep
  <1>3. CASE at \in 1..Len(trace)
    <2>1. Step.id = trace[at].id /\ trace[at] \in Actions
      BY <1>1, <1>3, TheStep
    <2> QED
      BY <1>1, <1>2, <2>1 DEF Actions, Ids
  <1>4. CASE at = Len(trace) + 1
    <2>1. Step = [tool |-> "click", id |-> 0, destructive |-> TRUE]
      BY <1>1, <1>4, TheCard DEF Step
    <2> QED
      BY <1>1, <1>2, <2>1 DEF Ids
  <1>5. Len(trace) \in Nat
    BY <1>1
  <1> QED
    BY <1>3, <1>4, <1>5

\* What a walk leaves when it is over.
LEMMA LeaveTypes ==
  ASSUME TypesInv, NEW to \in {"walked", "final"}, LeaveWalk(to), UNCHANGED walkFrame,
         UNCHANGED workVars, effects' \in [Sessions -> Seq(Ids)]
  PROVE  TypesInv'
  <1>1. /\ pc' = to /\ at' = 1 /\ lastSnap' = None /\ refsFrom' = None
        /\ tool' = None /\ todo' = <<>> /\ span' = None
        /\ UNCHANGED <<aborted, process, signal, closed, teardown, profile, stepOf,
                       spilled, cur, iteration, trace, boundary, calls, card>>
        /\ UNCHANGED <<round, next, began>>
    BY DEF LeaveWalk, walkFrame, workVars
  <1>2. SessionTypeOK'
    BY <1>1 DEF TypesInv, TypeOK, SessionTypeOK
  <1>3. RunnerTypeOK'
    BY <1>1 DEF TypesInv, TypeOK, RunnerTypeOK
  <1>4. MaxSteps \in Nat
    BY DEF MaxSteps, IterationAssumption
  <1>5. WalkTypeOK'
    BY <1>1, <1>4 DEF TypesInv, TypeOK, WalkTypeOK
  <1>6. pc' \in Awaits /\ Pace'
    BY <1>1 DEF Awaits, Pace
  <1>7. GrowthInv'
    BY <1>1 DEF GrowthInv, TypesInv
  <1> QED
    BY <1>1, <1>2, <1>3, <1>5, <1>6, <1>7 DEF TypesInv, TypeOK

LEMMA BeginStepTypes ==
  ASSUME BrowserInv, WalkInv, WalkInv', PlanInv, TypesInv, BeginStep, UNCHANGED workVars
  PROVE  TypesInv'
  <1>1. pc = "walk" /\ at <= Len(card) /\ UNCHANGED walkFrame /\ UNCHANGED effects
    BY DEF BeginStep
  <1>2. /\ UNCHANGED <<aborted, process, signal, closed, teardown, profile, stepOf,
                       spilled, cur, iteration, trace, boundary, calls, card>>
        /\ UNCHANGED <<round, next, began>>
    BY <1>1 DEF walkFrame, workVars
  <1>3. effects' \in [Sessions -> Seq(Ids)]
    BY <1>1 DEF TypesInv, TypeOK, RunnerTypeOK
  <1>4. /\ cur \in Sessions /\ cur # None /\ Changes \in 0..2 * MaxSteps
        /\ at \in Nat /\ calls \in Nat /\ Len(trace) \in Nat /\ card = Materialized
    BY <1>1, WalkLength
  <1>5. CASE StopWalk
    BY <1>1, <1>3, <1>5, LeaveTypes DEF StopWalk
  <1>6. CASE /\ OpenSpan(cur, StepCalls[1])
             /\ tool' = Step.tool
             /\ todo' = StepCalls
             /\ pc' = "step"
             /\ refsFrom' = IF NeedsRefs(Step.tool) THEN lastSnap ELSE refsFrom
             /\ UNCHANGED <<at, lastSnap>>
    <2>1. at \in 1..Len(trace) + 1
      <3>1. TraceInv /\ at >= 1
        BY <1>1 DEF PlanInv, ExecutionInv
      <3> QED
        BY <1>1, <1>4, <3>1, TheCard
    <2>2. Step.tool \in Tools
      BY <1>1, <2>1, StepTypes
    <2>3. StepCalls \in Seq(Ops) /\ StepCalls[1] \in Ops
      <3>1. Step.tool \in Ops /\ "after" \in Ops /\ "snapshot" \in Ops
        BY <2>2 DEF Ops, Tools
      <3>2. MethodCalls(Step.tool) \in {<<Step.tool, "after">>, <<Step.tool>>}
        BY DEF MethodCalls
      <3>3. CASE NeedsRefs(Step.tool) /\ lastSnap = None
        <4>1. MethodCalls(Step.tool) = <<Step.tool, "after">>
          BY <3>3 DEF MethodCalls, NeedsRefs
        <4>2. StepCalls = <<"snapshot">> \o <<Step.tool, "after">>
          BY <3>3, <4>1 DEF StepCalls
        <4>3. StepCalls = <<"snapshot", Step.tool, "after">>
          BY <3>1, <4>2, OneBeforeTwo
        <4> QED
          BY <3>1, <4>3
      <3>4. CASE ~(NeedsRefs(Step.tool) /\ lastSnap = None)
        <4>1. StepCalls = MethodCalls(Step.tool)
          BY <3>4 DEF StepCalls
        <4>2. CASE StepCalls = <<Step.tool, "after">>
          BY <3>1, <4>2
        <4>3. CASE StepCalls = <<Step.tool>>
          BY <3>1, <4>3
        <4> QED
          BY <3>2, <4>1, <4>2, <4>3
      <3> QED
        BY <3>3, <3>4
    <2>4. SessionTypeOK'
      <3>1. SessionTypeOK
        BY DEF TypesInv, TypeOK
      <3>2. span' \in Spans
        BY <1>4, <1>6, <2>3, <3>1, SpanOpens DEF SessionTypeOK
      <3> QED
        BY <1>2, <3>1, <3>2 DEF SessionTypeOK
    <2>5. RunnerTypeOK'
      BY <1>2, <1>3, <1>6, <2>2, <2>3 DEF TypesInv, TypeOK, RunnerTypeOK
    <2>6. WalkTypeOK'
      BY <1>2, <1>6 DEF TypesInv, TypeOK, WalkTypeOK
    <2>7. GrowthInv' /\ Pace'
      <3>1. Changes <= calls + at - 1 /\ Len(trace) <= calls
        BY <1>1 DEF TypesInv, GrowthInv, Changes
      <3>2. Changes <= calls + at - (IF todo' = <<"after">> THEN 0 ELSE 1)
        BY <1>4, <3>1
      <3> QED
        BY <1>1, <1>2, <1>6, <3>1, <3>2 DEF GrowthInv, Pace, Changes
    <2> QED
      BY <1>2, <1>6, <2>4, <2>5, <2>6, <2>7 DEF TypesInv, TypeOK, Awaits
  <1> QED
    BY <1>5, <1>6 DEF BeginStep

LEMMA ObserveStepTypes ==
  ASSUME BrowserInv, WalkInv, PlanInv, TypesInv, NEW ok \in BOOLEAN, ObserveStep(ok),
         UNCHANGED workVars
  PROVE  TypesInv'
  <1>1. /\ pc = "step" /\ StepInv /\ Lands(todo[1], Step.id, ok) /\ UNCHANGED walkFrame
        /\ span.session = cur /\ at \in 1..Len(trace) + 1
    BY DEF ObserveStep, WalkInv, PlanInv, ExecutionInv
  <1>2. /\ UNCHANGED <<aborted, process, signal, closed, teardown, profile, stepOf,
                       spilled, cur, iteration, trace, boundary, calls, card>>
        /\ UNCHANGED <<round, next, began>>
    BY <1>1 DEF walkFrame, workVars
  <1>3. /\ cur \in Sessions /\ cur # None /\ Changes \in 0..2 * MaxSteps
        /\ at \in Nat /\ calls \in Nat /\ Len(trace) \in Nat
        /\ at + 1 <= MaxSteps + 1
    BY <1>1, WalkLength
  <1>4. Step.tool \in Tools /\ Step.id \in Ids
    BY <1>1, StepTypes
  <1>5. SessionTypeOK /\ RunnerTypeOK /\ WalkTypeOK
    BY DEF TypesInv, TypeOK
  <1> DEFINE n == Len(effects[cur])
             m == Len(effects'[cur])
  <1> HIDE DEF n, m
  <1>6. /\ effects' \in [Sessions -> Seq(Ids)] /\ n \in Nat /\ m \in Nat /\ m <= n + 1
        /\ todo[1] \notin Changing => m = n
    BY <1>1, <1>3, <1>4, <1>5, OneMoreBehind DEF RunnerTypeOK, n, m
  <1>7. /\ n <= calls + at - (IF todo = <<"after">> THEN 0 ELSE 1)
        /\ Len(trace) <= calls
    BY <1>1 DEF TypesInv, GrowthInv, n
  <1>8. m <= calls + at
    <2>1. CASE todo = <<"after">>
      <3>1. todo[1] = "after"
        BY <2>1
      <3>2. m = n
        BY <1>6, <3>1 DEF Changing
      <3> QED
        BY <1>3, <1>7, <2>1, <3>2
    <2>2. CASE todo # <<"after">>
      <3>1. n <= calls + at - 1
        BY <1>7, <2>2
      <3> QED
        BY <1>3, <1>6, <3>1
    <2> QED
      BY <2>1, <2>2
  <1>9. CASE StopWalk
    BY <1>1, <1>6, <1>9, LeaveTypes DEF StopWalk
  <1>10. CASE StepReturns
    <2>1. /\ at' = at + 1 /\ lastSnap' = SnapAfter /\ pc' = "walk" /\ refsFrom' = None
          /\ tool' = None /\ todo' = <<>> /\ span' = None
      BY <1>10 DEF StepReturns
    <2>2. SessionTypeOK'
      BY <1>2, <1>5, <2>1 DEF SessionTypeOK
    <2>3. RunnerTypeOK'
      BY <1>2, <1>5, <1>6, <2>1 DEF RunnerTypeOK
    <2>4. SnapAfter \in {None, lastSnap, Changes}
      BY DEF SnapAfter
    <2>5. at' \in 1..MaxSteps + 1
      BY <1>3, <2>1 DEF MaxSteps, IterationAssumption
    <2>6. WalkTypeOK'
      BY <1>2, <1>3, <1>5, <2>1, <2>4, <2>5 DEF WalkTypeOK
    <2>7. calls + at' - 1 = calls + at
      BY <1>3, <2>1
    <2>8. GrowthInv' /\ Pace'
      BY <1>2, <1>7, <1>8, <2>1, <2>7 DEF GrowthInv, Pace, m
    <2> QED
      BY <1>2, <2>1, <2>2, <2>3, <2>6, <2>8 DEF TypesInv, TypeOK, Awaits
  <1>11. CASE /\ Len(todo) > 1
              /\ OpenSpan(cur, todo[2])
              /\ todo' = Tail(todo)
              /\ lastSnap' \in {Changes, lastSnap}
              /\ refsFrom' \in {Changes, refsFrom}
              /\ UNCHANGED <<pc, tool, at>>
    <2>1. \/ todo = <<"snapshot", Step.tool, "after">>
          \/ todo = <<Step.tool, "after">>
      BY <1>1, <1>11 DEF StepInv
    <2>2. /\ todo[2] \in Ops /\ todo' \in Seq(Ops)
          /\ todo' = <<"after">> \/ todo[1] = "snapshot"
      <3>1. Step.tool \in Ops /\ "after" \in Ops /\ "snapshot" \in Ops
        BY <1>4 DEF Ops, Tools
      <3>2. CASE todo = <<"snapshot", Step.tool, "after">>
        <4>1. todo' = <<Step.tool, "after">> /\ todo[2] = Step.tool /\ todo[1] = "snapshot"
          BY <1>11, <3>2
        <4> QED
          BY <3>1, <4>1
      <3>3. CASE todo = <<Step.tool, "after">>
        <4>1. todo' = <<"after">> /\ todo[2] = "after"
          BY <1>11, <3>3
        <4> QED
          BY <3>1, <4>1
      <3> QED
        BY <2>1, <3>2, <3>3
    <2>3. SessionTypeOK'
      <3>1. span' \in Spans
        BY <1>3, <1>5, <1>11, <2>2, SpanOpens DEF SessionTypeOK
      <3> QED
        BY <1>2, <1>5, <3>1 DEF SessionTypeOK
    <2>4. RunnerTypeOK'
      BY <1>2, <1>5, <1>6, <1>11, <2>2 DEF RunnerTypeOK
    <2>5. WalkTypeOK'
      BY <1>2, <1>3, <1>5, <1>11 DEF WalkTypeOK
    <2>6. m <= calls + at - (IF todo' = <<"after">> THEN 0 ELSE 1)
      <3>1. CASE todo' = <<"after">>
        BY <1>3, <1>8, <3>1
      <3>2. CASE todo[1] = "snapshot"
        <4>1. m = n /\ todo # <<"after">>
          BY <1>6, <3>2 DEF Changing
        <4> QED
          BY <1>3, <1>6, <1>7, <4>1
      <3> QED
        BY <2>2, <3>1, <3>2
    <2>7. GrowthInv' /\ Pace'
      BY <1>1, <1>2, <1>7, <1>11, <2>6 DEF GrowthInv, Pace, m
    <2> QED
      BY <1>1, <1>2, <1>11, <2>3, <2>4, <2>5, <2>7 DEF TypesInv, TypeOK, Awaits
  <1> QED
    BY <1>9, <1>10, <1>11 DEF ObserveStep

LEMMA WalkTypes ==
  ASSUME BrowserInv, WalkInv, WalkInv', PlanInv, TypesInv, WalkNext, UNCHANGED workVars
  PROVE  TypesInv'
  <1>1. CASE WalkThrows \/ EndOfCard
    <2>1. \E to \in {"walked", "final"} : LeaveWalk(to)
      BY <1>1 DEF WalkThrows, EndOfCard
    <2>2. UNCHANGED walkFrame /\ effects' \in [Sessions -> Seq(Ids)]
      BY <1>1 DEF WalkThrows, EndOfCard, TypesInv, TypeOK, RunnerTypeOK
    <2> QED
      BY <2>1, <2>2, LeaveTypes
  <1> QED
    BY <1>1, BeginStepTypes, ObserveStepTypes DEF WalkNext

\* What every step of the sessions keeps, on top of BrowserInv.
SessionRest ==
  /\ signal \in [Sessions -> BOOLEAN] /\ profile \in Sessions \cup {None}
  /\ stepOf \in [Sessions -> Steps] /\ span \in Spans \cup {None}
  /\ spilled \subseteq {"chromium", "profile"}
  /\ began \in BOOLEAN

LEMMA RestSplits == TypesInv => SessionRest
  BY DEF TypesInv, TypeOK, SessionTypeOK, SessionRest

LEMMA RestJoins ==
  ASSUME BrowserInv', SessionRest', RunnerTypeOK', WalkTypeOK'
  PROVE  TypeOK'
  BY DEF TypeOK, SessionTypeOK, SessionRest, BrowserInv, SessionInv, ControlInv, CountInv

\* Sessions are closed, die and are cleaned up beside the coroutine.
LEMMA AloneTypes ==
  ASSUME BrowserInv', TypesInv, ByItself \/ UNCHANGED vars
  PROVE  TypesInv'
  <1>1. /\ UNCHANGED <<pc, cur, iteration, tool, todo, trace, boundary, calls, effects>>
        /\ UNCHANGED <<card, at, lastSnap, refsFrom, began, span, stepOf, signal>>
    BY DEF ByItself, SessionNext, Abort, KillTree, RemoveProfile, Crash, vars, sessionVars,
           runnerVars, walkVars, workVars
  <1>2. /\ profile' \in {profile, None}
        /\ spilled' \in {spilled, spilled \cup {"chromium"}, spilled \cup {"profile"}}
    BY DEF ByItself, SessionNext, Abort, KillTree, RemoveProfile, Crash, vars, sessionVars
  <1>3. SessionRest'
    <2>1. SessionRest
      BY RestSplits
    <2> QED
      BY <1>1, <1>2, <2>1 DEF SessionRest
  <1>4. RunnerTypeOK' /\ WalkTypeOK'
    BY <1>1 DEF TypesInv, TypeOK, RunnerTypeOK, WalkTypeOK
  <1>5. TypeOK'
    BY <1>3, <1>4, RestJoins
  <1>6. Pace' /\ GrowthInv'
    BY <1>1 DEF TypesInv, Pace, GrowthInv
  <1> QED
    BY <1>5, <1>6 DEF TypesInv

\* The coroutine closes, launches and waits.
LEMMA BetweenTypes ==
  ASSUME BrowserInv', TypesInv, SessionRest',
         UNCHANGED <<iteration, tool, todo, calls, effects>>,
         trace' \in {trace, <<>>}, boundary' \in BOOLEAN, WalkTypeOK',
         pc' \notin {"think", "act", "walk", "step"},
         pc' \in {"rehearsed", "probe"} /\ cur' # None => cur' = cur /\ pc = "rehearsed"
  PROVE  TypesInv'
  <1>1. RunnerTypeOK /\ GrowthInv
    BY DEF TypesInv, TypeOK
  <1>2. trace' \in Seq(Actions) /\ Len(trace') <= calls
    <2>1. <<>> \in Seq(Actions) /\ Len(<<>>) = 0 /\ calls >= 0
      BY <1>1 DEF RunnerTypeOK
    <2> QED
      BY <1>1, <2>1 DEF RunnerTypeOK, GrowthInv
  <1>3. RunnerTypeOK'
    BY <1>1, <1>2 DEF RunnerTypeOK, BrowserInv, ControlInv
  <1>4. TypeOK'
    BY <1>3, RestJoins
  <1>5. Pace' /\ GrowthInv'
    BY <1>1, <1>2 DEF Pace, GrowthInv
  <1> QED
    BY <1>4, <1>5 DEF TypesInv

\* A new browser has nothing behind it.
LEMMA NewBrowserTypes ==
  ASSUME BrowserInv, BrowserInv', PlanInv, TypesInv, Connect(next), next # None,
         cur' = next, began' = began, UNCHANGED <<tool, todo, calls, effects>>,
         trace' \in {trace, <<>>}, boundary' \in BOOLEAN, WalkTypeOK',
         \/ pc' = "think" /\ iteration' = 0
         \/ pc' = "walk" /\ iteration' = iteration /\ at' = 1
  PROVE  TypesInv'
  <1>1. RunnerTypeOK /\ GrowthInv /\ SessionRest
    BY RestSplits DEF TypesInv, TypeOK
  <1>2. next \in Sessions /\ effects[next] = <<>>
    BY DEF BrowserInv, ControlInv, PlanInv, EffectsInv
  <1>3. SessionRest'
    BY <1>1, <1>2 DEF Connect, SessionRest
  <1>4. calls \in Nat /\ 0 <= calls /\ <<>> \in Seq(Actions) /\ Len(<<>>) = 0
    BY <1>1 DEF RunnerTypeOK
  <1>5. trace' \in Seq(Actions) /\ Len(trace') <= calls
    BY <1>1, <1>4 DEF RunnerTypeOK, GrowthInv
  <1>6. RunnerTypeOK'
    BY <1>1, <1>2, <1>5 DEF RunnerTypeOK, IterationAssumption
  <1>7. TypeOK'
    BY <1>3, <1>6, RestJoins
  <1>8. Pace'
    BY DEF Pace, IterationAssumption
  <1>9. GrowthInv'
    BY <1>2, <1>4, <1>5 DEF GrowthInv
  <1> QED
    BY <1>7, <1>8, <1>9 DEF TypesInv

\* The walk begins in a browser that answered.
LEMMA ProbeSucceedsTypes ==
  ASSUME BrowserInv', PlanInv', TypesInv, ProbeSucceeds, BrowserInv
  PROVE  TypesInv'
  <1>1. /\ pc = "probe" /\ pc' = "walk" /\ span' = None /\ lastSnap' = None
        /\ UNCHANGED <<signal, profile, stepOf, spilled, cur, iteration, tool, todo, trace,
                       boundary, calls, effects, card, refsFrom, began>>
    BY DEF ProbeSucceeds, BeginWalk, workVars
  <1>2. RunnerTypeOK /\ GrowthInv /\ SessionRest /\ WalkTypeOK
    BY RestSplits DEF TypesInv, TypeOK
  <1>3. cur \in Sessions /\ cur # None
    BY <1>1 DEF BrowserInv, ControlInv, Working
  <1>4. Len(effects[cur]) \in Nat /\ Len(effects[cur]) <= calls /\ calls \in 0..MaxCalls
        /\ Len(trace) \in Nat /\ Len(trace) <= calls
    BY <1>1, <1>2, <1>3 DEF RunnerTypeOK, GrowthInv
  <1>5. at' \in 1..Len(trace) + 2
    BY <1>1 DEF PlanInv, ExecutionInv
  <1>6. at' \in 1..MaxSteps + 1
    BY <1>4, <1>5 DEF MaxSteps, IterationAssumption
  <1>7. WalkTypeOK'
    BY <1>1, <1>2, <1>6 DEF WalkTypeOK
  <1>8. SessionRest' /\ RunnerTypeOK'
    BY <1>1, <1>2 DEF SessionRest, RunnerTypeOK
  <1>9. TypeOK'
    BY <1>7, <1>8, RestJoins
  <1>10. GrowthInv' /\ Pace'
    BY <1>1, <1>4, <1>5 DEF GrowthInv, Pace
  <1> QED
    BY <1>9, <1>10 DEF TypesInv

\* The card made of a rehearsal is no longer than what was recorded, and the
\* click.
LEMMA CardTypes ==
  ASSUME TypesInv
  PROVE  Materialized \in Seq(CardSteps)
  <1> DEFINE made == [i \in 1..Len(trace) |->
                        [tool |-> trace[i].tool, id |-> trace[i].id, destructive |-> FALSE]]
             last == [tool |-> "click", id |-> 0, destructive |-> TRUE]
  <1>1. trace \in Seq(Actions) /\ Len(trace) \in Nat /\ MaxCalls \in Nat
    BY DEF TypesInv, TypeOK, RunnerTypeOK, IterationAssumption
  <1>2. \A i \in 1..Len(trace) : trace[i].tool \in Tools /\ trace[i].id \in Ids
    <2>1. \A i \in 1..Len(trace) : trace[i] \in Actions
      BY <1>1
    <2>2. \A i \in 1..Len(trace) : trace[i].tool \in Tools /\ trace[i].id \in 1..MaxCalls
      BY <2>1 DEF Actions
    <2> QED
      BY <1>1, <2>2 DEF Ids
  <1>3. \A i \in 1..Len(trace) : made[i] \in CardSteps
    BY <1>2 DEF CardSteps
  <1>4. made \in Seq(CardSteps)
    BY <1>1, <1>3
  <1>5. last \in CardSteps
    BY <1>1 DEF CardSteps, Ids, Tools
  <1>6. Materialized = Append(made, last)
    BY DEF Materialized
  <1> HIDE DEF made, last
  <1> QED
    BY <1>4, <1>5, <1>6

LEMMA CoroutineTypes ==
  ASSUME BrowserInv, BrowserInv', WalkInv, WalkInv', PlanInv, PlanInv', TypesInv, Coroutine
  PROVE  TypesInv'
  <1>1. RunnerTypeOK /\ SessionRest /\ WalkTypeOK
    BY RestSplits DEF TypesInv, TypeOK
  <1>2. ASSUME UNCHANGED walkVars
        PROVE  WalkTypeOK'
    BY <1>1, <1>2 DEF WalkTypeOK, walkVars
  <1>3. closed \in [Sessions -> BOOLEAN] /\ cur \in Sessions \cup {None}
    BY DEF BrowserInv, SessionInv, ControlInv
  <1>4. CASE PreClose \/ Finally \/ ProbeFails
    <2>1. /\ pc' \in {"preclose", "closing", "over", "reclose"}
          /\ UNCHANGED <<cur, signal, profile, stepOf, spilled>>
          /\ UNCHANGED callFrame /\ UNCHANGED round
          /\ span' \in {span, None}
          /\ began' = began \/ (cur # None /\ began' = ~closed[cur])
      <3>1. CASE PreClose
        BY <3>1 DEF PreClose, CloseCur, Close
      <3>2. CASE Finally
        <4>1. CASE cur # None /\ CloseCur("closing")
          BY <3>2, <4>1 DEF Finally, CloseCur, Close
        <4>2. CASE pc' = "over" /\ UNCHANGED <<sessionVars, began>>
          <5>1. /\ UNCHANGED <<signal, profile, stepOf, spilled, span>> /\ began' = began
                /\ pc' = "over"
            BY <4>2 DEF sessionVars
          <5>2. cur' = cur /\ callFrame' = callFrame /\ round' = round
            BY <3>2 DEF Finally
          <5> QED
            BY <5>1, <5>2
        <4> QED
          BY <3>2, <4>1, <4>2 DEF Finally
      <3>3. CASE ProbeFails
        <4>1. cur # None
          BY <3>3 DEF ProbeFails, BrowserInv, ControlInv, Working
        <4> QED
          BY <3>3, <4>1 DEF ProbeFails
      <3> QED
        BY <1>4, <3>1, <3>2, <3>3
    <2>2. began' \in BOOLEAN
      BY <1>1, <1>3, <2>1 DEF SessionRest
    <2>3. SessionRest'
      BY <1>1, <2>1, <2>2 DEF SessionRest
    <2>4. UNCHANGED <<iteration, tool, todo, trace, boundary, calls, effects, walkVars>>
      BY <2>1 DEF callFrame
    <2> QED
      BY <1>1, <1>2, <2>1, <2>3, <2>4, BetweenTypes DEF RunnerTypeOK
  <1>5. CASE PreCloseReturns \/ FinalCloseReturns \/ Again
    <2>1. /\ pc' \in {"dry", "over", "final"} /\ began' \in {began, FALSE}
          /\ UNCHANGED sessionVars
          /\ UNCHANGED <<iteration, tool, todo, trace, boundary, calls, effects, walkVars>>
      BY <1>5 DEF PreCloseReturns, FinalCloseReturns, Again, callFrame, workVars
    <2>2. SessionRest'
      BY <1>1, <2>1 DEF SessionRest, sessionVars
    <2> QED
      BY <1>1, <1>2, <2>1, <2>2, BetweenTypes DEF RunnerTypeOK
  <1>6. CASE NoScaffold
    <2>1. /\ pc' = "rehearsed" /\ cur' = None /\ trace' = <<>> /\ boundary' = FALSE
          /\ UNCHANGED sessionVars /\ UNCHANGED began
          /\ UNCHANGED <<iteration, tool, todo, calls, effects, walkVars>>
      BY <1>6 DEF NoScaffold
    <2>2. SessionRest'
      BY <1>1, <2>1 DEF SessionRest, sessionVars
    <2> QED
      BY <1>2, <2>1, <2>2, BetweenTypes
  <1>7. CASE Rehearse \/ Relaunch \/ LaunchFails("launch") \/ LaunchFails("relaunch")
    <2>1. /\ pc' \in {"launch", "final", "relaunch"}
          /\ began' \in {began, FALSE} /\ UNCHANGED callFrame
          /\ UNCHANGED <<profile, span, spilled>>
          /\ \/ UNCHANGED <<signal, stepOf>>
             \/ \E step \in Steps, flag \in BOOLEAN :
                  /\ signal' = [signal EXCEPT ![Fresh] = flag]
                  /\ stepOf' = [stepOf EXCEPT ![Fresh] = step]
      BY <1>7 DEF Rehearse, Relaunch, LaunchFails, LaunchFrom, StartLaunch, ConnectFails,
                  sessionVars, Steps
    <2>2. signal' \in [Sessions -> BOOLEAN] /\ stepOf' \in [Sessions -> Steps]
      BY <1>1, <2>1 DEF SessionRest
    <2>3. SessionRest'
      BY <1>1, <2>1, <2>2 DEF SessionRest
    <2>4. UNCHANGED <<iteration, tool, todo, trace, boundary, calls, effects, walkVars>>
      BY <2>1 DEF callFrame
    <2> QED
      BY <1>1, <1>2, <2>1, <2>3, <2>4, BetweenTypes DEF RunnerTypeOK
  <1>8. CASE Execute
    <2>1. /\ pc = "rehearsed" /\ pc' \in {"probe", "reclose"} /\ began' = FALSE
          /\ card' = Materialized /\ stepOf' = [stepOf EXCEPT ![cur] = "execute"]
          /\ \/ UNCHANGED span
             \/ span' = [session |-> cur, op |-> "snapshot", step |-> "execute"]
          /\ UNCHANGED <<signal, profile, spilled, cur, iteration, tool, todo, trace, boundary,
                         calls, effects, at, lastSnap, refsFrom>>
      BY <1>8 DEF Execute
    <2>2. cur \in Sessions
      BY <1>3, <1>8 DEF Execute, BrowserInv, ControlInv
    <2>3. [session |-> cur, op |-> "snapshot", step |-> "execute"] \in Spans
      BY <2>2 DEF Spans, Ops, Tools, Steps
    <2>4. stepOf' \in [Sessions -> Steps]
      BY <1>1, <2>1 DEF SessionRest, Steps
    <2>5. SessionRest'
      BY <1>1, <2>1, <2>3, <2>4 DEF SessionRest
    <2>6. WalkTypeOK'
      BY <1>1, <2>1, CardTypes DEF WalkTypeOK
    <2> QED
      BY <1>1, <2>1, <2>5, <2>6, BetweenTypes DEF RunnerTypeOK
  <1>9. CASE Launched
    <2>1. /\ pc = "launch" /\ pc' = "think" /\ Connect(next) /\ cur' = next /\ iteration' = 0
          /\ trace' = <<>> /\ boundary' = FALSE /\ UNCHANGED walkVars /\ began' = began
          /\ UNCHANGED <<tool, todo, calls, effects>>
      BY <1>9 DEF Launched
    <2>2. next # None
      BY <2>1 DEF BrowserInv, ControlInv, Launching
    <2> QED
      BY <1>2, <2>1, <2>2, NewBrowserTypes
  <1>10. CASE Relaunched
    <2>1. /\ pc = "relaunch" /\ pc' = "walk" /\ Connect(next) /\ cur' = next
          /\ at' = 1 /\ lastSnap' = None /\ began' = began
          /\ UNCHANGED <<iteration, tool, todo, trace, boundary, calls, effects, card, refsFrom>>
      BY <1>10 DEF Relaunched, BeginWalk, FirstStep
    <2>2. next # None
      BY <2>1 DEF BrowserInv, ControlInv, Launching
    <2>3. WalkTypeOK'
      BY <1>1, <2>1 DEF WalkTypeOK, MaxSteps, IterationAssumption
    <2> QED
      BY <1>1, <2>1, <2>2, <2>3, NewBrowserTypes DEF RunnerTypeOK
  <1> QED
    BY <1>4, <1>5, <1>6, <1>7, <1>8, <1>9, <1>10, RunnerTypes, WalkTypes, ProbeSucceedsTypes
       DEF Coroutine

LEMMA TypesInitially == Init => TypesInv
  <1> SUFFICES ASSUME Init
               PROVE  TypesInv
    OBVIOUS
  <1>1. SessionInit /\ RunnerInit /\ WalkInit /\ pc = "dry" /\ round = 0 /\ next = None
        /\ began = FALSE
    BY DEF Init
  <1>2. SessionTypeOK
    BY <1>1 DEF SessionInit, SessionTypeOK, Lives, Stages, Steps
  <1>3. RunnerTypeOK
    <2>1. <<>> \in Seq(Actions) /\ <<>> \in Seq(Ids) /\ <<>> \in Seq(Ops)
      OBVIOUS
    <2> QED
      BY <1>1, <2>1, 0 \in 0..MaxCalls, 0 \in 0..MaxIterations
         DEF RunnerInit, RunnerTypeOK, IterationAssumption
  <1>4. WalkTypeOK
    BY <1>1 DEF WalkInit, WalkTypeOK, MaxSteps, IterationAssumption
  <1>5. GrowthInv /\ Pace
    BY <1>1 DEF RunnerInit, GrowthInv, Pace
  <1>6. pc \in Awaits /\ round \in 0..MaxRounds /\ began \in BOOLEAN
    <2>1. 0 \in 0..MaxRounds
      OBVIOUS
    <2> QED
      BY <1>1, <2>1 DEF Awaits
  <1> QED
    BY <1>1, <1>2, <1>3, <1>4, <1>5, <1>6 DEF TypesInv, TypeOK

\* Every variable of a run's browsers keeps its type: no rehearsal takes more
\* iterations than its cap, no walk goes beyond its card, and the changes a
\* browser can have behind it are bounded by the calls and the card.
THEOREM BrowserTypeCorrect == Spec => []TypeOK
  <1>1. TypesInv => TypeOK
    BY DEF TypesInv
  <1>2. Init => WalkInv
    BY DEF Init, WalkInv
  <1>3. BrowserInv /\ BrowserInv' /\ WalkInv /\ WalkInv' /\ PlanInv /\ PlanInv' /\ TypesInv
          /\ [Next]_vars => TypesInv'
    BY CoroutineTypes, AloneTypes DEF Next, Done
  <1> QED
    BY <1>1, <1>2, <1>3, BrowserInitially, BrowserInductive, WalkInductive, PlanInitially,
       PlanInductive, TypesInitially, PTL DEF Spec
=============================================================================
