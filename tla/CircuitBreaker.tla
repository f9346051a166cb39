---------------------------- MODULE CircuitBreaker ----------------------------
(***************************************************************************)
(* The circuit breaker every call to the model goes through: three states, *)
(* a sliding window of failures, one probe after the cooldown, and a retry *)
(* loop inside each call, which a user's cancellation or the call's own    *)
(* deadline cuts short.  Calls overlap: the breaker is shared by all runs. *)
(*                                                                         *)
(* now is a clock of coarse ticks.  A call's deadline may fire at any time *)
(* while the call is under way.                                            *)
(***************************************************************************)
EXTENDS Naturals, FiniteSets

CONSTANTS
  Calls,             \* one call of execute each
  Attempts,          \* retry.attempts
  FailureThreshold,  \* breaker.failureThreshold
  Window,            \* breaker.windowMs, in ticks
  Cooldown,          \* breaker.cooldownMs, in ticks
  MaxTime,           \* bound: the clock
  None

ASSUME CircuitAssumption ==
  /\ Attempts \in Nat \ {0}
  /\ FailureThreshold \in Nat \ {0}
  /\ Window \in Nat /\ Cooldown \in Nat /\ MaxTime \in Nat
  /\ None \notin Nat

\* what an attempt can end with: "unsafe" is an error marked streamResumeNotSafe,
\* "abort" the end of an aborted request, "deadline" the deadline's own error
Errors == {"transient", "fatal", "unsafe", "abort", "deadline"}

VARIABLES
  state, failures, openedAt, halfOpenInFlight,   \* the breaker
  now,
  pc,            \* of each call: idle, calling, waiting, done
  initialState,  \* the breaker's state when the call was let through
  attempt,
  cancelled,     \* ctx.signal was aborted
  signal,        \* why the call's own AbortController was aborted, if it was
  result,        \* how the call ended
  recent         \* history: all failures counted since the last close

breakerVars == <<state, failures, openedAt, halfOpenInFlight, recent>>
callVars == <<pc, initialState, attempt, cancelled, signal, result>>
vars == <<breakerVars, now, callVars>>

-----------------------------------------------------------------------------
(* The breaker.                                                            *)

\* getState: open turns into half-open once the cooldown is over
Current ==
  IF state = "open" /\ openedAt # None /\ now >= openedAt + Cooldown
  THEN "half-open" ELSE state

\* The code keeps the times of failures; two at one time are told apart by number.
Failures == [nr : Nat, time : Nat]

Unpruned(counted) == counted
Pruned(counted) == {f \in counted : f.time + Window >= now}

ThresholdReached(counted) == Cardinality(counted) >= FailureThreshold

Open == state' = "open" /\ openedAt' = now
Close == state' = "closed" /\ openedAt' = None /\ failures' = {} /\ recent' = {}

IsProbe(c) == initialState[c] = "half-open"

KeepProbe(c) == UNCHANGED halfOpenInFlight
ReleaseProbe(c) == halfOpenInFlight' = (halfOpenInFlight /\ ~IsProbe(c))

\* a cancelled call says nothing about the upstream
EndedByCancel(c, err) == cancelled[c] /\ err # "deadline"

CountFailure(c) ==
  /\ LET this == [nr |-> Cardinality(recent) + 1, time |-> now]
     IN  /\ failures' = Pruned(failures \cup {this})
         /\ recent' = recent \cup {this}
  /\ halfOpenInFlight' = (halfOpenInFlight /\ ~IsProbe(c))
  /\ IF IsProbe(c) \/ (state = "closed" /\ ThresholdReached(failures'))
     THEN Open
     ELSE UNCHANGED <<state, openedAt>>

\* the outer catch of execute
EndFailed(c, err) ==
  /\ pc' = [pc EXCEPT ![c] = "done"]
  /\ result' = [result EXCEPT ![c] = IF EndedByCancel(c, err) THEN "cancelled" ELSE "failed"]
  /\ IF EndedByCancel(c, err)
     THEN ReleaseProbe(c) /\ UNCHANGED <<state, failures, openedAt, recent>>
     ELSE CountFailure(c)
  /\ UNCHANGED <<now, initialState, attempt, cancelled, signal>>

-----------------------------------------------------------------------------
(* A call.                                                                 *)

Active(c) == pc[c] \in {"calling", "waiting"}

\* open, or half-open with the probe under way
Reject(c) ==
  /\ pc[c] = "idle"
  /\ Current = "open" \/ (Current = "half-open" /\ halfOpenInFlight)
  /\ state' = Current
  /\ pc' = [pc EXCEPT ![c] = "done"]
  /\ result' = [result EXCEPT ![c] = "rejected"]
  /\ UNCHANGED <<failures, openedAt, halfOpenInFlight, recent, now, initialState,
                 attempt, cancelled, signal>>

Passes == Current = "closed" \/ (Current = "half-open" /\ ~halfOpenInFlight)

\* The first attempt starts in the same step.
Admit(c) ==
  /\ pc[c] = "idle" /\ ~cancelled[c]
  /\ Passes
  /\ state' = Current
  /\ halfOpenInFlight' = (halfOpenInFlight \/ Current = "half-open")
  /\ initialState' = [initialState EXCEPT ![c] = Current]
  /\ attempt' = [attempt EXCEPT ![c] = 1]
  /\ pc' = [pc EXCEPT ![c] = "calling"]
  /\ UNCHANGED <<failures, openedAt, recent, now, cancelled, signal, result>>

\* Its signal is aborted already: nothing is called, a probe is given back.
AdmitCancelled(c) ==
  /\ pc[c] = "idle" /\ cancelled[c]
  /\ Passes
  /\ state' = Current
  /\ pc' = [pc EXCEPT ![c] = "done"]
  /\ result' = [result EXCEPT ![c] = "cancelled"]
  /\ UNCHANGED <<failures, openedAt, halfOpenInFlight, recent, now, initialState,
                 attempt, cancelled, signal>>

Succeed(c) ==
  /\ pc[c] = "calling"
  /\ pc' = [pc EXCEPT ![c] = "done"]
  /\ result' = [result EXCEPT ![c] = "ok"]
  /\ IF IsProbe(c)
     THEN Close /\ halfOpenInFlight' = FALSE
     ELSE UNCHANGED breakerVars
  /\ UNCHANGED <<now, initialState, attempt, cancelled, signal>>

IsRetriable(err) == err = "transient"

AttemptsLeft(c) == attempt[c] < Attempts

\* An attempt fails: retry after a delay, or give up.
Fail(c, err) ==
  /\ pc[c] = "calling"
  /\ err = "deadline" => signal[c] = "deadline"
  /\ err = "abort" => signal[c] # None
  /\ IF ~EndedByCancel(c, err) /\ IsRetriable(err) /\ AttemptsLeft(c)
     THEN /\ pc' = [pc EXCEPT ![c] = "waiting"]
          /\ UNCHANGED <<breakerVars, now, initialState, attempt, cancelled, signal,
                         result>>
     ELSE EndFailed(c, err)

SameAttempt(c) == UNCHANGED attempt
NextAttempt(c) == attempt' = [attempt EXCEPT ![c] = @ + 1]

\* The delay is over; nobody asks the breaker again.
Retry(c) ==
  /\ pc[c] = "waiting" /\ signal[c] = None
  /\ NextAttempt(c)
  /\ pc' = [pc EXCEPT ![c] = "calling"]
  /\ UNCHANGED <<breakerVars, now, initialState, cancelled, signal, result>>

\* The abort cuts the delay short.
WaitAborted(c) ==
  /\ pc[c] = "waiting" /\ signal[c] # None
  /\ EndFailed(c, IF signal[c] = "deadline" THEN "deadline" ELSE "abort")

Cancel(c) ==
  /\ pc[c] # "done" /\ ~cancelled[c]
  /\ cancelled' = [cancelled EXCEPT ![c] = TRUE]
  /\ signal' = [signal EXCEPT ![c] = IF Active(c) /\ @ = None THEN "external" ELSE @]
  /\ UNCHANGED <<breakerVars, now, pc, initialState, attempt, result>>

DeadlineFires(c) ==
  /\ Active(c) /\ signal[c] = None
  /\ signal' = [signal EXCEPT ![c] = "deadline"]
  /\ UNCHANGED <<breakerVars, now, pc, initialState, attempt, cancelled, result>>

Tick ==
  /\ now < MaxTime
  /\ now' = now + 1
  /\ UNCHANGED <<breakerVars, callVars>>

Init ==
  /\ state = "closed" /\ failures = {} /\ openedAt = None
  /\ halfOpenInFlight = FALSE /\ recent = {}
  /\ now = 0
  /\ pc = [c \in Calls |-> "idle"]
  /\ initialState = [c \in Calls |-> "closed"]
  /\ attempt = [c \in Calls |-> 0]
  /\ cancelled = [c \in Calls |-> FALSE]
  /\ signal = [c \in Calls |-> None]
  /\ result = [c \in Calls |-> "none"]

Next ==
  \/ Tick
  \/ \E c \in Calls :
       \/ Reject(c) \/ Admit(c) \/ AdmitCancelled(c)
       \/ Succeed(c) \/ (\E err \in Errors : Fail(c, err))
       \/ Retry(c) \/ WaitAborted(c)
       \/ Cancel(c) \/ DeadlineFires(c)

Spec == Init /\ [][Next]_vars

\* An attempt returns or throws: the request has a timeout and honours its
\* signal.  A timer that was set fires, and so does the promise of a delay.
AttemptEnds(c) == Succeed(c) \/ \E err \in Errors : Fail(c, err)
FairSpec ==
  Spec /\ \A c \in Calls : WF_vars(AttemptEnds(c)) /\ WF_vars(Retry(c) \/ WaitAborted(c))

-----------------------------------------------------------------------------
(* Properties.                                                             *)

TypeOK ==
  /\ state \in {"closed", "open", "half-open"}
  /\ failures \subseteq Failures /\ recent \subseteq Failures
  /\ openedAt \in Nat \union {None}
  /\ halfOpenInFlight \in BOOLEAN
  /\ now \in 0..MaxTime
  /\ pc \in [Calls -> {"idle", "calling", "waiting", "done"}]
  /\ initialState \in [Calls -> {"closed", "half-open"}]
  /\ attempt \in [Calls -> 0..Attempts]
  /\ cancelled \in [Calls -> BOOLEAN]
  /\ signal \in [Calls -> {None, "external", "deadline"}]
  /\ result \in [Calls -> {"none", "ok", "failed", "cancelled", "rejected"}]

\* The probe flag is up exactly while a probe is under way, there is never a
\* second probe, and the breaker is half-open for as long as it lasts, whatever
\* the calls let through earlier do meanwhile.
ProbeIsAccountedFor ==
  /\ halfOpenInFlight <=> \E c \in Calls : Active(c) /\ IsProbe(c)
  /\ \A c, d \in Calls : Active(c) /\ IsProbe(c) /\ Active(d) /\ IsProbe(d) => c = d
  /\ halfOpenInFlight => state = "half-open"

RecentFailures == Cardinality({f \in recent : f.time + Window >= now})

\* A closed breaker has seen fewer failures than the threshold within the window.
ClosedBelowThreshold == state = "closed" => RecentFailures < FailureThreshold

\* A closed breaker opens only on as many failures within the window as the
\* threshold asks for; older ones do not count.
OpensOnRecentFailures ==
  [][(state = "closed" /\ state' # "closed") =>
       (state' = "open" /\ RecentFailures' >= FailureThreshold)]_vars

\* Every call let through ends: retries are bounded and an abort reaches a call
\* that waits for its next attempt.
EveryCallEnds == \A c \in Calls : Active(c) ~> pc[c] = "done"

\* What streamMapper says of a shared breaker: every run in flight observes the
\* open circuit, so no attempt starts while it is open.
OpenCircuitIsObserved ==
  [][Current = "open" => \A c \in Calls : attempt'[c] = attempt[c]]_vars

=============================================================================
