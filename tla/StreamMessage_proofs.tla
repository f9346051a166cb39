------------------------ MODULE StreamMessage_proofs ------------------------
(***************************************************************************)
(* Proofs about CircuitBreaker and the StreamMessage it guards, for any    *)
(* number of overlapping calls and attempts, any thresholds and cooldown,  *)
(* and streams of any length.                                              *)
(***************************************************************************)
EXTENDS StreamMessage, FiniteSetTheorems, SequenceTheorems, TLAPS

USE CircuitAssumption, StreamAssumption

-----------------------------------------------------------------------------
(* The breaker: who holds the half-open probe.                             *)

\* The part of the types the argument needs: which calls are where, and what
\* breaker state let them through.
ControlTypeOK ==
  /\ state \in {"closed", "open", "half-open"}
  /\ halfOpenInFlight \in BOOLEAN
  /\ pc \in [Calls -> {"idle", "calling", "waiting", "done"}]
  /\ initialState \in [Calls -> {"closed", "half-open"}]

ProbeInv == ControlTypeOK /\ ProbeIsAccountedFor

Probing(c) == Active(c) /\ IsProbe(c)

\* Whoever ends a call that is no probe leaves the probe alone; the end of the
\* probe takes the flag down.
LEMMA ProbeEnds ==
  ASSUME ProbeInv, NEW c \in Calls, Active(c),
         pc' = [pc EXCEPT ![c] = "done"], UNCHANGED initialState,
         halfOpenInFlight' = (halfOpenInFlight /\ ~IsProbe(c)),
         state' \in {"closed", "open", "half-open"},
         ~IsProbe(c) => state' = state \/ state = "closed"
  PROVE  ProbeInv'
  <1>1. ControlTypeOK'
    BY DEF ProbeInv, ControlTypeOK
  <1>2. \A d \in Calls : Probing(d)' <=> Probing(d) /\ d # c
    BY DEF ProbeInv, ControlTypeOK, Probing, Active, IsProbe
  <1>3. CASE IsProbe(c)
    <2>1. \A d \in Calls : ~Probing(d)'
      BY <1>2, <1>3 DEF ProbeInv, ProbeIsAccountedFor, Probing
    <2> QED
      BY <1>1, <1>3, <2>1 DEF ProbeInv, ProbeIsAccountedFor, Probing
  <1>4. CASE ~IsProbe(c)
    <2>1. \A d \in Calls : Probing(d)' <=> Probing(d)
      BY <1>2, <1>4 DEF Probing
    <2>2. halfOpenInFlight' = halfOpenInFlight
      BY <1>4 DEF ProbeInv, ControlTypeOK
    <2>3. halfOpenInFlight => state' = "half-open"
      BY <1>4 DEF ProbeInv, ProbeIsAccountedFor
    <2> QED
      BY <1>1, <2>1, <2>2, <2>3 DEF ProbeInv, ProbeIsAccountedFor, Probing
  <1> QED
    BY <1>3, <1>4

LEMMA CallEnds ==
  ASSUME ProbeInv, NEW c \in Calls, NEW err, Active(c), EndFailed(c, err)
  PROVE  ProbeInv'
  <1>1. pc' = [pc EXCEPT ![c] = "done"] /\ UNCHANGED initialState
    BY DEF EndFailed
  <1>2. /\ halfOpenInFlight' = (halfOpenInFlight /\ ~IsProbe(c))
        /\ state' \in {"open", state}
        /\ ~IsProbe(c) => state' = state \/ state = "closed"
    BY DEF EndFailed, ReleaseProbe, CountFailure, Open
  <1> QED
    BY <1>1, <1>2, ProbeEnds DEF ProbeInv, ControlTypeOK

\* A call that is let through is a probe only if there is none.
LEMMA ProbeAdmitKeeps ==
  ASSUME ProbeInv, NEW c \in Calls, Admit(c)
  PROVE  ProbeInv'
  <1>1. /\ pc' = [pc EXCEPT ![c] = "calling"] /\ pc[c] = "idle"
        /\ initialState' = [initialState EXCEPT ![c] = Current]
        /\ state' = Current
        /\ halfOpenInFlight' = (halfOpenInFlight \/ Current = "half-open")
        /\ Current = "closed" \/ (Current = "half-open" /\ ~halfOpenInFlight)
    BY DEF Admit, Passes
  <1>2. ControlTypeOK'
    BY <1>1 DEF ProbeInv, ControlTypeOK
  <1>3. \A d \in Calls \ {c} : Probing(d)' <=> Probing(d)
    BY <1>1 DEF ProbeInv, ControlTypeOK, Probing, Active, IsProbe
  <1>4. ~Probing(c) /\ (Probing(c)' <=> Current = "half-open")
    BY <1>1 DEF ProbeInv, ControlTypeOK, Probing, Active, IsProbe
  <1>5. CASE Current = "closed"
    <2>1. state = "closed" /\ ~halfOpenInFlight /\ ~halfOpenInFlight'
      BY <1>1, <1>5 DEF Current, ProbeInv, ProbeIsAccountedFor, ControlTypeOK
    <2>2. \A d \in Calls : ~Probing(d)'
      BY <1>3, <1>4, <1>5, <2>1 DEF ProbeInv, ProbeIsAccountedFor, Probing
    <2> QED
      BY <1>2, <2>1, <2>2 DEF ProbeInv, ProbeIsAccountedFor, Probing
  <1>6. CASE Current = "half-open" /\ ~halfOpenInFlight
    <2>1. \A d \in Calls : Probing(d)' <=> d = c
      BY <1>3, <1>4, <1>6 DEF ProbeInv, ProbeIsAccountedFor, Probing
    <2>2. halfOpenInFlight' /\ state' = "half-open"
      BY <1>1, <1>6
    <2> QED
      BY <1>2, <2>1, <2>2 DEF ProbeInv, ProbeIsAccountedFor, Probing
  <1> QED
    BY <1>1, <1>5, <1>6

\* Calls that are not let through only look at the breaker, and move it from
\* open to half-open once the cooldown is over.
LEMMA TurnedAway ==
  ASSUME ProbeInv, NEW c \in Calls, Reject(c) \/ AdmitCancelled(c)
  PROVE  ProbeInv'
  <1>1. /\ pc' = [pc EXCEPT ![c] = "done"] /\ pc[c] = "idle"
        /\ UNCHANGED <<initialState, halfOpenInFlight>> /\ state' = Current
    BY DEF Reject, AdmitCancelled
  <1>2. state' \in {"closed", "open", "half-open"} /\ (state = "half-open" => state' = state)
    BY <1>1 DEF Current, ProbeInv, ControlTypeOK
  <1>3. \A d \in Calls : Probing(d)' <=> Probing(d)
    BY <1>1 DEF ProbeInv, ControlTypeOK, Probing, Active, IsProbe
  <1> QED
    BY <1>1, <1>2, <1>3 DEF ProbeInv, ControlTypeOK, ProbeIsAccountedFor, Probing

LEMMA SucceedKeeps ==
  ASSUME ProbeInv, NEW c \in Calls, Succeed(c)
  PROVE  ProbeInv'
  <1>1. /\ pc' = [pc EXCEPT ![c] = "done"] /\ Active(c) /\ UNCHANGED initialState
        /\ IsProbe(c) => state' = "closed" /\ halfOpenInFlight' = FALSE
        /\ ~IsProbe(c) => UNCHANGED <<state, halfOpenInFlight>>
    BY DEF Succeed, Active, Close, breakerVars
  <1> QED
    BY <1>1, ProbeEnds DEF ProbeInv, ControlTypeOK

\* Steps within a call, the clock and the signals move no probe.
LEMMA OthersKeep ==
  ASSUME ProbeInv, UNCHANGED <<state, halfOpenInFlight, initialState>>,
         \/ UNCHANGED pc
         \/ \E c \in Calls : /\ Active(c)
                             /\ \E at \in {"calling", "waiting"} : pc' = [pc EXCEPT ![c] = at]
  PROVE  ProbeInv'
  <1>1. ControlTypeOK'
    BY DEF ProbeInv, ControlTypeOK
  <1>2. \A d \in Calls : Probing(d)' <=> Probing(d)
    BY DEF ProbeInv, ControlTypeOK, Probing, Active, IsProbe
  <1> QED
    BY <1>1, <1>2 DEF ProbeInv, ProbeIsAccountedFor, Probing

LEMMA ProbeInductive ==
  ProbeInv /\ [Next]_vars => ProbeInv'
  <1> SUFFICES ASSUME ProbeInv, [Next]_vars
               PROVE  ProbeInv'
    OBVIOUS
  <1>1. CASE UNCHANGED vars \/ Tick
    BY <1>1, OthersKeep DEF vars, breakerVars, callVars, Tick
  <1>2. ASSUME NEW c \in Calls, Reject(c) \/ AdmitCancelled(c)
        PROVE  ProbeInv'
    BY <1>2, TurnedAway
  <1>3. ASSUME NEW c \in Calls, Admit(c)
        PROVE  ProbeInv'
    BY <1>3, ProbeAdmitKeeps
  <1>4. ASSUME NEW c \in Calls, Succeed(c)
        PROVE  ProbeInv'
    BY <1>4, SucceedKeeps
  <1>5. ASSUME NEW c \in Calls, NEW err \in Errors, Fail(c, err)
        PROVE  ProbeInv'
    <2>1. Active(c)
      BY <1>5 DEF Fail, Active
    <2>2. CASE EndFailed(c, err)
      BY <2>1, <2>2, CallEnds
    <2>3. CASE /\ pc' = [pc EXCEPT ![c] = "waiting"]
               /\ UNCHANGED <<breakerVars, initialState>>
      BY <2>1, <2>3, OthersKeep DEF breakerVars
    <2> QED
      BY <1>5, <2>2, <2>3 DEF Fail
  <1>6. ASSUME NEW c \in Calls, Retry(c) \/ Cancel(c) \/ DeadlineFires(c)
        PROVE  ProbeInv'
    <2>1. CASE Retry(c)
      <3>1. Active(c) /\ pc' = [pc EXCEPT ![c] = "calling"]
        BY <2>1 DEF Retry, Active
      <3> QED
        BY <2>1, <3>1, OthersKeep DEF Retry, breakerVars
    <2>2. CASE Cancel(c) \/ DeadlineFires(c)
      BY <2>2, OthersKeep DEF Cancel, DeadlineFires, breakerVars
    <2> QED
      BY <1>6, <2>1, <2>2
  <1>7. ASSUME NEW c \in Calls, WaitAborted(c)
        PROVE  ProbeInv'
    <2>1. Active(c) /\ EndFailed(c, IF signal[c] = "deadline" THEN "deadline" ELSE "abort")
      BY <1>7 DEF WaitAborted, Active
    <2> QED
      BY <2>1, CallEnds
  <1> QED
    BY <1>1, <1>2, <1>3, <1>4, <1>5, <1>6, <1>7 DEF Next

\* At most one call probes a half-open breaker, whatever the overlapping calls
\* of other runs do, and the flag that keeps the others out comes down with it:
\* the breaker is never shut for good by a probe that is forgotten.
THEOREM OneProbe == Spec => []ProbeIsAccountedFor
  <1>1. Init => ProbeInv
    BY DEF Init, ProbeInv, ControlTypeOK, ProbeIsAccountedFor, Active, IsProbe
  <1>2. ProbeInv => ProbeIsAccountedFor
    BY DEF ProbeInv
  <1> QED
    BY <1>1, <1>2, ProbeInductive, PTL DEF Spec

-----------------------------------------------------------------------------
(* The breaker: what the window of failures says.                          *)

InWindow(f) == f.time + Window >= now

\* A closed breaker has kept every failure that is still in the window, and
\* they are too few.
CountInv ==
  /\ now \in Nat
  /\ IsFiniteSet(recent) /\ failures \subseteq recent
  /\ \A f \in recent : f.time \in Nat
  /\ state = "closed" =>
       /\ \A f \in recent : InWindow(f) => f \in failures
       /\ Cardinality(failures) < FailureThreshold

\* The window and the breaker stay, or the clock moves on.
LEMMA CountStays ==
  ASSUME CountInv, UNCHANGED <<failures, recent>>, now' \in {now, now + 1},
         state' = "closed" => state = "closed"
  PROVE  CountInv'
  <1>1. now' \in Nat /\ now' >= now
    BY DEF CountInv
  <1>2. ASSUME NEW f \in recent, InWindow(f)'
        PROVE  InWindow(f)
    BY <1>1, <1>2 DEF CountInv, InWindow, CircuitAssumption
  <1> QED
    BY <1>1, <1>2 DEF CountInv

LEMMA CountFailureKeeps ==
  ASSUME CountInv, ProbeInv, NEW c \in Calls, Active(c), CountFailure(c), UNCHANGED now
  PROVE  /\ CountInv'
         /\ state = "closed" /\ state' # "closed" =>
              state' = "open" /\ RecentFailures' >= FailureThreshold
  <1> DEFINE this == [nr |-> Cardinality(recent) + 1, time |-> now]
  <1>1. /\ failures' = Pruned(failures \cup {this}) /\ recent' = recent \cup {this}
        /\ IF IsProbe(c) \/ (state = "closed" /\ ThresholdReached(failures'))
           THEN Open
           ELSE UNCHANGED <<state, openedAt>>
    BY DEF CountFailure
  <1>2. this.time = now
    OBVIOUS
  <1> HIDE DEF this
  <1>3. /\ IsFiniteSet(recent') /\ failures' \subseteq recent' /\ now' \in Nat
        /\ \A f \in recent' : f.time \in Nat
    <2>1. IsFiniteSet(recent')
      BY <1>1, FS_AddElement DEF CountInv
    <2> QED
      BY <1>1, <1>2, <2>1 DEF CountInv, Pruned
  <1>4. \A f \in failures' : InWindow(f)'
    BY <1>1 DEF Pruned, InWindow
  <1>5. state = "closed" => ~IsProbe(c)
    BY DEF ProbeInv, ProbeIsAccountedFor
  <1>6. CASE state = "closed" /\ ThresholdReached(failures')
    <2> DEFINE counted == {f \in recent' : f.time + Window >= now'}
    <2>1. failures' \subseteq counted /\ counted \subseteq recent'
      BY <1>3, <1>4 DEF InWindow
    <2>2. IsFiniteSet(counted) /\ IsFiniteSet(failures')
      BY <1>3, <2>1, FS_Subset
    <2>3. /\ Cardinality(failures') <= Cardinality(counted)
          /\ Cardinality(failures') \in Nat /\ Cardinality(counted) \in Nat
      BY <2>1, <2>2, FS_Subset, FS_CardinalityType
    <2>4. RecentFailures' = Cardinality(counted)
      BY DEF RecentFailures
    <2>5. Cardinality(failures') >= FailureThreshold
      BY <1>6 DEF ThresholdReached
    <2> HIDE DEF counted
    <2>6. RecentFailures' >= FailureThreshold
      BY <2>3, <2>4, <2>5 DEF CircuitAssumption
    <2>7. state' = "open"
      BY <1>1, <1>6 DEF Open
    <2> QED
      BY <1>3, <2>6, <2>7 DEF CountInv
  <1>7. CASE state = "closed" /\ ~ThresholdReached(failures')
    <2>1. state' = "closed"
      BY <1>1, <1>5, <1>7
    <2>2. ASSUME NEW f \in recent', InWindow(f)'
          PROVE  f \in failures'
      <3>1. f.time + Window >= now
        BY <2>2 DEF InWindow
      <3>2. f \in failures \cup {this}
        BY <1>1, <1>7, <3>1 DEF CountInv, InWindow
      <3> QED
        BY <1>1, <3>1, <3>2 DEF Pruned
    <2>3. Cardinality(failures') < FailureThreshold
      <3>1. IsFiniteSet(failures')
        BY <1>3, FS_Subset
      <3>2. Cardinality(failures') \in Nat
        BY <3>1, FS_CardinalityType
      <3> QED
        BY <1>7, <3>2 DEF ThresholdReached, CircuitAssumption
    <2> QED
      BY <1>3, <2>1, <2>2, <2>3 DEF CountInv
  <1>8. CASE state # "closed"
    <2>1. state' # "closed"
      BY <1>1, <1>8 DEF Open
    <2> QED
      BY <1>3, <1>8, <2>1 DEF CountInv
  <1> QED
    BY <1>6, <1>7, <1>8

OpensRightly ==
  state = "closed" /\ state' # "closed" =>
    state' = "open" /\ RecentFailures' >= FailureThreshold

LEMMA EndKeepsCount ==
  ASSUME CountInv, ProbeInv, NEW c \in Calls, NEW err, Active(c), EndFailed(c, err)
  PROVE  CountInv' /\ OpensRightly
  <1>1. CASE EndedByCancel(c, err)
    <2>1. UNCHANGED <<state, failures, recent, now>>
      BY <1>1 DEF EndFailed
    <2> QED
      BY <2>1, CountStays DEF OpensRightly
  <1>2. CASE CountFailure(c) /\ UNCHANGED now
    BY <1>2, CountFailureKeeps DEF OpensRightly
  <1> QED
    BY <1>1, <1>2 DEF EndFailed

LEMMA CountInductive == CountInv /\ ProbeInv /\ [Next]_vars => CountInv' /\ OpensRightly
  <1> SUFFICES ASSUME CountInv, ProbeInv, [Next]_vars
               PROVE  CountInv' /\ OpensRightly
    OBVIOUS
  <1>1. ASSUME UNCHANGED <<state, failures, recent>>, now' \in {now, now + 1}
        PROVE  CountInv' /\ OpensRightly
    BY <1>1, CountStays DEF OpensRightly
  <1>2. CASE UNCHANGED vars \/ Tick
    BY <1>1, <1>2 DEF vars, breakerVars, Tick
  <1>3. ASSUME NEW c \in Calls, Reject(c) \/ AdmitCancelled(c) \/ Admit(c)
        PROVE  CountInv' /\ OpensRightly
    <2>1. state' = Current /\ UNCHANGED <<failures, recent, now>>
      BY <1>3 DEF Reject, AdmitCancelled, Admit
    <2>2. state' = "closed" <=> state = "closed"
      BY <2>1 DEF Current
    <2> QED
      BY <2>1, <2>2, CountStays DEF OpensRightly
  <1>4. ASSUME NEW c \in Calls, Succeed(c)
        PROVE  CountInv' /\ OpensRightly
    <2>1. CASE IsProbe(c)
      <3>1. state' = "closed" /\ failures' = {} /\ recent' = {} /\ now' = now
        BY <1>4, <2>1 DEF Succeed, Close
      <3>2. IsFiniteSet({}) /\ Cardinality({}) = 0
        BY FS_EmptySet
      <3>3. CountInv'
        BY <3>1, <3>2 DEF CountInv, CircuitAssumption
      <3> QED
        BY <3>1, <3>3 DEF OpensRightly
    <2>2. CASE ~IsProbe(c)
      BY <1>1, <1>4, <2>2 DEF Succeed, breakerVars
    <2> QED
      BY <2>1, <2>2
  <1>5. ASSUME NEW c \in Calls, NEW err \in Errors, Fail(c, err)
        PROVE  CountInv' /\ OpensRightly
    <2>1. Active(c)
      BY <1>5 DEF Fail, Active
    <2>2. CASE EndFailed(c, err)
      BY <2>1, <2>2, EndKeepsCount
    <2>3. CASE UNCHANGED <<breakerVars, now>>
      BY <1>1, <2>3 DEF breakerVars
    <2> QED
      BY <1>5, <2>2, <2>3 DEF Fail
  <1>6. ASSUME NEW c \in Calls, Retry(c) \/ Cancel(c) \/ DeadlineFires(c)
        PROVE  CountInv' /\ OpensRightly
    BY <1>1, <1>6 DEF Retry, Cancel, DeadlineFires, breakerVars
  <1>7. ASSUME NEW c \in Calls, WaitAborted(c)
        PROVE  CountInv' /\ OpensRightly
    <2>1. Active(c) /\ EndFailed(c, IF signal[c] = "deadline" THEN "deadline" ELSE "abort")
      BY <1>7 DEF WaitAborted, Active
    <2> QED
      BY <2>1, EndKeepsCount
  <1> QED
    BY <1>2, <1>3, <1>4, <1>5, <1>6, <1>7 DEF Next

LEMMA BreakerInitially == Init => ProbeInv /\ CountInv
  <1> SUFFICES ASSUME Init
               PROVE  ProbeInv /\ CountInv
    OBVIOUS
  <1>1. ProbeInv
    BY DEF Init, ProbeInv, ControlTypeOK, ProbeIsAccountedFor, Active, IsProbe
  <1>2. IsFiniteSet({}) /\ Cardinality({}) = 0
    BY FS_EmptySet
  <1>3. CountInv
    BY <1>2 DEF Init, CountInv, CircuitAssumption
  <1> QED
    BY <1>1, <1>3

\* A closed breaker opens only on as many failures within the window as the
\* threshold asks for, whatever the threshold, the window and the overlap of
\* the calls; older failures do not count.
THEOREM OpensOnTheWindow == Spec => OpensOnRecentFailures
  <1>1. CountInv /\ ProbeInv /\ [Next]_vars =>
          [(state = "closed" /\ state' # "closed") =>
             (state' = "open" /\ RecentFailures' >= FailureThreshold)]_vars
    BY CountInductive DEF OpensRightly
  <1> QED
    BY <1>1, BreakerInitially, CountInductive, ProbeInductive, PTL
       DEF Spec, OpensOnRecentFailures

\* And it opens in time: a closed breaker has seen fewer failures within the
\* window than the threshold.
THEOREM OpensInTime == Spec => []ClosedBelowThreshold
  <1>1. ASSUME CountInv, state = "closed"
        PROVE  RecentFailures < FailureThreshold
    <2> DEFINE counted == {f \in recent : f.time + Window >= now}
    <2>1. counted \subseteq failures /\ failures \subseteq recent /\ IsFiniteSet(recent)
      BY <1>1 DEF CountInv, InWindow
    <2>2. IsFiniteSet(failures)
      BY <2>1, FS_Subset
    <2>3. /\ IsFiniteSet(counted) /\ Cardinality(counted) <= Cardinality(failures)
          /\ Cardinality(failures) \in Nat /\ Cardinality(counted) \in Nat
      BY <2>1, <2>2, FS_Subset, FS_CardinalityType
    <2>4. Cardinality(failures) < FailureThreshold
      BY <1>1 DEF CountInv
    <2>5. RecentFailures = Cardinality(counted)
      BY DEF RecentFailures
    <2> HIDE DEF counted
    <2> QED
      BY <2>3, <2>4, <2>5 DEF CircuitAssumption
  <1>2. CountInv => ClosedBelowThreshold
    BY <1>1 DEF ClosedBelowThreshold
  <1> QED
    BY <1>2, BreakerInitially, CountInductive, ProbeInductive, PTL DEF Spec

-----------------------------------------------------------------------------
(* The story of one call, over values: where it stands (p), what it has    *)
(* published (f), whether this attempt published a delta (e), the attempt  *)
(* (a) and the outcome (r).                                                *)

FeedIsInOrder(f, e, a, r) ==
  /\ \A k \in 1..Len(f) :
       /\ f[k].kind = "started" <=> k = 1
       /\ f[k].kind = "completed" => k = Len(f) /\ r = "ok"
       /\ f[k].kind \in DeltaKinds => f[k].attempt = a /\ e
  /\ r = "ok" => f # <<>> /\ f[Len(f)].kind = "completed"

\* A call that waits for its next attempt has published no delta: this is what
\* makes the repetition safe.
Story(p, f, e, a, r) ==
  /\ FeedIsInOrder(f, e, a, r)
  /\ p = "idle" => Len(f) <= 1 /\ r = "none"
  /\ p \in {"calling", "waiting"} => f # <<>> /\ r = "none"
  /\ p = "waiting" => ~e /\ a < Attempts

StoryType ==
  /\ pc \in [Calls -> {"idle", "calling", "waiting", "done"}]
  /\ attempt \in [Calls -> 0..Attempts]
  /\ result \in [Calls -> {"none", "ok", "failed", "cancelled", "rejected"}]
  /\ StreamTypeOK

StoryOf(c) == Story(pc[c], feed[c], emitted[c], attempt[c], result[c])

StreamInv == StoryType /\ \A c \in Calls : StoryOf(c)

-----------------------------------------------------------------------------
(* What happens to a feed.                                                 *)

LEMMA FrameAppended ==
  ASSUME NEW f \in Seq(Frames), NEW fr \in Frames,
         NEW e \in BOOLEAN, NEW e2 \in BOOLEAN, NEW a, FeedIsInOrder(f, e, a, "none"),
         f # <<>>, fr.kind \notin {"started", "completed"},
         e => e2, fr.kind \in DeltaKinds => fr.attempt = a /\ e2
  PROVE  FeedIsInOrder(Append(f, fr), e2, a, "none")
  <1> DEFINE g == Append(f, fr)
  <1>1. /\ Len(g) = Len(f) + 1 /\ Len(f) \in Nat /\ Len(f) # 0
        /\ \A k \in 1..Len(f) : g[k] = f[k]
        /\ g[Len(g)] = fr
    BY EmptySeq, AppendProperties
  <1> HIDE DEF g
  <1>2. \A k \in 1..Len(f) : /\ g[k].kind = "started" <=> k = 1
                             /\ g[k].kind # "completed"
                             /\ g[k].kind \in DeltaKinds => g[k].attempt = a /\ e2
    BY <1>1 DEF FeedIsInOrder
  <1>3. FeedIsInOrder(g, e2, a, "none")
    BY <1>1, <1>2 DEF FeedIsInOrder
  <1> QED
    BY <1>3 DEF g

LEMMA CompletedAppended ==
  ASSUME NEW f \in Seq(Frames), NEW fr \in Frames, NEW e, NEW a,
         FeedIsInOrder(f, e, a, "none"), f # <<>>, fr.kind = "completed"
  PROVE  FeedIsInOrder(Append(f, fr), e, a, "ok") /\ Append(f, fr) # <<>>
  <1> DEFINE g == Append(f, fr)
  <1>1. /\ Len(g) = Len(f) + 1 /\ Len(f) \in Nat /\ Len(f) # 0
        /\ \A k \in 1..Len(f) : g[k] = f[k]
        /\ g[Len(g)] = fr /\ g # <<>>
    BY EmptySeq, AppendProperties
  <1> HIDE DEF g
  <1>2. \A k \in 1..Len(f) : /\ g[k].kind = "started" <=> k = 1
                             /\ g[k].kind # "completed"
                             /\ g[k].kind \in DeltaKinds => g[k].attempt = a /\ e
    BY <1>1 DEF FeedIsInOrder
  <1>3. FeedIsInOrder(g, e, a, "ok")
    BY <1>1, <1>2 DEF FeedIsInOrder, DeltaKinds
  <1> QED
    BY <1>1, <1>3 DEF g

\* A feed without deltas does not depend on the attempt, and one without an
\* end does not depend on how the call failed.
LEMMA NoDeltas ==
  ASSUME NEW f, NEW e \in BOOLEAN, NEW a, NEW b, NEW r, FeedIsInOrder(f, e, a, r),
         ~e \/ (Len(f) <= 1 /\ Len(f) \in Nat)
  PROVE  FeedIsInOrder(f, FALSE, b, r)
  BY DEF FeedIsInOrder, DeltaKinds

LEMMA OutcomeSet ==
  ASSUME NEW f, NEW e, NEW a, NEW r, FeedIsInOrder(f, e, a, "none"), r # "ok"
  PROVE  FeedIsInOrder(f, e, a, r)
  BY DEF FeedIsInOrder

-----------------------------------------------------------------------------
(* One step of one call.                                                   *)

\* The other calls are not touched.
Elsewhere(c) ==
  \A d \in Calls \ {c} :
    /\ pc'[d] = pc[d] /\ feed'[d] = feed[d] /\ emitted'[d] = emitted[d]
    /\ attempt'[d] = attempt[d] /\ result'[d] = result[d]

LEMMA OneCall ==
  ASSUME StreamInv, NEW c \in Calls, StoryType', Elsewhere(c),
         Story(pc'[c], feed'[c], emitted'[c], attempt'[c], result'[c])
  PROVE  StreamInv'
  BY DEF StreamInv, Elsewhere, StoryOf

\* A call publishes one frame of its attempt.
LEMMA SayKeeps ==
  ASSUME StreamInv, NEW c \in Calls, NEW kind \in Kinds \ {"started", "completed"},
         pc[c] = "calling", UNCHANGED vars, Say(c, kind, attempt[c]),
         NEW e \in BOOLEAN, emitted' = [emitted EXCEPT ![c] = e],
         emitted[c] => e, kind \in DeltaKinds => e
  PROVE  StreamInv'
  <1> DEFINE fr == [kind |-> kind, attempt |-> attempt[c]]
  <1>1. fr \in Frames /\ fr.kind = kind /\ fr.attempt = attempt[c]
    BY DEF StreamInv, StoryType, Frames
  <1>2. feed' = [feed EXCEPT ![c] = Append(feed[c], fr)]
    BY DEF Say
  <1> HIDE DEF fr
  <1>3. feed[c] \in Seq(Frames) /\ emitted[c] \in BOOLEAN
    BY DEF StreamInv, StoryType, StreamTypeOK
  <1>4. /\ pc' = pc /\ attempt' = attempt /\ result' = result
        /\ feed'[c] = Append(feed[c], fr) /\ emitted'[c] = e
    BY <1>2 DEF vars, callVars, StreamInv, StoryType, StreamTypeOK
  <1>5. StoryType' /\ Elsewhere(c)
    BY <1>1, <1>2, <1>3, <1>4, AppendProperties DEF StreamInv, StoryType, StreamTypeOK, Elsewhere
  <1>6. FeedIsInOrder(feed[c], emitted[c], attempt[c], "none") /\ feed[c] # <<>>
        /\ result[c] = "none"
    BY DEF StreamInv, StoryOf, Story
  <1>7. FeedIsInOrder(Append(feed[c], fr), e, attempt[c], "none")
    BY <1>1, <1>3, <1>6, FrameAppended
  <1>8. Append(feed[c], fr) # <<>>
    BY <1>1, <1>3, AppendProperties
  <1> QED
    BY <1>4, <1>5, <1>6, <1>7, <1>8, OneCall DEF Story

\* A call is over, and publishes nothing.
LEMMA EndKeeps ==
  ASSUME StreamInv, NEW c \in Calls, pc[c] # "done",
         NEW r \in {"failed", "cancelled", "rejected"},
         pc' = [pc EXCEPT ![c] = "done"], result' = [result EXCEPT ![c] = r],
         UNCHANGED attempt, UNCHANGED streamVars
  PROVE  StreamInv'
  <1>1. /\ pc'[c] = "done" /\ result'[c] = r /\ attempt' = attempt
        /\ feed' = feed /\ emitted' = emitted
    BY DEF streamVars, StreamInv, StoryType
  <1>2. StoryType' /\ Elsewhere(c)
    BY <1>1 DEF StreamInv, StoryType, StreamTypeOK, Elsewhere
  <1>3. FeedIsInOrder(feed[c], emitted[c], attempt[c], "none")
    BY DEF StreamInv, StoryOf, Story, StoryType
  <1>4. FeedIsInOrder(feed[c], emitted[c], attempt[c], r)
    BY <1>3, OutcomeSet
  <1> QED
    BY <1>1, <1>2, <1>4, OneCall DEF Story

LEMMA AnnounceKeeps ==
  ASSUME StreamInv, NEW c \in Calls, Announce(c)
  PROVE  StreamInv'
  <1> DEFINE fr == [kind |-> "started", attempt |-> 0]
  <1>1. fr \in Frames /\ fr.kind = "started"
    BY DEF Frames, Kinds
  <1>2. feed[c] = <<>> /\ pc[c] = "idle" /\ feed' = [feed EXCEPT ![c] = Append(feed[c], fr)]
        /\ UNCHANGED <<vars, emitted>>
    BY DEF Announce, Say
  <1> HIDE DEF fr
  <1>3. /\ pc' = pc /\ attempt' = attempt /\ result' = result /\ emitted' = emitted
        /\ feed'[c] = Append(feed[c], fr)
    BY <1>2 DEF vars, callVars, StreamInv, StoryType, StreamTypeOK
  <1>4. /\ feed'[c] \in Seq(Frames) /\ Len(feed'[c]) = 1 /\ feed'[c][1] = fr
    BY <1>1, <1>2, <1>3, AppendProperties
  <1>5. StoryType' /\ Elsewhere(c)
    BY <1>2, <1>3, <1>4 DEF StreamInv, StoryType, StreamTypeOK, Elsewhere
  <1>6. result[c] = "none"
    BY <1>2 DEF StreamInv, StoryOf, Story
  <1>7. FeedIsInOrder(feed'[c], emitted[c], attempt[c], "none")
    BY <1>1, <1>4 DEF FeedIsInOrder, DeltaKinds
  <1> QED
    BY <1>2, <1>3, <1>4, <1>5, <1>6, <1>7, OneCall DEF Story

LEMMA AdmitKeeps ==
  ASSUME StreamInv, NEW c \in Calls, Announced(c), Admit(c), NewAttempt(c), UNCHANGED feed
  PROVE  StreamInv'
  <1>1. /\ pc[c] = "idle" /\ pc' = [pc EXCEPT ![c] = "calling"]
        /\ attempt' = [attempt EXCEPT ![c] = 1] /\ result' = result
        /\ emitted' = [emitted EXCEPT ![c] = FALSE]
    BY DEF Admit, NewAttempt
  <1>2. pc'[c] = "calling" /\ attempt'[c] = 1 /\ emitted'[c] = FALSE
    BY <1>1 DEF StreamInv, StoryType, StreamTypeOK
  <1>3. StoryType' /\ Elsewhere(c)
    BY <1>1 DEF StreamInv, StoryType, StreamTypeOK, Elsewhere
  <1>4. /\ FeedIsInOrder(feed[c], emitted[c], attempt[c], "none") /\ result[c] = "none"
        /\ Len(feed[c]) <= 1
    BY <1>1 DEF StreamInv, StoryOf, Story
  <1>5. emitted[c] \in BOOLEAN /\ Len(feed[c]) \in Nat
    BY DEF StreamInv, StoryType, StreamTypeOK
  <1>6. FeedIsInOrder(feed[c], FALSE, 1, "none")
    BY <1>4, <1>5, NoDeltas
  <1> QED
    BY <1>1, <1>2, <1>3, <1>4, <1>6, OneCall DEF Story, Announced

LEMMA RetryKeeps ==
  ASSUME StreamInv, NEW c \in Calls, RetryStream(c)
  PROVE  StreamInv'
  <1>1. /\ pc[c] = "waiting" /\ pc' = [pc EXCEPT ![c] = "calling"]
        /\ attempt' = [attempt EXCEPT ![c] = attempt[c] + 1] /\ result' = result
        /\ emitted' = [emitted EXCEPT ![c] = FALSE] /\ feed' = feed
    BY DEF RetryStream, Retry, NextAttempt, NewAttempt, SilentRetry
  <1>2. /\ FeedIsInOrder(feed[c], emitted[c], attempt[c], "none") /\ result[c] = "none"
        /\ feed[c] # <<>> /\ ~emitted[c] /\ attempt[c] < Attempts
    BY <1>1 DEF StreamInv, StoryOf, Story
  <1>3. attempt[c] \in 0..Attempts /\ emitted[c] \in BOOLEAN
    BY DEF StreamInv, StoryType, StreamTypeOK
  <1>4. attempt[c] + 1 \in 0..Attempts
    BY <1>2, <1>3
  <1>5. pc'[c] = "calling" /\ attempt'[c] = attempt[c] + 1 /\ emitted'[c] = FALSE
    BY <1>1 DEF StreamInv, StoryType, StreamTypeOK
  <1>6. StoryType' /\ Elsewhere(c)
    BY <1>1, <1>4 DEF StreamInv, StoryType, StreamTypeOK, Elsewhere
  <1>7. FeedIsInOrder(feed[c], FALSE, attempt[c] + 1, "none")
    BY <1>2, <1>3, NoDeltas
  <1> QED
    BY <1>1, <1>2, <1>5, <1>6, <1>7, OneCall DEF Story

\* An attempt that breaks waits only if nothing of it was shown.
LEMMA BreakKeeps ==
  ASSUME StreamInv, NEW c \in Calls, StreamBreaks(c)
  PROVE  StreamInv'
  <1>1. PICK err \in Errors \ {"unsafe"} : Fail(c, Marked(c, err)) /\ UNCHANGED streamVars
    BY DEF StreamBreaks
  <1>2. pc[c] = "calling"
    BY <1>1 DEF Fail
  <1>3. CASE EndFailed(c, Marked(c, err))
    <2>1. \E r \in {"failed", "cancelled", "rejected"} : result' = [result EXCEPT ![c] = r]
      BY <1>3 DEF EndFailed
    <2>2. pc' = [pc EXCEPT ![c] = "done"] /\ UNCHANGED attempt
      BY <1>3 DEF EndFailed
    <2> QED
      BY <1>1, <1>2, <2>1, <2>2, EndKeeps
  <1>4. CASE /\ IsRetriable(Marked(c, err)) /\ AttemptsLeft(c)
             /\ pc' = [pc EXCEPT ![c] = "waiting"] /\ UNCHANGED <<attempt, result>>
    <2>1. ~emitted[c] /\ attempt[c] < Attempts
      BY <1>4 DEF IsRetriable, Marked, AttemptsLeft
    <2>2. /\ pc'[c] = "waiting" /\ attempt' = attempt /\ result' = result
          /\ feed' = feed /\ emitted' = emitted
      BY <1>1, <1>4 DEF streamVars, StreamInv, StoryType
    <2>3. StoryType' /\ Elsewhere(c)
      BY <1>4, <2>2 DEF StreamInv, StoryType, StreamTypeOK, Elsewhere
    <2>4. /\ FeedIsInOrder(feed[c], emitted[c], attempt[c], "none")
          /\ feed[c] # <<>> /\ result[c] = "none"
      BY <1>2 DEF StreamInv, StoryOf, Story
    <2> QED
      BY <2>1, <2>2, <2>3, <2>4, OneCall DEF Story
  <1> QED
    BY <1>1, <1>3, <1>4 DEF Fail

LEMMA StreamEndsKeeps ==
  ASSUME StreamInv, NEW c \in Calls, StreamEnds(c)
  PROVE  StreamInv'
  <1> DEFINE fr == [kind |-> "completed", attempt |-> 0]
  <1>1. fr \in Frames /\ fr.kind = "completed"
    BY DEF Frames, Kinds
  <1>2. /\ pc[c] = "calling" /\ pc' = [pc EXCEPT ![c] = "done"]
        /\ result' = [result EXCEPT ![c] = "ok"] /\ attempt' = attempt
        /\ feed' = [feed EXCEPT ![c] = Append(feed[c], fr)] /\ emitted' = emitted
    BY DEF StreamEnds, Succeed, Say
  <1> HIDE DEF fr
  <1>3. feed[c] \in Seq(Frames) /\ Append(feed[c], fr) \in Seq(Frames)
    BY <1>1, AppendProperties DEF StreamInv, StoryType, StreamTypeOK
  <1>4. pc'[c] = "done" /\ result'[c] = "ok" /\ feed'[c] = Append(feed[c], fr)
    BY <1>2 DEF StreamInv, StoryType, StreamTypeOK
  <1>5. StoryType' /\ Elsewhere(c)
    BY <1>2, <1>3 DEF StreamInv, StoryType, StreamTypeOK, Elsewhere
  <1>6. FeedIsInOrder(feed[c], emitted[c], attempt[c], "none") /\ feed[c] # <<>>
    BY <1>2 DEF StreamInv, StoryOf, Story
  <1>7. FeedIsInOrder(feed'[c], emitted[c], attempt[c], "ok")
    BY <1>1, <1>3, <1>4, <1>6, CompletedAppended
  <1> QED
    BY <1>2, <1>4, <1>5, <1>7, OneCall DEF Story

LEMMA StreamInitially == StreamInit => StreamInv
  <1> SUFFICES ASSUME StreamInit
               PROVE  StreamInv
    OBVIOUS
  <1>1. <<>> \in Seq(Frames) /\ Len(<<>>) = 0 /\ 0 \in 0..Attempts
    BY EmptySeq
  <1>2. /\ pc = [c \in Calls |-> "idle"] /\ attempt = [c \in Calls |-> 0]
        /\ result = [c \in Calls |-> "none"] /\ feed = [c \in Calls |-> <<>>]
        /\ emitted = [c \in Calls |-> FALSE]
    BY DEF StreamInit, Init
  <1>3. StoryType
    BY <1>1, <1>2 DEF StoryType, StreamTypeOK
  <1>4. Story("idle", <<>>, FALSE, 0, "none")
    BY <1>1 DEF Story, FeedIsInOrder
  <1> QED
    BY <1>2, <1>3, <1>4 DEF StreamInv, StoryOf

LEMMA StreamInductive == StreamInv /\ [StreamNext]_allVars => StreamInv'
  <1> SUFFICES ASSUME StreamInv, [StreamNext]_allVars
               PROVE  StreamInv'
    OBVIOUS
  <1>1. ASSUME UNCHANGED <<pc, attempt, result, feed, emitted>>
        PROVE  StreamInv'
    BY <1>1 DEF StreamInv, StoryType, StreamTypeOK, StoryOf
  <1>2. CASE Tick /\ UNCHANGED streamVars
    BY <1>1, <1>2 DEF Tick, callVars, streamVars
  <1>3. CASE UNCHANGED allVars
    BY <1>1, <1>3 DEF allVars, vars, callVars, streamVars
  <1>4. ASSUME NEW c \in Calls, BeginCall(c)
        PROVE  StreamInv'
    <2>1. CASE Reject(c) /\ UNCHANGED streamVars
      BY <2>1, EndKeeps DEF Reject
    <2>2. CASE AdmitCancelled(c) /\ UNCHANGED streamVars
      BY <2>2, EndKeeps DEF AdmitCancelled
    <2>3. CASE Admit(c) /\ NewAttempt(c) /\ UNCHANGED feed
      BY <1>4, <2>3, AdmitKeeps DEF BeginCall
    <2> QED
      BY <1>4, <2>1, <2>2, <2>3 DEF BeginCall
  <1>5. ASSUME NEW c \in Calls, TextDelta(c) \/ ToolStarts(c) \/ ToolInputDelta(c) \/ ToolCompletes(c)
        PROVE  StreamInv'
    <2>1. pc[c] = "calling" /\ UNCHANGED vars
      BY <1>5 DEF TextDelta, ToolStarts, ToolInputDelta, ToolCompletes, Event
    <2>2. CASE TextDelta(c) \/ ToolInputDelta(c)
      <3>1. PICK kind \in {"text", "tool_input"} : Say(c, kind, attempt[c])
        BY <2>2 DEF TextDelta, ToolInputDelta
      <3>2. emitted' = [emitted EXCEPT ![c] = TRUE] /\ kind \in Kinds \ {"started", "completed"}
        BY <2>2 DEF TextDelta, ToolInputDelta, Kinds, DeltaKinds
      <3> QED
        BY <2>1, <3>1, <3>2, SayKeeps
    <2>3. CASE ToolStarts(c) \/ ToolCompletes(c)
      <3>1. PICK kind \in {"tool_started", "tool_completed"} : Say(c, kind, attempt[c])
        BY <2>3 DEF ToolStarts, ToolCompletes
      <3>2. /\ emitted' = [emitted EXCEPT ![c] = emitted[c]] /\ emitted[c] \in BOOLEAN
            /\ kind \in Kinds \ {"started", "completed"} /\ kind \notin DeltaKinds
        BY <2>3 DEF ToolStarts, ToolCompletes, Kinds, DeltaKinds, StreamInv, StoryType, StreamTypeOK
      <3> QED
        BY <2>1, <3>1, <3>2, SayKeeps
    <2> QED
      BY <1>5, <2>2, <2>3
  <1>6. ASSUME NEW c \in Calls, WaitAborted(c), UNCHANGED streamVars
        PROVE  StreamInv'
    <2>1. \E r \in {"failed", "cancelled", "rejected"} : result' = [result EXCEPT ![c] = r]
      BY <1>6 DEF WaitAborted, EndFailed
    <2>2. pc[c] # "done" /\ pc' = [pc EXCEPT ![c] = "done"] /\ UNCHANGED attempt
      BY <1>6 DEF WaitAborted, EndFailed
    <2> QED
      BY <1>6, <2>1, <2>2, EndKeeps
  <1>7. ASSUME NEW c \in Calls, Cancel(c) \/ DeadlineFires(c), UNCHANGED streamVars
        PROVE  StreamInv'
    BY <1>1, <1>7 DEF Cancel, DeadlineFires, streamVars
  <1> QED
    BY <1>2, <1>3, <1>4, <1>5, <1>6, <1>7, AnnounceKeeps, BreakKeeps, RetryKeeps,
       StreamEndsKeeps DEF StreamNext

LEMMA StreamInvariant == StreamSpec => []StreamInv
  BY StreamInitially, StreamInductive, PTL DEF StreamSpec

-----------------------------------------------------------------------------
\* The deltas a reviewer sees of a call all come from its last attempt, however
\* often the stream breaks: no text is shown twice.
THEOREM NothingIsRepeated == StreamSpec => []NoTextTwice
  <1>1. StreamInv => NoTextTwice
    BY DEF StreamInv, StoryOf, Story, FeedIsInOrder, NoTextTwice
  <1> QED
    BY <1>1, StreamInvariant, PTL

\* Every message starts once, before all its frames, and is completed once,
\* after them, exactly when its call succeeds.
THEOREM MessagesAreBracketed == StreamSpec => []Bracketed
  <1>1. StreamInv => Bracketed
    BY DEF StreamInv, StoryOf, Story, FeedIsInOrder, Bracketed
  <1> QED
    BY <1>1, StreamInvariant, PTL

-----------------------------------------------------------------------------
(* Types.                                                                  *)

\* A delay is only started while attempts are left, so none is too many.
BreakerTypes ==
  /\ TypeOK
  /\ \A c \in Calls : pc[c] = "waiting" => attempt[c] < Attempts

LEMMA AdmissionTyped ==
  ASSUME BreakerTypes, NEW c \in Calls, Reject(c) \/ AdmitCancelled(c) \/ Admit(c)
  PROVE  BreakerTypes'
  <1>1. state' = Current /\ UNCHANGED <<failures, recent, openedAt, now, cancelled, signal>>
    BY DEF Reject, AdmitCancelled, Admit
  <1>2. state' \in {"closed", "open", "half-open"}
    BY <1>1 DEF Current, BreakerTypes, TypeOK
  <1>3. CASE Reject(c) \/ AdmitCancelled(c)
    BY <1>1, <1>2, <1>3 DEF Reject, AdmitCancelled, BreakerTypes, TypeOK
  <1>4. CASE Admit(c)
    <2>1. Current \in {"closed", "half-open"}
      BY <1>4 DEF Admit, Passes
    <2>2. initialState' \in [Calls -> {"closed", "half-open"}]
      BY <1>4, <2>1 DEF Admit, BreakerTypes, TypeOK
    <2>3. halfOpenInFlight' \in BOOLEAN
      BY <1>4 DEF Admit, BreakerTypes, TypeOK
    <2>4. attempt' \in [Calls -> 0..Attempts] /\ pc' \in [Calls -> {"idle", "calling", "waiting", "done"}]
      BY <1>4 DEF Admit, BreakerTypes, TypeOK
    <2>5. \A d \in Calls : pc'[d] = "waiting" => attempt'[d] < Attempts
      BY <1>4 DEF Admit, BreakerTypes, TypeOK
    <2>6. UNCHANGED result
      BY <1>4 DEF Admit
    <2> QED
      BY <1>1, <1>2, <2>2, <2>3, <2>4, <2>5, <2>6 DEF BreakerTypes, TypeOK
  <1> QED
    BY <1>3, <1>4

\* A failure is numbered by those before it, of which there are finitely many.
LEMMA FailureTyped ==
  ASSUME BreakerTypes, CountInv, NEW c \in Calls, NEW err, EndFailed(c, err)
  PROVE  BreakerTypes'
  <1>1. /\ pc' = [pc EXCEPT ![c] = "done"]
        /\ result' = [result EXCEPT ![c] = IF EndedByCancel(c, err) THEN "cancelled"
                                           ELSE "failed"]
        /\ UNCHANGED <<now, initialState, attempt, cancelled, signal>>
    BY DEF EndFailed
  <1>2. /\ state' \in {"closed", "open", "half-open"} /\ openedAt' \in Nat \union {None}
        /\ halfOpenInFlight' \in BOOLEAN
        /\ failures' \subseteq Failures /\ recent' \subseteq Failures
    <2>1. CASE EndedByCancel(c, err)
      BY <2>1 DEF EndFailed, ReleaseProbe, BreakerTypes, TypeOK
    <2>2. CASE CountFailure(c)
      <3> DEFINE this == [nr |-> Cardinality(recent) + 1, time |-> now]
      <3>1. this \in Failures
        <4>1. Cardinality(recent) \in Nat /\ now \in Nat
          BY FS_CardinalityType DEF CountInv
        <4> QED
          BY <4>1 DEF Failures
      <3>2. failures' \subseteq failures \cup {this} /\ recent' = recent \cup {this}
        BY <2>2 DEF CountFailure, Pruned
      <3>3. state' \in {"open", state} /\ openedAt' \in {now, openedAt}
        BY <2>2 DEF CountFailure, Open
      <3>4. halfOpenInFlight' \in BOOLEAN
        BY <2>2 DEF CountFailure
      <3> HIDE DEF this
      <3> QED
        BY <3>1, <3>2, <3>3, <3>4 DEF BreakerTypes, TypeOK
    <2> QED
      BY <2>1, <2>2 DEF EndFailed
  <1>3. pc' \in [Calls -> {"idle", "calling", "waiting", "done"}]
    BY <1>1 DEF BreakerTypes, TypeOK
  <1>4. result' \in [Calls -> {"none", "ok", "failed", "cancelled", "rejected"}]
    BY <1>1 DEF BreakerTypes, TypeOK
  <1>5. \A d \in Calls : pc'[d] = "waiting" => attempt'[d] < Attempts
    BY <1>1 DEF BreakerTypes, TypeOK
  <1> QED
    BY <1>1, <1>2, <1>3, <1>4, <1>5 DEF BreakerTypes, TypeOK

LEMMA BreakerTypesInductive ==
  ASSUME BreakerTypes, CountInv, [Next]_vars
  PROVE  BreakerTypes'
  <1>1. CASE UNCHANGED vars
    BY <1>1 DEF vars, breakerVars, callVars, BreakerTypes, TypeOK
  <1>2. CASE Tick
    BY <1>2 DEF Tick, breakerVars, callVars, BreakerTypes, TypeOK
  <1>3. ASSUME NEW c \in Calls, Reject(c) \/ AdmitCancelled(c) \/ Admit(c)
        PROVE  BreakerTypes'
    BY <1>3, AdmissionTyped
  <1>4. ASSUME NEW c \in Calls, Succeed(c)
        PROVE  BreakerTypes'
    <2>1. /\ pc' = [pc EXCEPT ![c] = "done"] /\ result' = [result EXCEPT ![c] = "ok"]
          /\ UNCHANGED <<now, initialState, attempt, cancelled, signal>>
      BY <1>4 DEF Succeed
    <2>2. /\ state' \in {"closed", state} /\ openedAt' \in {None, openedAt}
          /\ halfOpenInFlight' \in {FALSE, halfOpenInFlight}
          /\ failures' \subseteq failures /\ recent' \subseteq recent
      BY <1>4 DEF Succeed, Close, breakerVars
    <2> QED
      BY <2>1, <2>2 DEF BreakerTypes, TypeOK
  <1>5. ASSUME NEW c \in Calls, NEW err \in Errors, Fail(c, err)
        PROVE  BreakerTypes'
    <2>1. CASE EndFailed(c, err)
      BY <2>1, FailureTyped
    <2>2. CASE /\ AttemptsLeft(c) /\ pc' = [pc EXCEPT ![c] = "waiting"]
               /\ UNCHANGED <<breakerVars, now, initialState, attempt, cancelled, signal, result>>
      BY <2>2 DEF AttemptsLeft, breakerVars, BreakerTypes, TypeOK
    <2> QED
      BY <1>5, <2>1, <2>2 DEF Fail
  <1>6. ASSUME NEW c \in Calls, Retry(c)
        PROVE  BreakerTypes'
    <2>1. /\ attempt' = [attempt EXCEPT ![c] = @ + 1] /\ pc' = [pc EXCEPT ![c] = "calling"]
          /\ attempt[c] < Attempts
          /\ UNCHANGED <<breakerVars, now, initialState, cancelled, signal, result>>
      BY <1>6 DEF Retry, NextAttempt, BreakerTypes
    <2>2. attempt' \in [Calls -> 0..Attempts]
      BY <2>1 DEF BreakerTypes, TypeOK
    <2>3. \A d \in Calls : pc'[d] = "waiting" => attempt'[d] < Attempts
      BY <2>1 DEF BreakerTypes, TypeOK
    <2> QED
      BY <2>1, <2>2, <2>3 DEF breakerVars, BreakerTypes, TypeOK
  <1>7. ASSUME NEW c \in Calls, WaitAborted(c)
        PROVE  BreakerTypes'
    BY <1>7, FailureTyped DEF WaitAborted
  <1>8. ASSUME NEW c \in Calls, Cancel(c) \/ DeadlineFires(c)
        PROVE  BreakerTypes'
    <2>1. /\ \/ UNCHANGED cancelled
             \/ cancelled' = [cancelled EXCEPT ![c] = TRUE]
          /\ \E why \in {signal[c], "external", "deadline"} : signal' = [signal EXCEPT ![c] = why]
          /\ UNCHANGED <<breakerVars, now, pc, initialState, attempt, result>>
      BY <1>8 DEF Cancel, DeadlineFires
    <2>2. signal' \in [Calls -> {None, "external", "deadline"}]
      BY <2>1 DEF BreakerTypes, TypeOK
    <2> QED
      BY <2>1, <2>2 DEF breakerVars, BreakerTypes, TypeOK
  <1> QED
    BY <1>1, <1>2, <1>3, <1>4, <1>5, <1>6, <1>7, <1>8 DEF Next

\* The breaker and its calls keep their types; no call makes more attempts than
\* it is given.
THEOREM BreakerTypeCorrect == Spec => []TypeOK
  <1>1. Init => BreakerTypes
    <2> SUFFICES ASSUME Init
                 PROVE  BreakerTypes
      OBVIOUS
    <2>1. /\ attempt \in [Calls -> 0..Attempts] /\ now \in 0..MaxTime
          /\ pc \in [Calls -> {"idle", "calling", "waiting", "done"}]
          /\ initialState \in [Calls -> {"closed", "half-open"}]
          /\ result \in [Calls -> {"none", "ok", "failed", "cancelled", "rejected"}]
      BY DEF Init
    <2>2. cancelled \in [Calls -> BOOLEAN] /\ signal \in [Calls -> {None, "external", "deadline"}]
      BY DEF Init
    <2>3. \A c \in Calls : pc[c] = "idle"
      BY DEF Init
    <2>4. /\ state = "closed" /\ failures = {} /\ openedAt = None
          /\ halfOpenInFlight = FALSE /\ recent = {}
      BY DEF Init
    <2> QED
      BY <2>1, <2>2, <2>3, <2>4 DEF BreakerTypes, TypeOK
  <1>2. BreakerTypes => TypeOK
    BY DEF BreakerTypes
  <1>3. BreakerTypes /\ CountInv /\ [Next]_vars => BreakerTypes'
    BY BreakerTypesInductive
  <1> QED
    BY <1>1, <1>2, <1>3, BreakerInitially, CountInductive, ProbeInductive, PTL DEF Spec

\* What streamMessage does to the breaker, the breaker's own callers may do: the
\* marking of an error and the feed change nothing else. So everything proved of
\* the breaker holds behind the stream.
THEOREM StreamUsesTheBreaker == StreamSpec => Spec
  <1>1. StreamInit => Init
    BY DEF StreamInit
  <1>2. [StreamNext]_allVars => [Next]_vars
    <2> SUFFICES ASSUME [StreamNext]_allVars
                 PROVE  [Next]_vars
      OBVIOUS
    <2>1. CASE Tick \/ UNCHANGED vars
      BY <2>1 DEF Next
    <2>2. ASSUME NEW c \in Calls, Announce(c) \/ TextDelta(c) \/ ToolStarts(c)
                   \/ ToolInputDelta(c) \/ ToolCompletes(c)
          PROVE  UNCHANGED vars
      BY <2>2 DEF Announce, TextDelta, ToolStarts, ToolInputDelta, ToolCompletes, Event
    <2>3. ASSUME NEW c \in Calls, BeginCall(c) \/ RetryStream(c) \/ StreamEnds(c)
                   \/ WaitAborted(c) \/ Cancel(c) \/ DeadlineFires(c)
          PROVE  Next
      BY <2>3 DEF BeginCall, RetryStream, StreamEnds, Next
    <2>4. ASSUME NEW c \in Calls, StreamBreaks(c)
          PROVE  Next
      <3>1. PICK err \in Errors \ {"unsafe"} : Fail(c, Marked(c, err))
        BY <2>4 DEF StreamBreaks
      <3>2. Marked(c, err) \in Errors
        BY DEF Marked, Errors
      <3> QED
        BY <3>1, <3>2 DEF Next
    <2> QED
      BY <2>1, <2>2, <2>3, <2>4 DEF StreamNext, allVars
  <1> QED
    BY <1>1, <1>2, PTL DEF StreamSpec, Spec

\* The feed of a call consists of frames, each of one of the call's attempts.
THEOREM StreamTypeCorrect == StreamSpec => [](TypeOK /\ StreamTypeOK)
  <1>1. StreamInv => StreamTypeOK
    BY DEF StreamInv, StoryType
  <1> QED
    BY <1>1, StreamInvariant, StreamUsesTheBreaker, BreakerTypeCorrect, PTL
=============================================================================
