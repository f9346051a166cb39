------------------------- MODULE AgentServer_proofs -------------------------
(***************************************************************************)
(* Proofs about GateSlots and the AgentServer around it: what the gates,   *)
(* the review API and the migrations promise, the latter two across        *)
(* crashes, for any gates, submissions, keys, migrations and bounds.       *)
(***************************************************************************)
EXTENDS AgentServer, TLAPS

USE GateAssumption, PostedAssumption, FileAssumption

-----------------------------------------------------------------------------
(* The gates.                                                              *)

\* An idempotency key is cached exactly while its decision is buffered.
MapMeansBuffered ==
  \A g \in Gates : committedDecision[g] = None => idempotencyMap[g] = EmptyMap

\* Every opened slot but the one being waited for has resolved.
SlotsCounted ==
  /\ \A g \in Gates :
       opened[g] = slotsResolved[g]
                   + (IF awaiting = g /\ handed = None THEN 1 ELSE 0)
  /\ handed # None => awaiting # None

\* The history agrees with the counters.
HistoryAgrees ==
  \A g \in Gates :
    /\ Len(taken[g]) = slotsResolved[g]
    /\ (committedDecision[g] # None /\ slotsResolved[g] = 0) => arrivedIn[g] = 0

GatesInv ==
  /\ TypeOK
  /\ WaiterIsReachable
  /\ MapMeansBuffered
  /\ SlotsCounted
  /\ HistoryAgrees
  /\ StaleNeverConsumed
  /\ DecidedFramesAccounted

-----------------------------------------------------------------------------
(* The invariant holds initially and every step preserves it.              *)

LEMMA InitEstablishesIInv == Init => GatesInv
  BY DEF Init, GatesInv, TypeOK, WaiterIsReachable, MapMeansBuffered, SlotsCounted,
         HistoryAgrees, StaleNeverConsumed, DecidedFramesAccounted, Decision,
         EmptyMap

\* Sends, losses, replays and conflicts touch nothing but the wire.
LEMMA WireStepPreservesIInv ==
  ASSUME GatesInv, UNCHANGED <<gateVars, flowVars, histVars>>,
         inFlight' \in [Submissions -> Nat], sends' \in [Submissions -> 0..MaxSends]
  PROVE  GatesInv'
  BY DEF GatesInv, TypeOK, WaiterIsReachable, MapMeansBuffered, SlotsCounted,
         HistoryAgrees, StaleNeverConsumed, DecidedFramesAccounted,
         gateVars, flowVars, histVars

LEMMA ArriveType ==
  ASSUME TypeOK, NEW s \in Submissions, Arrive(s)
  PROVE  /\ inFlight' \in [Submissions -> Nat]
         /\ sends' \in [Submissions -> 0..MaxSends]
  <1>1. inFlight \in [Submissions -> Nat] /\ sends \in [Submissions -> 0..MaxSends]
    BY DEF TypeOK
  <1>2. /\ inFlight[s] > 0 /\ sends' = sends
        /\ inFlight' = [inFlight EXCEPT ![s] = inFlight[s] - 1]
    BY DEF Arrive
  <1>3. inFlight[s] \in Nat /\ inFlight[s] - 1 \in Nat
    BY <1>1, <1>2
  <1> QED
    BY <1>1, <1>2, <1>3

\* A slot that resolves closes its scope, counts itself and appends one
\* well-typed entry to its history; the other gates keep what they have.
LEMMA ResolveEffect ==
  ASSUME TypeOK, NEW g \in Gates, NEW s \in Submissions, NEW n \in Nat,
         Resolve(g, s, n)
  PROVE  /\ taken' \in [Gates -> Seq([decision : Submissions, during : Nat])]
         /\ slotsResolved' \in [Gates -> Nat]
         /\ idempotencyMap' \in [Gates -> [Keys -> Decision]]
         /\ slotsResolved'[g] = slotsResolved[g] + 1
         /\ idempotencyMap'[g] = EmptyMap
         /\ Len(taken'[g]) = Len(taken[g]) + 1
         /\ \A k \in DOMAIN taken'[g] :
              \/ k \in DOMAIN taken[g] /\ taken'[g][k] = taken[g][k]
              \/ k = Len(taken[g]) + 1 /\ taken'[g][k].during = n
         /\ \A h \in Gates : h # g => /\ slotsResolved'[h] = slotsResolved[h]
                                      /\ idempotencyMap'[h] = idempotencyMap[h]
                                      /\ taken'[h] = taken[h]
  <1> DEFINE e == [decision |-> s, during |-> n]
             E == [decision : Submissions, during : Nat]
  <1>1. taken[g] \in Seq(E) /\ e \in E
    BY DEF TypeOK
  <1>2. /\ taken' = [taken EXCEPT ![g] = Append(taken[g], e)]
        /\ taken \in [Gates -> Seq(E)]
    BY DEF TypeOK, Resolve
  <1>3. Append(taken[g], e) \in Seq(E)
    BY <1>1
  <1>4. /\ taken' \in [Gates -> Seq(E)]
        /\ taken'[g] = Append(taken[g], e)
        /\ \A h \in Gates : h # g => taken'[h] = taken[h]
    <2> HIDE DEF e, E
    <2> QED
      BY <1>2, <1>3
  <1>5. Len(taken'[g]) = Len(taken[g]) + 1
    BY <1>1, <1>4
  <1>6. ASSUME NEW k \in DOMAIN taken'[g]
        PROVE  \/ k \in DOMAIN taken[g] /\ taken'[g][k] = taken[g][k]
               \/ k = Len(taken[g]) + 1 /\ taken'[g][k].during = n
    BY <1>1, <1>4
  <1>7. /\ slotsResolved' = [slotsResolved EXCEPT ![g] = slotsResolved[g] + 1]
        /\ slotsResolved \in [Gates -> Nat]
    BY DEF TypeOK, Resolve
  <1>8. EmptyMap \in [Keys -> Decision]
    BY DEF EmptyMap, Decision
  <1>9. /\ idempotencyMap' = [idempotencyMap EXCEPT ![g] = EmptyMap]
        /\ idempotencyMap \in [Gates -> [Keys -> Decision]]
    BY DEF TypeOK, Resolve, FreshScope
  <1>10. /\ slotsResolved' \in [Gates -> Nat]
         /\ slotsResolved'[g] = slotsResolved[g] + 1
         /\ \A h \in Gates : h # g => slotsResolved'[h] = slotsResolved[h]
    BY <1>7
  <1>11. /\ idempotencyMap' \in [Gates -> [Keys -> Decision]]
         /\ idempotencyMap'[g] = EmptyMap
         /\ \A h \in Gates : h # g => idempotencyMap'[h] = idempotencyMap[h]
    BY <1>8, <1>9
  <1> QED
    BY <1>4, <1>5, <1>6, <1>10, <1>11

\* A committed decision publishes one frame on its gate.
LEMMA AnnounceEffect ==
  ASSUME TypeOK, NEW s \in Submissions, Announce(s)
  PROVE  /\ decidedFrames' \in [Gates -> Nat]
         /\ announced' \in SUBSET Submissions
         /\ decidedFrames'[TargetOf[s]] = decidedFrames[TargetOf[s]] + 1
         /\ \A h \in Gates :
              h # TargetOf[s] => decidedFrames'[h] = decidedFrames[h]
  <1>1. /\ decidedFrames \in [Gates -> Nat]
        /\ announced \in SUBSET Submissions
        /\ TargetOf[s] \in Gates
    BY DEF TypeOK
  <1>2. /\ decidedFrames' = [decidedFrames EXCEPT ![TargetOf[s]]
                                = decidedFrames[TargetOf[s]] + 1]
        /\ announced' = announced \union {s}
    BY DEF Announce
  <1> QED
    BY <1>1, <1>2

LEMMA WakePreservesIInv ==
  ASSUME GatesInv, NEW s \in Submissions, Wake(s)
  PROVE  GatesInv'
  <1> DEFINE g == TargetOf[s]
  <1>1. /\ g \in Gates /\ s # None
        /\ opened \in [Gates -> 0..MaxSlots] /\ opened[g] \in Nat
        /\ waiters \in [Gates -> Nat]
        /\ slotsResolved \in [Gates -> Nat]
    <2>1. g \in Gates /\ s # None
      BY DEF GateAssumption
    <2>2. /\ opened \in [Gates -> 0..MaxSlots] /\ waiters \in [Gates -> Nat]
          /\ slotsResolved \in [Gates -> Nat]
      BY DEF GatesInv, TypeOK
    <2>3. opened[g] \in 0..MaxSlots /\ MaxSlots \in Nat
      BY <2>1, <2>2 DEF GateAssumption
    <2> QED
      BY <2>1, <2>2, <2>3
  <1>2. /\ Arrive(s) /\ Accepts(s) /\ HasWaiter(s)
        /\ Resolve(g, s, opened[g])
        /\ Announce(s)
        /\ waiters' = [waiters EXCEPT ![g] = waiters[g] - 1]
        /\ committedDecision' = committedDecision /\ awaiting' = awaiting
        /\ opened' = opened /\ arrivedIn' = arrivedIn /\ discarded' = discarded
    BY DEF Wake
  <1>3. /\ taken' \in [Gates -> Seq([decision : Submissions, during : Nat])]
        /\ slotsResolved' \in [Gates -> Nat]
        /\ idempotencyMap' \in [Gates -> [Keys -> Decision]]
        /\ slotsResolved'[g] = slotsResolved[g] + 1
        /\ idempotencyMap'[g] = EmptyMap
        /\ Len(taken'[g]) = Len(taken[g]) + 1
        /\ \A k \in DOMAIN taken'[g] :
             \/ k \in DOMAIN taken[g] /\ taken'[g][k] = taken[g][k]
             \/ k = Len(taken[g]) + 1 /\ taken'[g][k].during = opened[g]
        /\ \A h \in Gates : h # g => /\ slotsResolved'[h] = slotsResolved[h]
                                     /\ idempotencyMap'[h] = idempotencyMap[h]
                                     /\ taken'[h] = taken[h]
    BY <1>1, <1>2, ResolveEffect DEF GatesInv
  <1>4. /\ decidedFrames' \in [Gates -> Nat]
        /\ announced' \in SUBSET Submissions
        /\ decidedFrames'[g] = decidedFrames[g] + 1
        /\ \A h \in Gates : h # g => decidedFrames'[h] = decidedFrames[h]
    BY <1>2, AnnounceEffect DEF GatesInv
  <1>5. /\ inFlight' \in [Submissions -> Nat]
        /\ sends' \in [Submissions -> 0..MaxSends]
    BY <1>2, ArriveType DEF GatesInv
  <1>6. waiters[g] > 0 /\ handed' = s
    BY <1>2 DEF HasWaiter, Resolve
  <1>7. awaiting = g /\ handed = None /\ waiters[g] = 1
    BY <1>1, <1>6 DEF GatesInv, WaiterIsReachable
  <1>8. /\ waiters' \in [Gates -> Nat]
        /\ waiters'[g] = 0
        /\ \A h \in Gates : h # g => waiters'[h] = waiters[h]
    BY <1>1, <1>2, <1>7
  <1>9. committedDecision[g] = None
    BY <1>2 DEF Accepts
  <1>10. TypeOK'
    BY <1>2, <1>3, <1>4, <1>5, <1>6, <1>8 DEF GatesInv, TypeOK, Decision
  <1>11. WaiterIsReachable'
    BY <1>1, <1>2, <1>6, <1>7, <1>8 DEF GatesInv, WaiterIsReachable
  <1>12. MapMeansBuffered'
    BY <1>2, <1>3 DEF GatesInv, MapMeansBuffered, EmptyMap
  <1>13. SlotsCounted'
    <2>1. opened[g] = slotsResolved[g] + 1
      BY <1>1, <1>7 DEF GatesInv, SlotsCounted
    <2>2. opened'[g] = slotsResolved'[g]
      BY <1>2, <1>3, <2>1
    <2>3. ASSUME NEW h \in Gates, h # g
          PROVE  opened'[h] = slotsResolved'[h]
      <3>1. opened[h] = slotsResolved[h]
        BY <1>1, <1>7, <2>3 DEF GatesInv, SlotsCounted
      <3> QED
        BY <1>2, <1>3, <2>3, <3>1
    <2>4. \A h \in Gates : opened'[h] = slotsResolved'[h] /\ slotsResolved'[h] \in Nat
      BY <1>3, <2>2, <2>3
    <2>5. handed' # None /\ awaiting' # None
      BY <1>1, <1>2, <1>6, <1>7
    <2> QED
      BY <2>4, <2>5 DEF SlotsCounted
  <1>14. HistoryAgrees'
    BY <1>1, <1>2, <1>3, <1>9 DEF GatesInv, HistoryAgrees
  <1>15. StaleNeverConsumed'
    <2>1. opened[g] = Len(taken[g]) + 1
      BY <1>1, <1>7 DEF GatesInv, SlotsCounted, HistoryAgrees
    <2>2. \A k \in DOMAIN taken[g] :
            taken[g][k].during = k \/ (k = 1 /\ taken[g][k].during = 0)
      BY <1>1 DEF GatesInv, StaleNeverConsumed
    <2>3. \A k \in DOMAIN taken'[g] :
            taken'[g][k].during = k \/ (k = 1 /\ taken'[g][k].during = 0)
      BY <1>3, <2>1, <2>2
    <2>4. ASSUME NEW h \in Gates, h # g
          PROVE  \A k \in DOMAIN taken'[h] :
                   taken'[h][k].during = k \/ (k = 1 /\ taken'[h][k].during = 0)
      <3>1. taken'[h] = taken[h]
        BY <1>3, <2>4
      <3> QED
        BY <3>1 DEF GatesInv, StaleNeverConsumed
    <2> HIDE DEF g
    <2> QED
      BY <2>3, <2>4 DEF StaleNeverConsumed
  <1>16. DecidedFramesAccounted'
    <2>1. /\ decidedFrames \in [Gates -> Nat] /\ discarded \in [Gates -> Nat]
      BY DEF GatesInv, TypeOK
    <2>2. \A h \in Gates :
            decidedFrames[h] = slotsResolved[h] + discarded[h]
                               + (IF committedDecision[h] = None THEN 0 ELSE 1)
      BY DEF GatesInv, DecidedFramesAccounted
    <2>3. ASSUME NEW h \in Gates, h # g
          PROVE  decidedFrames'[h] = decidedFrames[h]
                 /\ slotsResolved'[h] = slotsResolved[h]
      BY <1>3, <1>4, <2>3
    <2>4. /\ decidedFrames'[g] = decidedFrames[g] + 1
          /\ slotsResolved'[g] = slotsResolved[g] + 1
      BY <1>3, <1>4
    <2> HIDE DEF g
    <2>5. ASSUME NEW h \in Gates
          PROVE  decidedFrames'[h]
                   = slotsResolved'[h] + discarded[h]
                     + (IF committedDecision[h] = None THEN 0 ELSE 1)
      BY <1>1, <2>1, <2>2, <2>3, <2>4
    <2> QED
      BY <1>2, <2>5 DEF DecidedFramesAccounted
  <1> QED
    BY <1>10, <1>11, <1>12, <1>13, <1>14, <1>15, <1>16 DEF GatesInv

\* A decision nobody waits for is buffered under its key.
LEMMA BufferEffect ==
  ASSUME TypeOK, NEW s \in Submissions, Buffer(s)
  PROVE  /\ TypeOK'
         /\ committedDecision'[TargetOf[s]] = s
         /\ decidedFrames'[TargetOf[s]] = decidedFrames[TargetOf[s]] + 1
         /\ arrivedIn'[TargetOf[s]] = opened[TargetOf[s]]
         /\ \A h \in Gates : h # TargetOf[s] =>
              /\ committedDecision'[h] = committedDecision[h]
              /\ idempotencyMap'[h] = idempotencyMap[h]
              /\ decidedFrames'[h] = decidedFrames[h]
              /\ arrivedIn'[h] = arrivedIn[h]
  <1> DEFINE g == TargetOf[s]
  <1>1. /\ g \in Gates /\ s # None
        /\ waiters \in [Gates -> Nat] /\ opened \in [Gates -> 0..MaxSlots]
        /\ slotsResolved \in [Gates -> Nat] /\ discarded \in [Gates -> Nat]
        /\ committedDecision \in [Gates -> Decision]
        /\ idempotencyMap \in [Gates -> [Keys -> Decision]]
        /\ decidedFrames \in [Gates -> Nat] /\ arrivedIn \in [Gates -> Nat]
        /\ KeyOf[s] \in Keys \union {None}
    BY DEF TypeOK
  <1>2. /\ Arrive(s) /\ Accepts(s) /\ ~HasWaiter(s) /\ Announce(s)
        /\ committedDecision' = [committedDecision EXCEPT ![g] = s]
        /\ idempotencyMap' = IF KeyOf[s] = None THEN idempotencyMap
                             ELSE [idempotencyMap EXCEPT ![g][KeyOf[s]] = s]
        /\ arrivedIn' = [arrivedIn EXCEPT ![g] = opened[g]]
        /\ waiters' = waiters /\ slotsResolved' = slotsResolved
        /\ awaiting' = awaiting /\ handed' = handed /\ opened' = opened
        /\ discarded' = discarded /\ taken' = taken
    BY DEF Buffer, flowVars
  <1>3. /\ decidedFrames' \in [Gates -> Nat]
        /\ announced' \in SUBSET Submissions
        /\ decidedFrames'[g] = decidedFrames[g] + 1
        /\ \A h \in Gates : h # g => decidedFrames'[h] = decidedFrames[h]
    BY <1>2, AnnounceEffect
  <1>4. /\ inFlight' \in [Submissions -> Nat]
        /\ sends' \in [Submissions -> 0..MaxSends]
    BY <1>2, ArriveType
  <1>5. /\ committedDecision' \in [Gates -> Decision]
        /\ committedDecision'[g] = s
        /\ \A h \in Gates : h # g => committedDecision'[h] = committedDecision[h]
    BY <1>1, <1>2 DEF Decision
  <1>6. /\ idempotencyMap' \in [Gates -> [Keys -> Decision]]
        /\ \A h \in Gates : h # g => idempotencyMap'[h] = idempotencyMap[h]
    <2>1. CASE KeyOf[s] = None
      BY <1>1, <1>2, <2>1
    <2>2. CASE KeyOf[s] # None
      <3>1. KeyOf[s] \in Keys /\ s \in Decision
        BY <1>1, <2>2 DEF Decision
      <3>2. [idempotencyMap[g] EXCEPT ![KeyOf[s]] = s] \in [Keys -> Decision]
        BY <1>1, <3>1
      <3>3. idempotencyMap' = [idempotencyMap EXCEPT ![g]
                                 = [idempotencyMap[g] EXCEPT ![KeyOf[s]] = s]]
        BY <1>1, <1>2, <2>2
      <3> QED
        BY <1>1, <3>2, <3>3
    <2> QED
      BY <2>1, <2>2
  <1>7. /\ arrivedIn' \in [Gates -> Nat]
        /\ arrivedIn'[g] = opened[g]
        /\ \A h \in Gates : h # g => arrivedIn'[h] = arrivedIn[h]
    BY <1>1, <1>2
  <1>8. TypeOK'
    BY <1>2, <1>3, <1>4, <1>5, <1>6, <1>7 DEF TypeOK
  <1> QED
    BY <1>3, <1>5, <1>6, <1>7, <1>8

LEMMA BufferPreservesIInv ==
  ASSUME GatesInv, NEW s \in Submissions, Buffer(s)
  PROVE  GatesInv'
  <1> DEFINE g == TargetOf[s]
  <1>1. /\ g \in Gates /\ s # None
        /\ waiters \in [Gates -> Nat] /\ opened \in [Gates -> 0..MaxSlots]
        /\ slotsResolved \in [Gates -> Nat] /\ discarded \in [Gates -> Nat]
        /\ decidedFrames \in [Gates -> Nat]
    BY DEF GatesInv, TypeOK
  <1>2. /\ Arrive(s) /\ Accepts(s) /\ ~HasWaiter(s) /\ Announce(s)
        /\ committedDecision' = [committedDecision EXCEPT ![g] = s]
        /\ idempotencyMap' = IF KeyOf[s] = None THEN idempotencyMap
                             ELSE [idempotencyMap EXCEPT ![g][KeyOf[s]] = s]
        /\ arrivedIn' = [arrivedIn EXCEPT ![g] = opened[g]]
        /\ waiters' = waiters /\ slotsResolved' = slotsResolved
        /\ awaiting' = awaiting /\ handed' = handed /\ opened' = opened
        /\ discarded' = discarded /\ taken' = taken
    BY DEF Buffer, flowVars
  <1>3. /\ TypeOK'
        /\ committedDecision'[g] = s
        /\ decidedFrames'[g] = decidedFrames[g] + 1
        /\ arrivedIn'[g] = opened[g]
        /\ \A h \in Gates : h # g =>
             /\ committedDecision'[h] = committedDecision[h]
             /\ idempotencyMap'[h] = idempotencyMap[h]
             /\ decidedFrames'[h] = decidedFrames[h]
             /\ arrivedIn'[h] = arrivedIn[h]
    BY BufferEffect DEF GatesInv
  <1>4. waiters[g] = 0 /\ ~(awaiting = g /\ handed = None)
    BY <1>1, <1>2 DEF GatesInv, WaiterIsReachable, HasWaiter
  <1>5. WaiterIsReachable'
    BY <1>1, <1>2, <1>3, <1>4 DEF GatesInv, WaiterIsReachable
  <1>6. MapMeansBuffered'
    BY <1>1, <1>3 DEF GatesInv, MapMeansBuffered, EmptyMap
  <1>7. SlotsCounted'
    BY <1>2 DEF GatesInv, SlotsCounted
  <1>8. HistoryAgrees'
    <2>1. slotsResolved[g] = 0 => opened[g] = 0
      BY <1>1, <1>4 DEF GatesInv, SlotsCounted
    <2> QED
      BY <1>1, <1>2, <1>3, <2>1 DEF GatesInv, HistoryAgrees
  <1>9. StaleNeverConsumed'
    BY <1>2 DEF GatesInv, StaleNeverConsumed
  <1>10. DecidedFramesAccounted'
    <2>1. committedDecision[g] = None
      BY <1>2 DEF Accepts
    <2> QED
      BY <1>1, <1>2, <1>3, <2>1 DEF GatesInv, DecidedFramesAccounted
  <1> QED
    BY <1>3, <1>5, <1>6, <1>7, <1>8, <1>9, <1>10 DEF GatesInv

\* What every way of opening a slot does to the workflow's variables.
LEMMA StartSlotEffect ==
  ASSUME TypeOK, NEW g \in Gates, StartSlot(g)
  PROVE  /\ awaiting = None /\ awaiting' = g
         /\ opened' \in [Gates -> 0..MaxSlots]
         /\ opened'[g] = opened[g] + 1
         /\ \A h \in Gates : h # g => opened'[h] = opened[h]
         /\ inFlight' = inFlight /\ sends' = sends
         /\ decidedFrames' = decidedFrames /\ announced' = announced
         /\ arrivedIn' = arrivedIn
  <1>1. /\ opened \in [Gates -> 0..MaxSlots] /\ opened[g] < MaxSlots
        /\ opened' = [opened EXCEPT ![g] = opened[g] + 1]
    BY DEF TypeOK, StartSlot
  <1>2. /\ opened' \in [Gates -> 0..MaxSlots]
        /\ opened'[g] = opened[g] + 1
        /\ \A h \in Gates : h # g => opened'[h] = opened[h]
    BY <1>1
  <1> QED
    BY <1>2 DEF StartSlot, wireVars

LEMMA OpenConsumePreservesIInv ==
  ASSUME GatesInv, NEW g \in Gates, OpenConsume(g)
  PROVE  GatesInv'
  <1> DEFINE s == committedDecision[g]
  <1>1. /\ committedDecision \in [Gates -> Decision]
        /\ waiters \in [Gates -> Nat] /\ opened \in [Gates -> 0..MaxSlots]
        /\ slotsResolved \in [Gates -> Nat] /\ discarded \in [Gates -> Nat]
        /\ decidedFrames \in [Gates -> Nat]
    BY DEF GatesInv, TypeOK
  <1>2. /\ s # None /\ slotsResolved[g] = 0
        /\ StartSlot(g)
        /\ committedDecision' = [committedDecision EXCEPT ![g] = None]
        /\ Resolve(g, s, arrivedIn[g])
        /\ waiters' = waiters /\ discarded' = discarded
    BY DEF OpenConsume, IsPreDelivery
  <1>3. s \in Submissions /\ arrivedIn[g] = 0
    BY <1>1, <1>2 DEF GatesInv, HistoryAgrees, Decision
  <1>4. /\ awaiting = None /\ awaiting' = g
        /\ opened' \in [Gates -> 0..MaxSlots]
        /\ opened'[g] = opened[g] + 1
        /\ \A h \in Gates : h # g => opened'[h] = opened[h]
        /\ inFlight' = inFlight /\ sends' = sends
        /\ decidedFrames' = decidedFrames /\ announced' = announced
        /\ arrivedIn' = arrivedIn
    BY <1>2, StartSlotEffect DEF GatesInv
  <1>5. /\ taken' \in [Gates -> Seq([decision : Submissions, during : Nat])]
        /\ slotsResolved' \in [Gates -> Nat]
        /\ idempotencyMap' \in [Gates -> [Keys -> Decision]]
        /\ slotsResolved'[g] = slotsResolved[g] + 1
        /\ idempotencyMap'[g] = EmptyMap
        /\ Len(taken'[g]) = Len(taken[g]) + 1
        /\ \A k \in DOMAIN taken'[g] :
             \/ k \in DOMAIN taken[g] /\ taken'[g][k] = taken[g][k]
             \/ k = Len(taken[g]) + 1 /\ taken'[g][k].during = 0
        /\ \A h \in Gates : h # g => /\ slotsResolved'[h] = slotsResolved[h]
                                     /\ idempotencyMap'[h] = idempotencyMap[h]
                                     /\ taken'[h] = taken[h]
    BY <1>2, <1>3, ResolveEffect DEF GatesInv
  <1>6. handed = None /\ handed' = s
    BY <1>2, <1>4 DEF GatesInv, SlotsCounted, Resolve
  <1>7. /\ committedDecision' \in [Gates -> Decision]
        /\ committedDecision'[g] = None
        /\ \A h \in Gates : h # g => committedDecision'[h] = committedDecision[h]
    BY <1>1, <1>2 DEF Decision
  <1>8. awaiting # g
    BY <1>4
  <1>9. TypeOK'
    BY <1>2, <1>3, <1>4, <1>5, <1>6, <1>7 DEF GatesInv, TypeOK, Decision
  <1>10. WaiterIsReachable'
    BY <1>2, <1>4, <1>6 DEF GatesInv, WaiterIsReachable
  <1>11. MapMeansBuffered'
    BY <1>5, <1>7 DEF GatesInv, MapMeansBuffered, EmptyMap
  <1>12. SlotsCounted'
    <2>1. \A h \in Gates : opened[h] = slotsResolved[h]
      BY <1>1, <1>4 DEF GatesInv, SlotsCounted
    <2>2. ASSUME NEW h \in Gates
          PROVE  opened'[h] = slotsResolved'[h]
      BY <1>1, <1>4, <1>5, <2>1
    <2>3. \A h \in Gates : opened'[h] = slotsResolved'[h] /\ slotsResolved'[h] \in Nat
      BY <1>5, <2>2
    <2>4. handed' # None /\ awaiting' # None
      BY <1>2, <1>4, <1>6
    <2> QED
      BY <2>3, <2>4 DEF SlotsCounted
  <1>13. HistoryAgrees'
    BY <1>1, <1>4, <1>5, <1>7 DEF GatesInv, HistoryAgrees
  <1>14. StaleNeverConsumed'
    <2>1. Len(taken[g]) = 0
      BY <1>2 DEF GatesInv, HistoryAgrees
    <2>2. taken[g] \in Seq([decision : Submissions, during : Nat])
      BY DEF GatesInv, TypeOK
    <2>3. \A k \in DOMAIN taken'[g] : k = 1 /\ taken'[g][k].during = 0
      BY <1>5, <2>1, <2>2
    <2>4. ASSUME NEW h \in Gates, h # g
          PROVE  \A k \in DOMAIN taken'[h] :
                   taken'[h][k].during = k \/ (k = 1 /\ taken'[h][k].during = 0)
      <3>1. taken'[h] = taken[h]
        BY <1>5, <2>4
      <3> QED
        BY <3>1 DEF GatesInv, StaleNeverConsumed
    <2> QED
      BY <2>3, <2>4 DEF StaleNeverConsumed
  <1>15. DecidedFramesAccounted'
    <2>1. \A h \in Gates :
            decidedFrames[h] = slotsResolved[h] + discarded[h]
                               + (IF committedDecision[h] = None THEN 0 ELSE 1)
      BY DEF GatesInv, DecidedFramesAccounted
    <2>2. decidedFrames'[g] = slotsResolved'[g] + discarded'[g]
                              + (IF committedDecision'[g] = None THEN 0 ELSE 1)
      BY <1>1, <1>2, <1>4, <1>5, <1>7, <2>1
    <2>3. ASSUME NEW h \in Gates, h # g
          PROVE  decidedFrames'[h] = slotsResolved'[h] + discarded'[h]
                              + (IF committedDecision'[h] = None THEN 0 ELSE 1)
      BY <1>2, <1>4, <1>5, <1>7, <2>1, <2>3
    <2> QED
      BY <2>2, <2>3 DEF DecidedFramesAccounted
  <1> QED
    BY <1>9, <1>10, <1>11, <1>12, <1>13, <1>14, <1>15 DEF GatesInv

\* Both remaining ways to open a slot park a waiter on an emptied register.
LEMMA OpenAndWaitPreservesIInv ==
  ASSUME GatesInv, NEW g \in Gates, OpenDiscard(g) \/ OpenWait(g)
  PROVE  GatesInv'
  <1>1. /\ committedDecision \in [Gates -> Decision]
        /\ waiters \in [Gates -> Nat] /\ opened \in [Gates -> 0..MaxSlots]
        /\ slotsResolved \in [Gates -> Nat] /\ discarded \in [Gates -> Nat]
        /\ decidedFrames \in [Gates -> Nat]
        /\ idempotencyMap \in [Gates -> [Keys -> Decision]]
    BY DEF GatesInv, TypeOK
  <1>2. /\ StartSlot(g)
        /\ waiters' = [waiters EXCEPT ![g] = waiters[g] + 1]
        /\ slotsResolved' = slotsResolved /\ handed' = handed /\ taken' = taken
    BY DEF OpenDiscard, OpenWait
  <1>3. /\ awaiting = None /\ awaiting' = g
        /\ opened' \in [Gates -> 0..MaxSlots]
        /\ opened'[g] = opened[g] + 1
        /\ \A h \in Gates : h # g => opened'[h] = opened[h]
        /\ inFlight' = inFlight /\ sends' = sends
        /\ decidedFrames' = decidedFrames /\ announced' = announced
        /\ arrivedIn' = arrivedIn
    BY <1>2, StartSlotEffect DEF GatesInv
  <1>4. handed = None /\ awaiting # g
    BY <1>3 DEF GatesInv, SlotsCounted
  <1>5. waiters[g] = 0
    BY <1>4 DEF GatesInv, WaiterIsReachable
  <1>6. /\ waiters' \in [Gates -> Nat]
        /\ waiters'[g] = 1
        /\ \A h \in Gates : h # g => waiters'[h] = waiters[h]
    BY <1>1, <1>2, <1>5
  \* the discarded decision is counted, so buffered + discarded is unchanged
  <1>7. /\ committedDecision' \in [Gates -> Decision]
        /\ committedDecision'[g] = None
        /\ \A h \in Gates : h # g => committedDecision'[h] = committedDecision[h]
        /\ discarded' \in [Gates -> Nat]
        /\ discarded'[g] = discarded[g]
                           + (IF committedDecision[g] = None THEN 0 ELSE 1)
        /\ \A h \in Gates : h # g => discarded'[h] = discarded[h]
        /\ idempotencyMap' \in [Gates -> [Keys -> Decision]]
        /\ idempotencyMap'[g] = EmptyMap
        /\ \A h \in Gates : h # g => idempotencyMap'[h] = idempotencyMap[h]
    <2>1. CASE OpenDiscard(g)
      <3>1. /\ committedDecision[g] # None
            /\ committedDecision' = [committedDecision EXCEPT ![g] = None]
            /\ idempotencyMap' = [idempotencyMap EXCEPT ![g] = EmptyMap]
            /\ discarded' = [discarded EXCEPT ![g] = discarded[g] + 1]
        BY <2>1 DEF OpenDiscard, FreshScope
      <3>2. EmptyMap \in [Keys -> Decision] /\ None \in Decision
        BY DEF EmptyMap, Decision
      <3>3. /\ committedDecision' \in [Gates -> Decision]
            /\ committedDecision'[g] = None
            /\ \A h \in Gates : h # g => committedDecision'[h] = committedDecision[h]
        BY <1>1, <3>1, <3>2
      <3>4. /\ idempotencyMap' \in [Gates -> [Keys -> Decision]]
            /\ idempotencyMap'[g] = EmptyMap
            /\ \A h \in Gates : h # g => idempotencyMap'[h] = idempotencyMap[h]
        BY <1>1, <3>1, <3>2
      <3>5. /\ discarded' \in [Gates -> Nat]
            /\ discarded'[g] = discarded[g] + 1
            /\ \A h \in Gates : h # g => discarded'[h] = discarded[h]
        BY <1>1, <3>1
      <3> QED
        BY <3>1, <3>3, <3>4, <3>5
    <2>2. CASE OpenWait(g)
      <3>1. /\ committedDecision[g] = None
            /\ committedDecision' = committedDecision
            /\ idempotencyMap' = idempotencyMap
            /\ discarded' = discarded
        BY <2>2 DEF OpenWait
      <3>2. idempotencyMap[g] = EmptyMap
        BY <3>1 DEF GatesInv, MapMeansBuffered
      <3> QED
        BY <1>1, <3>1, <3>2
    <2> QED
      BY <2>1, <2>2
  <1>8. TypeOK'
    BY <1>2, <1>3, <1>6, <1>7 DEF GatesInv, TypeOK
  <1>9. WaiterIsReachable'
    BY <1>2, <1>3, <1>4, <1>6, <1>7 DEF GatesInv, WaiterIsReachable, EmptyMap
  <1>10. MapMeansBuffered'
    BY <1>7 DEF GatesInv, MapMeansBuffered, EmptyMap
  <1>11. SlotsCounted'
    BY <1>1, <1>2, <1>3, <1>4 DEF GatesInv, SlotsCounted
  <1>12. HistoryAgrees' /\ StaleNeverConsumed'
    BY <1>2, <1>3, <1>7 DEF GatesInv, HistoryAgrees, StaleNeverConsumed
  <1>13. DecidedFramesAccounted'
    <2> SUFFICES ASSUME NEW h \in Gates
                 PROVE  decidedFrames'[h]
                        = slotsResolved'[h] + discarded'[h]
                          + (IF committedDecision'[h] = None THEN 0 ELSE 1)
      BY DEF DecidedFramesAccounted
    <2>1. /\ decidedFrames[h]
             = slotsResolved[h] + discarded[h]
               + (IF committedDecision[h] = None THEN 0 ELSE 1)
          /\ slotsResolved[h] \in Nat /\ discarded[h] \in Nat
      BY <1>1 DEF GatesInv, DecidedFramesAccounted
    <2>2. decidedFrames'[h] = decidedFrames[h] /\ slotsResolved'[h] = slotsResolved[h]
      BY <1>2, <1>3
    <2>3. CASE h = g
      BY <1>7, <2>1, <2>2, <2>3
    <2>4. CASE h # g
      BY <1>7, <2>1, <2>2, <2>4
    <2> QED
      BY <2>3, <2>4
  <1> QED
    BY <1>8, <1>9, <1>10, <1>11, <1>12, <1>13 DEF GatesInv

LEMMA ResumePreservesIInv ==
  ASSUME GatesInv, Resume
  PROVE  GatesInv'
  <1> USE DEF GatesInv
  <1>1. awaiting \in Gates /\ waiters[awaiting] = 0
    BY DEF Resume, SlotsCounted, WaiterIsReachable, TypeOK
  <1>2. TypeOK'
    BY DEF Resume, TypeOK, Decision, gateVars, wireVars, histVars
  <1>3. WaiterIsReachable' /\ SlotsCounted'
    BY <1>1 DEF Resume, WaiterIsReachable, SlotsCounted, TypeOK, gateVars
  <1>4. /\ MapMeansBuffered' /\ HistoryAgrees'
        /\ StaleNeverConsumed' /\ DecidedFramesAccounted'
    BY DEF Resume, MapMeansBuffered, HistoryAgrees, StaleNeverConsumed,
       DecidedFramesAccounted, gateVars, histVars
  <1> QED
    BY <1>2, <1>3, <1>4

LEMMA StepPreservesIInv == GatesInv /\ [Next]_vars => GatesInv'
  <1> SUFFICES ASSUME GatesInv, [Next]_vars
               PROVE  GatesInv'
    OBVIOUS
  <1>0. inFlight \in [Submissions -> Nat] /\ sends \in [Submissions -> 0..MaxSends]
    BY DEF GatesInv, TypeOK
  <1>1. ASSUME NEW s \in Submissions, Send(s)
        PROVE  GatesInv'
    <2>1. /\ inFlight' \in [Submissions -> Nat]
          /\ sends' \in [Submissions -> 0..MaxSends]
      BY <1>0, <1>1 DEF Send
    <2> QED
      BY <1>1, <2>1, WireStepPreservesIInv DEF Send
  <1>2. ASSUME NEW s \in Submissions, Lose(s)
        PROVE  GatesInv'
    <2>1. /\ inFlight' \in [Submissions -> Nat]
          /\ sends' \in [Submissions -> 0..MaxSends]
      BY <1>0, <1>2 DEF Lose
    <2> QED
      BY <1>2, <2>1, WireStepPreservesIInv DEF Lose
  <1>3. ASSUME NEW s \in Submissions, Replay(s) \/ Conflict(s)
        PROVE  GatesInv'
    BY <1>3, WireStepPreservesIInv, ArriveType DEF GatesInv, Replay, Conflict
  <1>4. CASE UNCHANGED vars
    <2>1. /\ UNCHANGED <<gateVars, flowVars, histVars>>
          /\ inFlight' = inFlight /\ sends' = sends
      BY <1>4 DEF vars, wireVars
    <2>2. inFlight \in [Submissions -> Nat] /\ sends \in [Submissions -> 0..MaxSends]
      BY DEF GatesInv, TypeOK
    <2> QED
      BY <2>1, <2>2, WireStepPreservesIInv
  <1> QED
    <2>1. ASSUME NEW s \in Submissions, Send(s) \/ Lose(s) \/ Deliver(s)
          PROVE  GatesInv'
      BY <1>1, <1>2, <1>3, <2>1, WakePreservesIInv, BufferPreservesIInv
         DEF Deliver
    <2>2. ASSUME NEW g \in Gates, OpenSlot(g)
          PROVE  GatesInv'
      BY <2>2, OpenConsumePreservesIInv, OpenAndWaitPreservesIInv DEF OpenSlot
    <2>3. CASE Resume
      BY <2>3, ResumePreservesIInv
    <2> QED
      BY <1>4, <2>1, <2>2, <2>3 DEF Next

-----------------------------------------------------------------------------
(* First writer wins, step by step.                                        *)

\* A held decision is replaced by no step: it is only given up.
HeldIsKept ==
  /\ \A g \in Gates : committedDecision[g] # None =>
                        committedDecision'[g] \in {committedDecision[g], None}
  /\ handed # None => handed' \in {handed, None}

LEMMA StepKeepsHeld ==
  ASSUME GatesInv, Next
  PROVE  HeldIsKept
  <1>1. committedDecision \in [Gates -> Decision]
    BY DEF GatesInv, TypeOK
  <1>2. ASSUME NEW s \in Submissions, Send(s) \/ Lose(s) \/ Replay(s) \/ Conflict(s)
        PROVE  HeldIsKept
    BY <1>2 DEF Send, Lose, Replay, Conflict, HeldIsKept, gateVars, flowVars
  <1>3. ASSUME NEW s \in Submissions, Wake(s)
        PROVE  HeldIsKept
    <2>1. waiters[TargetOf[s]] > 0 /\ committedDecision' = committedDecision
      BY <1>3 DEF Wake, HasWaiter
    <2>2. TargetOf[s] \in Gates
      OBVIOUS
    <2>3. handed = None
      BY <2>1, <2>2 DEF GatesInv, WaiterIsReachable
    <2> QED
      BY <2>1, <2>3 DEF HeldIsKept
  <1>4. ASSUME NEW s \in Submissions, Buffer(s)
        PROVE  HeldIsKept
    <2>1. /\ committedDecision[TargetOf[s]] = None
          /\ committedDecision' = [committedDecision EXCEPT ![TargetOf[s]] = s]
          /\ handed' = handed
      BY <1>4 DEF Buffer, Accepts, flowVars
    <2> QED
      BY <1>1, <2>1 DEF HeldIsKept
  <1>5. ASSUME NEW g \in Gates, OpenSlot(g)
        PROVE  HeldIsKept
    <2>1. awaiting = None
      BY <1>5 DEF OpenSlot, OpenConsume, OpenDiscard, OpenWait, StartSlot
    <2>2. handed = None
      BY <2>1 DEF GatesInv, SlotsCounted
    <2>3. \/ committedDecision' = [committedDecision EXCEPT ![g] = None]
          \/ committedDecision' = committedDecision
      BY <1>5 DEF OpenSlot, OpenConsume, OpenDiscard, OpenWait
    <2> QED
      BY <1>1, <2>2, <2>3 DEF HeldIsKept
  <1>6. CASE Resume
    BY <1>6 DEF Resume, HeldIsKept, gateVars
  <1> QED
    BY <1>2, <1>3, <1>4, <1>5, <1>6 DEF Next, Deliver

-----------------------------------------------------------------------------
(* Every step of the register is a step of ReviewRounds or a stutter.      *)

LEMMA InitRefines == Init => Rounds!Init
  BY DEF Init, Rounds!Init

LEMMA StepRefines ==
  ASSUME GatesInv, Next
  PROVE  Rounds!Next \/ UNCHANGED Rounds!vars
  <1>1. /\ committedDecision \in [Gates -> Decision]
        /\ slotsResolved \in [Gates -> Nat]
        /\ opened \in [Gates -> 0..MaxSlots]
    BY DEF GatesInv, TypeOK
  <1>2. ASSUME NEW s \in Submissions, Send(s) \/ Lose(s) \/ Replay(s) \/ Conflict(s)
        PROVE  UNCHANGED Rounds!vars
    BY <1>2 DEF Send, Lose, Replay, Conflict, Rounds!vars, gateVars, flowVars
  <1>3. ASSUME NEW s \in Submissions, Wake(s)
        PROVE  Rounds!Answer(s)
    <2>1. /\ waiters[TargetOf[s]] > 0 /\ handed' = s
          /\ committedDecision' = committedDecision
          /\ awaiting' = awaiting /\ opened' = opened
      BY <1>3 DEF Wake, HasWaiter, Resolve
    <2>2. TargetOf[s] \in Gates
      OBVIOUS
    <2>3. awaiting = TargetOf[s] /\ handed = None
      BY <2>1, <2>2 DEF GatesInv, WaiterIsReachable
    <2> QED
      BY <2>1, <2>3 DEF Rounds!Answer
  <1>4. ASSUME NEW s \in Submissions, Buffer(s)
        PROVE  Rounds!KeepEarly(s)
    <2>1. /\ committedDecision[TargetOf[s]] = None
          /\ committedDecision' = [committedDecision EXCEPT ![TargetOf[s]] = s]
          /\ handed' = handed /\ awaiting' = awaiting /\ opened' = opened
          /\ ~(waiters[TargetOf[s]] > 0)
      BY <1>4 DEF Buffer, Accepts, HasWaiter, flowVars
    <2>2. TargetOf[s] \in Gates
      OBVIOUS
    <2>3. ~(awaiting = TargetOf[s] /\ handed = None)
      BY <2>1, <2>2 DEF GatesInv, WaiterIsReachable
    <2> QED
      BY <2>1, <2>3 DEF Rounds!KeepEarly
  <1>5. ASSUME NEW g \in Gates, OpenSlot(g)
        PROVE  Rounds!Ask(g)
    <2>1. /\ awaiting = None /\ opened[g] < MaxSlots /\ awaiting' = g
          /\ opened' = [opened EXCEPT ![g] = opened[g] + 1]
      BY <1>5 DEF OpenSlot, OpenConsume, OpenDiscard, OpenWait, StartSlot
    <2>2. handed = None
      BY <2>1 DEF GatesInv, SlotsCounted
    <2>3. opened[g] = slotsResolved[g]
      BY <1>1, <2>1 DEF GatesInv, SlotsCounted
    <2>4. CASE OpenConsume(g)
      <3>1. /\ slotsResolved[g] = 0 /\ handed' = committedDecision[g]
            /\ committedDecision' = [committedDecision EXCEPT ![g] = None]
        BY <2>4 DEF OpenConsume, IsPreDelivery, Resolve
      <3> QED
        BY <2>1, <2>3, <3>1 DEF Rounds!Ask
    <2>5. CASE OpenDiscard(g)
      <3>1. /\ slotsResolved[g] # 0 /\ handed' = handed
            /\ committedDecision' = [committedDecision EXCEPT ![g] = None]
        BY <2>5 DEF OpenDiscard, IsPreDelivery
      <3> QED
        BY <2>1, <2>2, <2>3, <3>1 DEF Rounds!Ask
    <2>6. CASE OpenWait(g)
      <3>1. /\ committedDecision[g] = None /\ handed' = handed
            /\ committedDecision' = committedDecision
        BY <2>6 DEF OpenWait
      <3>2. committedDecision = [committedDecision EXCEPT ![g] = None]
        BY <1>1, <3>1
      <3> QED
        BY <2>1, <2>2, <3>1, <3>2 DEF Rounds!Ask
    <2> QED
      BY <1>5, <2>4, <2>5, <2>6 DEF OpenSlot
  <1>6. CASE Resume
    BY <1>6 DEF Resume, Rounds!Continue, Rounds!Next, gateVars
  <1>7. ASSUME NEW s \in Submissions, Send(s) \/ Lose(s) \/ Deliver(s)
        PROVE  Rounds!Next \/ UNCHANGED Rounds!vars
    BY <1>2, <1>3, <1>4, <1>7 DEF Deliver, Rounds!Next
  <1>8. ASSUME NEW g \in Gates, OpenSlot(g)
        PROVE  Rounds!Next
    BY <1>5, <1>8 DEF Rounds!Next
  <1> QED
    BY <1>6, <1>7, <1>8 DEF Next

-----------------------------------------------------------------------------
(* What follows from the invariant.                                        *)

\* The inductive invariant holds in every reachable state.
THEOREM GatesInvariant == Spec => []GatesInv
  BY InitEstablishesIInv, StepPreservesIInv, PTL DEF Spec

\* Every variable of the gates keeps its type.
THEOREM GatesTypeCorrect == Spec => []TypeOK
  BY GatesInvariant, PTL DEF GatesInv

\* A suspended workflow never misses the next submission that arrives.
THEOREM GatesWaiterReachable == Spec => []WaiterIsReachable
  BY GatesInvariant, PTL DEF GatesInv

\* A decision made for one slot never resolves a later one.
THEOREM GatesStaleNeverConsumed == Spec => []StaleNeverConsumed
  BY GatesInvariant, PTL DEF GatesInv

\* The review.decided frames on the timeline are all accounted for.
THEOREM GatesFramesAccounted == Spec => []DecidedFramesAccounted
  BY GatesInvariant, PTL DEF GatesInv

\* No later submission ever replaces a decision that is held.
THEOREM GatesFirstWriterWins == Spec => FirstWriterWins
  <1>1. GatesInv /\ [Next]_vars => [HeldIsKept]_vars
    BY StepKeepsHeld
  <1>2. [HeldIsKept]_vars
          => [ /\ \A g \in Gates : committedDecision[g] # None =>
                             committedDecision'[g] \in {committedDecision[g], None}
               /\ handed # None => handed' \in {handed, None} ]_vars
    BY DEF HeldIsKept
  <1> QED
    BY <1>1, <1>2, GatesInvariant, PTL DEF Spec, FirstWriterWins

\* The register implements the abstract review rounds: whatever is retried,
\* lost, buffered or refused, the workflow sees one answer per question.
THEOREM GatesImplementRounds == Spec => GatesKeepTheirPromise
  <1>1. GatesInv /\ [Next]_vars => [Rounds!Next]_(Rounds!vars)
    <2>1. ASSUME GatesInv, UNCHANGED vars
          PROVE  UNCHANGED Rounds!vars
      BY <2>1 DEF vars, gateVars, flowVars, Rounds!vars
    <2> QED
      BY <2>1, StepRefines
  <1> QED
    BY <1>1, InitRefines, GatesInvariant, PTL
       DEF Spec, GatesKeepTheirPromise, Rounds!Spec

-----------------------------------------------------------------------------
(* Migrations.                                                             *)

MigrationInv ==
  /\ tracker \subseteq Files
  /\ ran \in [Files -> Nat]
  /\ runner \in [Runners -> RunnerStates]
  /\ known \in [Runners -> SUBSET Files]
  /\ process \in {"down", "booting", "serving", "draining"}
  /\ \A p \in Runners : known[p] \subseteq tracker
  /\ runner["agent"] = "done" => tracker = Files
  /\ MigratedOnce

\* The steps of the run and of its clients leave the migrations alone.
LEMMA RunLeavesMigrations ==
  ASSUME [ServerNext]_allVars,
         ~(Boot \/ Serve \/ BootFails \/ Crash \/ Drained \/ RunCli
             \/ \E p \in Runners : Migrate(p))
  PROVE  /\ UNCHANGED <<tracker, ran, runner, known>>
         /\ process' = process \/ (process = "serving" /\ process' = "draining")
  <1>1. CASE Shutdown \/ StartRun \/ WorkflowStep \/ EndWorkflow \/ CloseRun
    BY <1>1 DEF Shutdown, StartRun, WorkflowStep, EndWorkflow, CloseRun, migrationVars,
                serverVars
  <1>2. CASE CloseFails \/ Dispose \/ OpenPage \/ ClosePage
    BY <1>2 DEF CloseFails, Dispose, OpenPage, ClosePage, migrationVars
  <1>3. CASE \E s \in Submissions : SendTo(s) \/ LoseOnWire(s) \/ ReceiveFrom(s)
    BY <1>3 DEF SendTo, LoseOnWire, ReceiveFrom, migrationVars, serverVars
  <1>4. CASE SettleOne \/ FailOne
    BY <1>4 DEF SettleOne, FailOne, migrationVars, serverVars
  <1>5. CASE UNCHANGED allVars
    BY <1>5 DEF allVars, migrationVars, serverVars
  <1> QED
    BY <1>1, <1>2, <1>3, <1>4, <1>5 DEF ServerNext

\* The database commits the files in order and each of them once.
LEMMA FileApplied ==
  ASSUME MigrationInv, NEW p \in Runners, ApplyOne(p), UNCHANGED process
  PROVE  MigrationInv'
  <1>1. PICK f \in Files :
          /\ IsNext(p, f) /\ f \notin tracker
          /\ tracker' = tracker \cup {f}
          /\ ran' = [ran EXCEPT ![f] = ran[f] + 1]
          /\ known' = [known EXCEPT ![p] = known[p] \cup {f}]
          /\ runner' = runner
    BY DEF ApplyOne, InsertsName
  <1>2. f \in Int /\ 1..(f - 1) \subseteq tracker
    BY <1>1 DEF IsNext, MigrationInv, Files
  <1>3. /\ tracker' \subseteq Files /\ ran' \in [Files -> Nat]
        /\ known' \in [Runners -> SUBSET Files]
        /\ \A q \in Runners : known'[q] \subseteq tracker'
    BY <1>1 DEF MigrationInv
  <1>4. \A g \in Files : ran'[g] = IF g \in tracker' THEN 1 ELSE 0
    BY <1>1 DEF MigrationInv, MigratedOnce
  <1>5. 1..f \subseteq tracker'
    <2>1. \A i \in 1..f : i = f \/ i \in 1..(f - 1)
      BY <1>2
    <2> QED
      BY <1>1, <1>2, <2>1
  <1>6. \A g \in tracker' : 1..g \subseteq tracker'
    BY <1>1, <1>5 DEF MigrationInv, MigratedOnce
  <1>7. tracker = Files => tracker' = Files
    BY <1>1
  <1> QED
    BY <1>1, <1>3, <1>4, <1>6, <1>7 DEF MigrationInv, MigratedOnce, Running

\* A runner that ends, however it does, forgets what it knew. It ends well only
\* when it knows every file.
LEMMA RunnerEnds ==
  ASSUME MigrationInv, NEW p \in Runners, NEW how \in {"done", "failed"}, Finish(p, how),
         how = "done" => tracker = Files, UNCHANGED process
  PROVE  MigrationInv'
  <1>1. /\ UNCHANGED <<tracker, ran>>
        /\ runner' = [runner EXCEPT ![p] = IF p = "cli" THEN "idle" ELSE how]
        /\ known' = [known EXCEPT ![p] = {}]
    BY DEF Finish
  <1>2. runner' \in [Runners -> RunnerStates]
    BY <1>1 DEF MigrationInv, RunnerStates
  <1>3. runner'["agent"] = "done" => tracker = Files
    BY <1>1 DEF MigrationInv, Runners
  <1>4. /\ known' \in [Runners -> SUBSET Files]
        /\ \A q \in Runners : known'[q] \subseteq tracker
    BY <1>1 DEF MigrationInv
  <1> QED
    BY <1>1, <1>2, <1>3, <1>4 DEF MigrationInv, MigratedOnce, Running

LEMMA RunnerStarts ==
  ASSUME MigrationInv, NEW p \in Runners, StartMigrating(p),
         UNCHANGED process \/ process' = "booting"
  PROVE  MigrationInv'
  <1>1. /\ UNCHANGED <<tracker, ran>>
        /\ runner' = [runner EXCEPT ![p] = "applying"]
        /\ known' = [known EXCEPT ![p] = tracker]
    BY DEF StartMigrating
  <1>2. runner' \in [Runners -> RunnerStates]
    BY <1>1 DEF MigrationInv, RunnerStates
  <1>3. runner'["agent"] = "done" => tracker = Files
    BY <1>1 DEF MigrationInv, Runners
  <1>4. /\ known' \in [Runners -> SUBSET Files]
        /\ \A q \in Runners : known'[q] \subseteq tracker
    BY <1>1 DEF MigrationInv
  <1> QED
    BY <1>1, <1>2, <1>3, <1>4 DEF MigrationInv, MigratedOnce, Running

\* The process of the agent ends: the database keeps what was committed.
LEMMA StopKeepsTables ==
  ASSUME MigrationInv, Stop
  PROVE  MigrationInv'
  <1>1. /\ UNCHANGED <<tracker, ran>> /\ process' = "down"
        /\ runner' = [runner EXCEPT !["agent"] = "idle"]
        /\ known' = [known EXCEPT !["agent"] = {}]
    BY DEF Stop
  <1>2. /\ runner' \in [Runners -> RunnerStates] /\ runner'["agent"] # "done"
    BY <1>1 DEF MigrationInv, RunnerStates, Runners
  <1>3. /\ known' \in [Runners -> SUBSET Files]
        /\ \A q \in Runners : known'[q] \subseteq tracker
    BY <1>1 DEF MigrationInv
  <1> QED
    BY <1>1, <1>2, <1>3 DEF MigrationInv, MigratedOnce, Running

LEMMA MigrationInductive ==
  MigrationInv /\ [ServerNext]_allVars => MigrationInv'
  <1> SUFFICES ASSUME MigrationInv, [ServerNext]_allVars
               PROVE  MigrationInv'
    OBVIOUS
  <1>1. CASE Boot \/ RunCli
    <2>1. \E p \in Runners : /\ StartMigrating(p)
                             /\ UNCHANGED process \/ process' = "booting"
      BY <1>1 DEF Boot, RunCli, serverVars, Runners
    <2> QED
      BY <2>1, RunnerStarts
  <1>2. CASE Serve
    <2>1. /\ tracker = Files /\ process' = "serving"
          /\ UNCHANGED <<tracker, ran, runner, known>>
      BY <1>2 DEF Serve, MigrationInv, migrationVars
    <2> QED
      BY <2>1 DEF MigrationInv, MigratedOnce
  <1>3. CASE BootFails \/ Crash \/ Drained
    BY <1>3, StopKeepsTables DEF BootFails, Crash, Drained
  <1>4. ASSUME NEW p \in Runners, Migrate(p)
        PROVE  MigrationInv'
    <2>1. UNCHANGED process
      BY <1>4 DEF Migrate, serverVars
    <2>2. CASE ApplyOne(p)
      BY <2>1, <2>2, FileApplied
    <2>3. CASE ApplyFails(p)
      BY <2>1, <2>3, RunnerEnds DEF ApplyFails
    <2>4. CASE Migrated(p)
      <3>1. Finish(p, "done") /\ tracker = Files
        BY <2>4 DEF Migrated, MigrationInv
      <3> QED
        BY <2>1, <3>1, RunnerEnds
    <2> QED
      BY <1>4, <2>2, <2>3, <2>4 DEF Migrate, MigrationStep
  <1>5. CASE ~(Boot \/ Serve \/ BootFails \/ Crash \/ Drained \/ RunCli
                 \/ \E p \in Runners : Migrate(p))
    <2>1. /\ UNCHANGED <<tracker, ran, runner, known>>
          /\ process' = process \/ (process = "serving" /\ process' = "draining")
      BY <1>5, RunLeavesMigrations
    <2> QED
      BY <2>1 DEF MigrationInv, MigratedOnce, Running
  <1> QED
    BY <1>1, <1>2, <1>3, <1>4, <1>5

\* However two runners race, fail and are started again, every migration takes
\* effect once and in order, and the agent listens only behind all of them.
THEOREM MigrationsHappenOnce == ServerSpec => []MigratedOnce
  <1>1. ServerInit => MigrationInv
    BY DEF ServerInit, MigrationInit, MigrationInv, MigratedOnce, Running, Runners,
           RunnerStates
  <1>2. MigrationInv => MigratedOnce
    BY DEF MigrationInv
  <1> QED
    BY <1>1, <1>2, MigrationInductive, PTL DEF ServerSpec

-----------------------------------------------------------------------------
(* Answers.                                                                *)

\* What the bus holds was announced, under its own key and on its own gate.
RegisterInv ==
  /\ announced \subseteq Submissions
  /\ committedDecision \in [Gates -> Submissions \cup {None}]
  /\ idempotencyMap \in [Gates -> [Keys -> Submissions \cup {None}]]
  /\ \A g \in Gates : committedDecision[g] # None =>
       committedDecision[g] \in announced /\ TargetOf[committedDecision[g]] = g
  /\ \A g \in Gates, k \in Keys : idempotencyMap[g][k] # None =>
       idempotencyMap[g][k] \in announced /\ KeyOf[idempotencyMap[g][k]] = k

SameDecision(post, decision) ==
  decision = post \/ (KeyOf[post] # None /\ KeyOf[decision] = KeyOf[post])

\* A handler that waits for the database carries a decision that was announced.
HandlersInv ==
  \A h \in handlers :
    /\ h.post \in Posted /\ h.carries \in announced
    /\ h.waitsFor = "insert" => SameDecision(h.post, h.carries)
    /\ h.waitsFor = "select" => TargetOf[h.carries] = TargetOf[h.post]

RowInv ==
  reviewRow # None =>
    /\ reviewRow \in Rows
    /\ reviewRow.decision \in announced
    /\ KeyOf[reviewRow.decision] = reviewRow.key

AnswerInv ==
  /\ RegisterInv
  /\ HandlersInv
  /\ RowInv
  /\ AnswersAreTrue
  /\ AcceptedIsOnRecord

\* Nothing that was announced is unsaid: what held of handlers, row and answer
\* holds when more is announced.
LEMMA MoreAnnounced ==
  ASSUME AnswerInv, announced \subseteq announced', RegisterInv',
         UNCHANGED <<handlers, reviewRow, answer>>
  PROVE  AnswerInv'
  BY DEF AnswerInv, HandlersInv, SameDecision, RowInv, AnswersAreTrue, AcceptedIsOnRecord

LEMMA SameRegister ==
  ASSUME RegisterInv, UNCHANGED <<announced, committedDecision, idempotencyMap>>
  PROVE  RegisterInv'
  BY DEF RegisterInv

LEMMA EmptiedRegister ==
  ASSUME RegisterInv, EmptyRegister, UNCHANGED announced
  PROVE  RegisterInv'
  BY DEF RegisterInv, EmptyRegister, EmptyMap

\* The scope of a gate ends: its cached keys are forgotten.
LEMMA ScopeEnds ==
  ASSUME RegisterInv, NEW g \in Gates, FreshScope(g),
         announced \subseteq announced', announced' \subseteq Submissions,
         \/ UNCHANGED committedDecision
         \/ committedDecision' = [committedDecision EXCEPT ![g] = None]
  PROVE  RegisterInv'
  <1>1. EmptyMap \in [Keys -> Submissions \cup {None}] /\ \A k \in Keys : EmptyMap[k] = None
    BY DEF EmptyMap
  <1>2. idempotencyMap' = [idempotencyMap EXCEPT ![g] = EmptyMap]
    BY DEF FreshScope
  <1>3. idempotencyMap' \in [Gates -> [Keys -> Submissions \cup {None}]]
    BY <1>1, <1>2 DEF RegisterInv
  <1>4. \A h \in Gates, k \in Keys : idempotencyMap'[h][k] # None =>
          idempotencyMap'[h][k] \in announced' /\ KeyOf[idempotencyMap'[h][k]] = k
    BY <1>1, <1>2 DEF RegisterInv
  <1>5. /\ committedDecision' \in [Gates -> Submissions \cup {None}]
        /\ \A h \in Gates : committedDecision'[h] # None =>
             committedDecision'[h] \in announced' /\ TargetOf[committedDecision'[h]] = h
    BY DEF RegisterInv
  <1> QED
    BY <1>3, <1>4, <1>5 DEF RegisterInv

LEMMA OpenSlotKeeps ==
  ASSUME RegisterInv, NEW g \in Gates, OpenSlot(g)
  PROVE  RegisterInv' /\ UNCHANGED announced
  <1>1. UNCHANGED announced
    BY DEF OpenSlot, OpenConsume, OpenDiscard, OpenWait, StartSlot
  <1>2. CASE OpenConsume(g) \/ OpenDiscard(g)
    <2>1. FreshScope(g) /\ committedDecision' = [committedDecision EXCEPT ![g] = None]
      BY <1>2 DEF OpenConsume, OpenDiscard, Resolve
    <2> QED
      BY <1>1, <2>1, ScopeEnds DEF RegisterInv
  <1>3. CASE OpenWait(g)
    BY <1>1, <1>3, SameRegister DEF OpenWait
  <1> QED
    BY <1>1, <1>2, <1>3 DEF OpenSlot

\* A decision the bus takes is announced in the same step.
LEMMA DeliverKeeps ==
  ASSUME RegisterInv, NEW s \in Submissions, Deliver(s)
  PROVE  /\ RegisterInv' /\ announced \subseteq announced'
         /\ Accepts(s) /\ ~Cached(s) => s \in announced'
  <1> DEFINE g == TargetOf[s]
  <1>0. g \in Gates
    OBVIOUS
  <1>1. CASE Replay(s) \/ Conflict(s)
    BY <1>1, SameRegister DEF Replay, Conflict, gateVars, histVars
  <1>2. CASE Wake(s)
    <2>1. /\ FreshScope(g) /\ UNCHANGED committedDecision
          /\ announced' = announced \union {s}
      BY <1>2 DEF Wake, Resolve, Announce
    <2> QED
      BY <1>0, <2>1, ScopeEnds DEF RegisterInv
  <1>3. CASE Buffer(s)
    <2>1. /\ committedDecision' = [committedDecision EXCEPT ![g] = s]
          /\ announced' = announced \union {s}
      BY <1>3 DEF Buffer, Announce
    <2>2. /\ announced' \subseteq Submissions
          /\ committedDecision' \in [Gates -> Submissions \cup {None}]
          /\ \A h \in Gates : committedDecision'[h] # None =>
               committedDecision'[h] \in announced' /\ TargetOf[committedDecision'[h]] = h
      BY <1>0, <2>1 DEF RegisterInv
    <2>3. /\ idempotencyMap' \in [Gates -> [Keys -> Submissions \cup {None}]]
          /\ \A h \in Gates, k \in Keys : idempotencyMap'[h][k] # None =>
               idempotencyMap'[h][k] \in announced' /\ KeyOf[idempotencyMap'[h][k]] = k
      <3>1. CASE KeyOf[s] = None
        <4>1. UNCHANGED idempotencyMap
          BY <1>3, <3>1 DEF Buffer
        <4> QED
          BY <2>1, <4>1 DEF RegisterInv
      <3>2. CASE KeyOf[s] # None
        <4>1. KeyOf[s] \in Keys
          BY <3>2
        <4>2. idempotencyMap' = [idempotencyMap EXCEPT
                                   ![g] = [idempotencyMap[g] EXCEPT ![KeyOf[s]] = s]]
          BY <1>3, <3>2 DEF Buffer
        <4>3. [idempotencyMap[g] EXCEPT ![KeyOf[s]] = s] \in [Keys -> Submissions \cup {None}]
          BY <1>0, <4>1 DEF RegisterInv
        <4>4. idempotencyMap' \in [Gates -> [Keys -> Submissions \cup {None}]]
          BY <4>2, <4>3 DEF RegisterInv
        <4>5. \A h \in Gates, k \in Keys :
                idempotencyMap'[h][k] = IF h = g /\ k = KeyOf[s] THEN s
                                        ELSE idempotencyMap[h][k]
          BY <1>0, <4>1, <4>2 DEF RegisterInv
        <4>6. ASSUME NEW h \in Gates, NEW k \in Keys, idempotencyMap'[h][k] # None
              PROVE  idempotencyMap'[h][k] \in announced' /\ KeyOf[idempotencyMap'[h][k]] = k
          <5>1. CASE h = g /\ k = KeyOf[s]
            <6>1. idempotencyMap'[h][k] = s
              BY <4>5, <5>1
            <6> QED
              BY <2>1, <5>1, <6>1
          <5>2. CASE ~(h = g /\ k = KeyOf[s])
            <6>1. idempotencyMap'[h][k] = idempotencyMap[h][k]
              BY <4>5, <5>2
            <6> QED
              BY <2>1, <4>6, <6>1 DEF RegisterInv
          <5> QED
            BY <5>1, <5>2
        <4> QED
          BY <4>4, <4>6
      <3> QED
        BY <3>1, <3>2
    <2> QED
      BY <2>1, <2>2, <2>3 DEF RegisterInv
  <1> QED
    BY <1>1, <1>2, <1>3 DEF Deliver, Replay, Conflict

\* A handler starts to wait with what the bus returned or threw.
LEMMA ReceiveKeeps ==
  ASSUME AnswerInv, NEW s \in Submissions, Receive(s)
  PROVE  AnswerInv'
  <1>1. Deliver(s) /\ UNCHANGED <<reviewRow, answer>>
    BY DEF Receive
  <1>2. RegisterInv' /\ announced \subseteq announced'
    BY <1>1, DeliverKeeps DEF AnswerInv
  <1> DEFINE g == TargetOf[s]
  <1>3. CASE s \notin Posted
    <2>1. UNCHANGED handlers
      BY <1>3 DEF Receive
    <2> QED
      BY <1>1, <1>2, <2>1, MoreAnnounced
  <1>4. CASE s \in Posted
    <2>1. PICK n : handlers' = handlers \cup
                     {[post |-> s, copy |-> n, waitsFor |-> Returned(s).waitsFor,
                       carries |-> Returned(s).carries]}
      BY <1>4 DEF Receive
    <2> DEFINE h == [post |-> s, copy |-> n, waitsFor |-> Returned(s).waitsFor,
                     carries |-> Returned(s).carries]
    <2>2. /\ h.carries \in announced'
          /\ h.waitsFor = "insert" => SameDecision(s, h.carries)
          /\ h.waitsFor = "select" => TargetOf[h.carries] = TargetOf[s]
      <3>1. CASE Cached(s)
        <4>1. /\ KeyOf[s] \in Keys /\ KeyOf[s] # None /\ g \in Gates
              /\ idempotencyMap[g][KeyOf[s]] # None
          BY <3>1 DEF Cached
        <4>2. Returned(s) = [waitsFor |-> "insert", carries |-> idempotencyMap[g][KeyOf[s]]]
          BY <3>1 DEF Returned
        <4>3. /\ idempotencyMap[g][KeyOf[s]] \in announced
              /\ KeyOf[idempotencyMap[g][KeyOf[s]]] = KeyOf[s]
          BY <4>1 DEF AnswerInv, RegisterInv
        <4> QED
          BY <1>2, <4>1, <4>2, <4>3 DEF SameDecision
      <3>2. CASE Accepts(s) /\ ~Cached(s)
        <4>1. Returned(s) = [waitsFor |-> "insert", carries |-> s]
          BY <3>2 DEF Returned
        <4>2. s \in announced'
          BY <1>1, <3>2, DeliverKeeps DEF AnswerInv
        <4> QED
          BY <4>1, <4>2 DEF SameDecision
      <3>3. CASE ~Accepts(s) /\ ~Cached(s)
        <4>1. Returned(s) = [waitsFor |-> "select", carries |-> committedDecision[g]]
          BY <3>3 DEF Returned
        <4>2. committedDecision[g] \in announced /\ TargetOf[committedDecision[g]] = g
          BY <3>3 DEF Accepts, AnswerInv, RegisterInv
        <4> QED
          BY <1>2, <4>1, <4>2
      <3> QED
        BY <3>1, <3>2, <3>3
    <2>3. HandlersInv'
      <3>1. \A i \in handlers' : i \in handlers \/ i = h
        BY <2>1
      <3>2. h.post = s
        OBVIOUS
      <3> HIDE DEF h
      <3> QED
        BY <1>2, <1>4, <2>2, <3>1, <3>2 DEF AnswerInv, HandlersInv, SameDecision
    <2> QED
      BY <1>1, <1>2, <2>3 DEF AnswerInv, RowInv, AnswersAreTrue, AcceptedIsOnRecord
  <1> QED
    BY <1>3, <1>4

\* The database has served a handler, or failed it.
LEMMA SettleKeeps ==
  ASSUME AnswerInv, NEW h \in handlers, Settle(h) \/ AnswerError(h),
         UNCHANGED <<announced, committedDecision, idempotencyMap>>
  PROVE  AnswerInv'
  <1>1. RegisterInv'
    BY SameRegister DEF AnswerInv
  <1>2. /\ h.post \in Posted /\ h.post \in Submissions
        /\ h.carries \in announced /\ h.carries \in Submissions
        /\ h.waitsFor = "insert" => SameDecision(h.post, h.carries)
        /\ h.waitsFor = "select" => TargetOf[h.carries] = TargetOf[h.post]
    BY DEF AnswerInv, HandlersInv, RegisterInv
  <1>3. handlers' = handlers \ {h}
    BY DEF Settle, StoreRow, AnswerConflict, AnswerError, Reply
  <1>4. HandlersInv'
    BY <1>3 DEF AnswerInv, HandlersInv, SameDecision
  <1>5. CASE StoreRow(h)
    <2>1. /\ reviewRow' = IF reviewRow = None
                          THEN [key |-> KeyOf[h.post], decision |-> h.carries]
                          ELSE reviewRow
          /\ answer' = [post |-> h.post, code |-> "accepted", decision |-> h.carries]
          /\ SameDecision(h.post, h.carries)
      BY <1>2, <1>5 DEF StoreRow, Reply
    <2>2. /\ [key |-> KeyOf[h.post], decision |-> h.carries] \in Rows
          /\ KeyOf[h.carries] = KeyOf[h.post]
      BY <1>2, <2>1 DEF Rows, SameDecision
    <2>3. RowInv' /\ reviewRow' # None
      <3>1. CASE reviewRow = None
        BY <1>2, <2>1, <2>2, <3>1 DEF RowInv, Rows
      <3>2. CASE reviewRow # None
        BY <2>1, <3>2 DEF AnswerInv, RowInv
      <3> QED
        BY <3>1, <3>2
    <2>4. AnswersAreTrue'
      BY <1>2, <2>1 DEF AnswersAreTrue, SameDecision
    <2> QED
      BY <1>1, <1>4, <2>3, <2>4 DEF AnswerInv, RowInv, AcceptedIsOnRecord
  <1>6. CASE AnswerConflict(h)
    <2>1. /\ UNCHANGED reviewRow
          /\ TargetOf[h.carries] = TargetOf[h.post]
      BY <1>2, <1>6 DEF AnswerConflict
    <2>2. RowInv'
      BY <2>1 DEF AnswerInv, RowInv
    <2>3. CASE IsReplay(h)
      <3>1. answer' = [post |-> h.post, code |-> "replay", decision |-> reviewRow.decision]
        BY <1>6, <2>3 DEF AnswerConflict, Reply
      <3>2. /\ reviewRow # None /\ reviewRow.decision \in announced
            /\ KeyOf[h.post] # None /\ KeyOf[reviewRow.decision] = KeyOf[h.post]
        BY <2>3 DEF IsReplay, AnswerInv, RowInv
      <3> QED
        BY <1>1, <1>4, <2>1, <2>2, <3>1, <3>2
           DEF AnswerInv, AnswersAreTrue, AcceptedIsOnRecord
    <2>4. CASE ~IsReplay(h)
      <3>1. answer' = [post |-> h.post, code |-> "conflict", decision |-> h.carries]
        BY <1>6, <2>4 DEF AnswerConflict, Reply
      <3> QED
        BY <1>1, <1>2, <1>4, <2>1, <2>2, <3>1
           DEF AnswerInv, AnswersAreTrue, AcceptedIsOnRecord
    <2> QED
      BY <2>3, <2>4
  <1>7. CASE AnswerError(h)
    <2>1. UNCHANGED reviewRow /\ answer' = [post |-> h.post, code |-> "error", decision |-> None]
      BY <1>7 DEF AnswerError, Reply
    <2> QED
      BY <1>1, <1>4, <2>1 DEF AnswerInv, RowInv, AnswersAreTrue, AcceptedIsOnRecord
  <1> QED
    BY <1>5, <1>6, <1>7 DEF Settle

\* The process ends with its register and its handlers; row and answer stay.
LEMMA StopKeepsAnswers ==
  ASSUME AnswerInv, Stop
  PROVE  AnswerInv'
  <1>1. /\ EmptyRegister /\ handlers' = {}
        /\ UNCHANGED <<announced, reviewRow, answer>>
    BY DEF Stop, histVars
  <1>2. RegisterInv'
    BY <1>1, EmptiedRegister DEF AnswerInv
  <1> QED
    BY <1>1, <1>2 DEF AnswerInv, HandlersInv, RowInv, AnswersAreTrue, AcceptedIsOnRecord

LEMMA AnswerInductive ==
  AnswerInv /\ [ServerNext]_allVars => AnswerInv'
  <1> SUFFICES ASSUME AnswerInv, [ServerNext]_allVars
               PROVE  AnswerInv'
    OBVIOUS
  <1>1. ASSUME UNCHANGED <<announced, committedDecision, idempotencyMap>>, UNCHANGED apiVars
        PROVE  AnswerInv'
    BY <1>1, SameRegister, MoreAnnounced DEF AnswerInv, apiVars
  <1>2. CASE Boot \/ Serve \/ Shutdown \/ RunCli \/ (\E p \in Runners : Migrate(p))
    BY <1>1, <1>2 DEF Boot, Serve, Shutdown, RunCli, Migrate, vars, gateVars, histVars
  <1>3. CASE BootFails \/ Crash \/ Drained
    BY <1>3, StopKeepsAnswers DEF BootFails, Crash, Drained
  <1>4. CASE StartRun \/ EndWorkflow \/ CloseRun \/ CloseFails \/ OpenPage \/ ClosePage
    BY <1>1, <1>4 DEF StartRun, EndWorkflow, CloseRun, CloseFails, OpenPage, ClosePage, vars,
                      gateVars, histVars
  <1>5. CASE WorkflowStep
    <2>1. UNCHANGED apiVars
      BY <1>5 DEF WorkflowStep
    <2>2. CASE Resume
      BY <1>1, <2>1, <2>2 DEF Resume, gateVars, histVars
    <2>3. CASE \E g \in Gates : OpenSlot(g)
      BY <2>1, <2>3, OpenSlotKeeps, MoreAnnounced DEF AnswerInv, apiVars
    <2> QED
      BY <1>5, <2>2, <2>3 DEF WorkflowStep
  <1>6. CASE Dispose
    <2>1. EmptyRegister /\ UNCHANGED announced /\ UNCHANGED apiVars
      BY <1>6 DEF Dispose, histVars
    <2> QED
      BY <2>1, EmptiedRegister, MoreAnnounced DEF AnswerInv, apiVars
  <1>7. ASSUME NEW s \in Submissions, SendTo(s) \/ LoseOnWire(s)
        PROVE  AnswerInv'
    BY <1>1, <1>7 DEF SendTo, LoseOnWire, Send, Lose, gateVars, histVars
  <1>8. ASSUME NEW s \in Submissions, ReceiveFrom(s)
        PROVE  AnswerInv'
    BY <1>8, ReceiveKeeps DEF ReceiveFrom
  <1>9. CASE SettleOne \/ FailOne
    <2>1. PICK h \in handlers : Settle(h) \/ AnswerError(h)
      BY <1>9 DEF SettleOne, FailOne
    <2>2. UNCHANGED <<announced, committedDecision, idempotencyMap>>
      BY <1>9 DEF SettleOne, FailOne, vars, gateVars, histVars
    <2> QED
      BY <2>1, <2>2, SettleKeeps
  <1>10. CASE UNCHANGED allVars
    BY <1>1, <1>10 DEF allVars, vars, gateVars, histVars
  <1> QED
    BY <1>2, <1>3, <1>4, <1>5, <1>6, <1>7, <1>8, <1>9, <1>10 DEF ServerNext

LEMMA AnswerInvariant == ServerSpec => []AnswerInv
  <1>1. ServerInit => AnswerInv
    <2> SUFFICES ASSUME ServerInit
                 PROVE  AnswerInv
      OBVIOUS
    <2>1. RegisterInv
      BY DEF ServerInit, Init, RegisterInv, EmptyMap
    <2> QED
      BY <2>1 DEF ServerInit, ApiInit, AnswerInv, HandlersInv, RowInv, AnswersAreTrue,
                  AcceptedIsOnRecord
  <1> QED
    BY <1>1, AnswerInductive, PTL DEF ServerSpec

\* In whatever order the database serves the handlers, an answer of POST
\* /runs/:id/review names a decision that was announced: the client's own or
\* one under its key if it says so, one on its gate if it is refused.
THEOREM NoFalseAnswer == ServerSpec => []AnswersAreTrue
  <1>1. AnswerInv => AnswersAreTrue
    BY DEF AnswerInv
  <1> QED
    BY <1>1, AnswerInvariant, PTL

\* A review that was answered "accepted" or "replay" stays on record, through
\* any crash and restart.
THEOREM AcceptedStaysOnRecord == ServerSpec => []AcceptedIsOnRecord
  <1>1. AnswerInv => AcceptedIsOnRecord
    BY DEF AnswerInv
  <1> QED
    BY <1>1, AnswerInvariant, PTL

-----------------------------------------------------------------------------
(* Disposal.                                                               *)

\* A workflow that has ended waits for nobody, and the timer is set behind the
\* update of the row.
ClosedInv ==
  /\ workflow \in Workflows
  /\ workflow \in {"ended", "closed", "unclosed", "disposed"} => awaiting = None
  /\ workflow \in {"closed", "disposed"} => runStatus = "finished"
  /\ runStatus = "finished" => workflow \in {"closed", "disposed", "lost"} /\ awaiting = None

\* Submissions, pages, handlers and migrations neither end a workflow nor make
\* one wait.
LEMMA OthersLeaveTheRun ==
  ASSUME [ServerNext]_allVars,
         ~(BootFails \/ Crash \/ Drained \/ StartRun \/ WorkflowStep \/ EndWorkflow
             \/ CloseRun \/ CloseFails \/ Dispose)
  PROVE  UNCHANGED <<workflow, runStatus, awaiting>>
  <1>1. CASE Boot \/ Serve \/ Shutdown \/ RunCli \/ \E p \in Runners : Migrate(p)
    BY <1>1 DEF Boot, Serve, Shutdown, RunCli, Migrate, vars, flowVars, serverVars
  <1>2. CASE OpenPage \/ ClosePage \/ SettleOne \/ FailOne
    BY <1>2 DEF OpenPage, ClosePage, SettleOne, FailOne, vars, flowVars, serverVars
  <1>3. CASE \E s \in Submissions : SendTo(s) \/ LoseOnWire(s)
    BY <1>3 DEF SendTo, LoseOnWire, Send, Lose, flowVars, serverVars
  <1>4. CASE \E s \in Submissions : ReceiveFrom(s)
    BY <1>4 DEF ReceiveFrom, Receive, Deliver, Replay, Conflict, Wake, Buffer, flowVars,
                serverVars
  <1>5. CASE UNCHANGED allVars
    BY <1>5 DEF allVars, vars, flowVars, serverVars
  <1> QED
    BY <1>1, <1>2, <1>3, <1>4, <1>5 DEF ServerNext

LEMMA ClosedInductive == ClosedInv /\ [ServerNext]_allVars => ClosedInv'
  <1> SUFFICES ASSUME ClosedInv, [ServerNext]_allVars
               PROVE  ClosedInv'
    OBVIOUS
  <1>1. CASE BootFails \/ Crash \/ Drained
    <2>1. /\ awaiting' = None /\ runStatus' = runStatus
          /\ workflow' = IF workflow = "none" THEN "none" ELSE "lost"
      BY <1>1 DEF BootFails, Crash, Drained, Stop
    <2> QED
      BY <2>1 DEF ClosedInv, Workflows
  <1>2. CASE StartRun
    BY <1>2 DEF StartRun, ClosedInv, Workflows
  <1>3. CASE WorkflowStep
    BY <1>3 DEF WorkflowStep, serverVars, ClosedInv
  <1>4. CASE EndWorkflow
    BY <1>4 DEF EndWorkflow, vars, flowVars, ClosedInv, Workflows
  <1>5. CASE CloseRun
    BY <1>5 DEF CloseRun, vars, flowVars, ClosedInv, Workflows
  <1>6. CASE CloseFails
    BY <1>6 DEF CloseFails, vars, flowVars, ClosedInv, Workflows
  <1>7. CASE Dispose
    BY <1>7 DEF Dispose, flowVars, ClosedInv, Workflows
  <1>8. CASE UNCHANGED <<workflow, runStatus, awaiting>>
    BY <1>8 DEF ClosedInv
  <1> QED
    BY <1>1, <1>2, <1>3, <1>4, <1>5, <1>6, <1>7, <1>8, OthersLeaveTheRun

\* The memory of a run is dropped only when its end is in the table, and an end
\* in the table is never a workflow that can still act.
THEOREM DisposalIsLast == ServerSpec => []DroppedRunIsClosed
  <1>1. ServerInit => ClosedInv
    BY DEF ServerInit, Init, ClosedInv, Workflows
  <1>2. ClosedInv => DroppedRunIsClosed
    BY DEF ClosedInv, DroppedRunIsClosed
  <1> QED
    BY <1>1, <1>2, ClosedInductive, PTL DEF ServerSpec

-----------------------------------------------------------------------------
(* The gates inside the process. Crashes and disposal empty the register    *)
(* behind the history, so the counters agree only until then; afterwards    *)
(* nobody waits and no slot is opened any more.                             *)

Serving == {"live", "ended", "closed", "unclosed"}
Given == {"lost", "disposed"}

Abandoned ==
  /\ awaiting = None /\ handed = None
  /\ \A g \in Gates : waiters[g] = 0

GatesServed ==
  /\ TypeOK /\ StaleNeverConsumed
  /\ workflow = "none" => Init
  /\ workflow \in Serving => GatesInv
  /\ workflow \in Given => Abandoned

\* What clients send to a run that nobody works on is buffered at most.
LEMMA AbandonedKeeps ==
  ASSUME TypeOK, StaleNeverConsumed, Abandoned, NEW s \in Submissions,
         Send(s) \/ Lose(s) \/ Deliver(s)
  PROVE  TypeOK' /\ StaleNeverConsumed' /\ Abandoned'
  <1>1. ASSUME UNCHANGED <<gateVars, flowVars, histVars>>,
               inFlight' \in [Submissions -> Nat], sends' \in [Submissions -> 0..MaxSends]
        PROVE  TypeOK' /\ StaleNeverConsumed' /\ Abandoned'
    BY <1>1 DEF TypeOK, StaleNeverConsumed, Abandoned, gateVars, flowVars, histVars
  <1>2. inFlight \in [Submissions -> Nat] /\ sends \in [Submissions -> 0..MaxSends]
    BY DEF TypeOK
  <1>3. CASE Send(s)
    <2>1. inFlight' \in [Submissions -> Nat] /\ sends' \in [Submissions -> 0..MaxSends]
      BY <1>2, <1>3 DEF Send
    <2> QED
      BY <1>1, <1>3, <2>1 DEF Send
  <1>4. CASE Lose(s)
    <2>1. inFlight' \in [Submissions -> Nat] /\ sends' \in [Submissions -> 0..MaxSends]
      BY <1>2, <1>4 DEF Lose
    <2> QED
      BY <1>1, <1>4, <2>1 DEF Lose
  <1>5. CASE Replay(s) \/ Conflict(s)
    BY <1>1, <1>5, ArriveType DEF Replay, Conflict
  <1>6. ~Wake(s)
    <2>1. waiters[TargetOf[s]] = 0
      BY DEF Abandoned
    <2> QED
      BY <2>1 DEF Wake, HasWaiter
  <1>7. CASE Buffer(s)
    <2>1. TypeOK' /\ UNCHANGED <<waiters, awaiting, handed, taken>>
      BY <1>7, BufferEffect DEF Buffer, flowVars
    <2> QED
      BY <2>1 DEF StaleNeverConsumed, Abandoned
  <1> QED
    BY <1>3, <1>4, <1>5, <1>6, <1>7 DEF Deliver

\* The process ends, or the run is disposed of.
LEMMA RegisterEmptied ==
  ASSUME TypeOK, StaleNeverConsumed, EmptyRegister, UNCHANGED <<opened, sends, histVars>>,
         awaiting' = None, handed' = None, inFlight' \in [Submissions -> Nat]
  PROVE  TypeOK' /\ StaleNeverConsumed' /\ Abandoned'
  <1>1. EmptyMap \in [Keys -> Decision]
    BY DEF EmptyMap, Decision
  <1>2. /\ committedDecision' \in [Gates -> Decision] /\ waiters' \in [Gates -> Nat]
        /\ idempotencyMap' \in [Gates -> [Keys -> Decision]]
        /\ slotsResolved' \in [Gates -> Nat] /\ \A g \in Gates : waiters'[g] = 0
    BY <1>1 DEF EmptyRegister, Decision
  <1>3. /\ UNCHANGED <<opened, sends>>
        /\ UNCHANGED <<decidedFrames, announced, arrivedIn, discarded, taken>>
    BY DEF histVars
  <1>4. TypeOK'
    BY <1>2, <1>3 DEF TypeOK, Decision
  <1>5. StaleNeverConsumed' /\ Abandoned'
    BY <1>2, <1>3 DEF StaleNeverConsumed, Abandoned
  <1> QED
    BY <1>4, <1>5

\* Where the register is not emptied, the process takes the gates' own steps.
LEMMA StepsOfTheGates ==
  ASSUME [ServerNext]_allVars, ~(BootFails \/ Crash \/ Drained \/ Dispose)
  PROVE  \/ UNCHANGED vars /\ (\/ workflow' = workflow
                               \/ workflow' \in Serving /\ workflow \in Serving \cup {"none"})
         \/ /\ workflow' = workflow /\ workflow = "live"
            /\ (\E g \in Gates : OpenSlot(g)) \/ Resume
         \/ /\ workflow' = workflow
            /\ \E s \in Submissions : \/ Send(s) /\ workflow # "none"
                                      \/ Lose(s) \/ Deliver(s)
  <1>1. CASE Boot \/ Serve \/ Shutdown \/ RunCli \/ \E p \in Runners : Migrate(p)
    BY <1>1 DEF Boot, Serve, Shutdown, RunCli, Migrate, serverVars
  <1>2. CASE StartRun \/ EndWorkflow \/ CloseRun \/ CloseFails
    BY <1>2 DEF StartRun, EndWorkflow, CloseRun, CloseFails, Serving
  <1>3. CASE WorkflowStep
    BY <1>3 DEF WorkflowStep, serverVars
  <1>4. CASE OpenPage \/ ClosePage \/ SettleOne \/ FailOne
    BY <1>4 DEF OpenPage, ClosePage, SettleOne, FailOne, serverVars
  <1>5. ASSUME NEW s \in Submissions, SendTo(s) \/ LoseOnWire(s) \/ ReceiveFrom(s)
        PROVE  /\ workflow' = workflow
               /\ (Send(s) /\ workflow # "none") \/ Lose(s) \/ Deliver(s)
    BY <1>5 DEF SendTo, LoseOnWire, ReceiveFrom, Receive, serverVars
  <1>6. CASE UNCHANGED allVars
    BY <1>6 DEF allVars, serverVars
  <1> QED
    BY <1>1, <1>2, <1>3, <1>4, <1>5, <1>6 DEF ServerNext

LEMMA GatesServedInductive ==
  ASSUME GatesServed, ClosedInv, [ServerNext]_allVars
  PROVE  GatesServed'
  <1>1. TypeOK /\ StaleNeverConsumed
    BY DEF GatesServed
  <1>2. workflow \in Serving \cup Given \cup {"none"}
    BY DEF ClosedInv, Workflows, Serving, Given
  <1>3. workflow \in Serving \cup {"none"} => GatesInv
    BY InitEstablishesIInv DEF GatesServed
  <1>4. CASE BootFails \/ Crash \/ Drained
    <2>1. /\ EmptyRegister /\ UNCHANGED <<opened, sends, histVars>>
          /\ awaiting' = None /\ handed' = None
          /\ inFlight' = [s \in Submissions |-> 0]
          /\ workflow' = IF workflow = "none" THEN "none" ELSE "lost"
      BY <1>4 DEF BootFails, Crash, Drained, Stop
    <2>2. TypeOK' /\ StaleNeverConsumed' /\ Abandoned'
      BY <1>1, <2>1, RegisterEmptied
    <2>3. workflow = "none" => Init'
      BY <2>1 DEF GatesServed, Init, EmptyRegister, histVars
    <2> QED
      BY <2>1, <2>2, <2>3 DEF GatesServed, Serving, Given
  <1>5. CASE Dispose
    <2>1. /\ EmptyRegister /\ UNCHANGED <<awaiting, handed, opened, inFlight, sends, histVars>>
          /\ workflow = "closed" /\ workflow' = "disposed"
      BY <1>5 DEF Dispose, flowVars, wireVars
    <2>2. awaiting = None /\ handed = None
      BY <1>3, <2>1 DEF ClosedInv, Serving, GatesInv, SlotsCounted
    <2>3. TypeOK' /\ StaleNeverConsumed' /\ Abandoned'
      BY <1>1, <2>1, <2>2, RegisterEmptied DEF TypeOK
    <2> QED
      BY <2>1, <2>3 DEF GatesServed, Serving, Given
  <1>6. CASE UNCHANGED vars /\ (\/ workflow' = workflow
                                \/ workflow' \in Serving /\ workflow \in Serving \cup {"none"})
    <2>1. workflow \in Serving \cup {"none"} => GatesInv'
      BY <1>3, <1>6, StepPreservesIInv
    <2>2. UNCHANGED <<committedDecision, waiters, idempotencyMap, slotsResolved, awaiting, handed,
                      opened, inFlight, sends, decidedFrames, announced, arrivedIn, discarded,
                      taken>>
      BY <1>6 DEF vars, gateVars, flowVars, wireVars, histVars
    <2>3. /\ TypeOK' /\ StaleNeverConsumed'
          /\ Init => Init'
          /\ Abandoned => Abandoned'
      BY <1>1, <2>2 DEF TypeOK, StaleNeverConsumed, Init, Abandoned
    <2>4. workflow' = "none" => workflow = "none"
      BY <1>6 DEF Serving
    <2>5. workflow' \in Given => workflow \in Given
      BY <1>6 DEF Serving, Given
    <2>6. workflow' \in Serving => workflow \in Serving \cup {"none"}
      BY <1>6
    <2> QED
      BY <2>1, <2>3, <2>4, <2>5, <2>6 DEF GatesServed
  <1>7. CASE /\ workflow' = workflow /\ workflow = "live"
             /\ (\E g \in Gates : OpenSlot(g)) \/ Resume
    <2>1. GatesInv'
      BY <1>3, <1>7, StepPreservesIInv DEF Serving, Next
    <2> QED
      BY <1>7, <2>1 DEF GatesServed, GatesInv, Given
  <1>8. ASSUME NEW s \in Submissions, workflow' = workflow,
               (Send(s) /\ workflow # "none") \/ Lose(s) \/ Deliver(s)
        PROVE  GatesServed'
    <2>1. workflow # "none"
      <3>1. ~Send(s) => inFlight[s] > 0
        BY <1>8 DEF Lose, Deliver, Replay, Conflict, Wake, Buffer, Arrive
      <3>2. workflow = "none" => inFlight[s] = 0
        BY DEF GatesServed, Init
      <3>3. CASE Send(s) /\ workflow # "none"
        BY <3>3
      <3>4. CASE Lose(s) \/ Deliver(s)
        <4>1. inFlight[s] > 0
          BY <3>4 DEF Lose, Deliver, Replay, Conflict, Wake, Buffer, Arrive
        <4> QED
          BY <3>2, <4>1
      <3> QED
        BY <1>8, <3>3, <3>4
    <2>2. CASE workflow \in Serving
      <3>1. GatesInv'
        BY <1>3, <1>8, <2>2, StepPreservesIInv DEF Next
      <3> QED
        BY <1>8, <2>2, <3>1 DEF GatesServed, GatesInv, Serving, Given
    <2>3. CASE workflow \in Given
      <3>1. TypeOK' /\ StaleNeverConsumed' /\ Abandoned'
        BY <1>1, <1>8, <2>3, AbandonedKeeps DEF GatesServed
      <3> QED
        BY <1>8, <2>3, <3>1 DEF GatesServed, Serving, Given
    <2> QED
      BY <1>2, <2>1, <2>2, <2>3
  <1> QED
    BY <1>4, <1>5, <1>6, <1>7, <1>8, StepsOfTheGates

LEMMA GatesServedInvariant == ServerSpec => []GatesServed
  <1>1. ServerInit => GatesServed
    <2> SUFFICES ASSUME ServerInit
                 PROVE  GatesServed
      OBVIOUS
    <2>1. Init /\ workflow = "none"
      BY DEF ServerInit
    <2>2. GatesInv
      BY <2>1, InitEstablishesIInv
    <2> QED
      BY <2>1, <2>2 DEF GatesServed, GatesInv, Serving, Given
  <1>2. ServerInit => ClosedInv
    BY DEF ServerInit, Init, ClosedInv, Workflows
  <1>3. GatesServed /\ ClosedInv /\ [ServerNext]_allVars => GatesServed'
    BY GatesServedInductive
  <1> QED
    BY <1>1, <1>2, <1>3, ClosedInductive, PTL DEF ServerSpec

\* Inside the process, through crashes, restarts, drained shutdowns and the
\* disposal of the run, a workflow that waits at a gate is woken by whatever
\* arrives next, and nobody is left in the register of a run that is over.
THEOREM WaiterStaysReachable == ServerSpec => []WaiterIsReachable
  <1>1. GatesServed /\ ClosedInv => WaiterIsReachable
    <2>1. Init => GatesInv
      BY InitEstablishesIInv
    <2>2. Abandoned => WaiterIsReachable
      BY DEF Abandoned, WaiterIsReachable
    <2> QED
      BY <2>1, <2>2 DEF GatesServed, GatesInv, ClosedInv, Workflows, Serving, Given
  <1>2. ServerInit => ClosedInv
    BY DEF ServerInit, Init, ClosedInv, Workflows
  <1> QED
    BY <1>1, <1>2, ClosedInductive, GatesServedInvariant, PTL DEF ServerSpec

\* A decision on an earlier question never answers a later one, though the
\* process is restarted and the register emptied in between.
THEOREM StaleStaysUnused == ServerSpec => []StaleNeverConsumed
  <1>1. GatesServed => StaleNeverConsumed
    BY DEF GatesServed
  <1> QED
    BY <1>1, GatesServedInvariant, PTL

\* Until the run is lost or disposed of, each review.decided frame stands for
\* one decision that resolved a slot, is buffered or was discarded.
THEOREM FramesAccountedWhileServed ==
  ServerSpec => [](workflow \notin {"lost", "disposed"} => DecidedFramesAccounted)
  <1>1. GatesServed /\ ClosedInv =>
          (workflow \notin {"lost", "disposed"} => DecidedFramesAccounted)
    BY InitEstablishesIInv DEF GatesServed, GatesInv, ClosedInv, Workflows, Serving
  <1>2. ServerInit => ClosedInv
    BY DEF ServerInit, Init, ClosedInv, Workflows
  <1> QED
    BY <1>1, <1>2, ClosedInductive, GatesServedInvariant, PTL DEF ServerSpec

-----------------------------------------------------------------------------
(* Types.                                                                  *)

CountersInv ==
  /\ faults \in 0..MaxFaults
  /\ runStatus \in {"absent", "running", "finished"}
  /\ pages \in 0..MaxPages

\* What is on the wire was sent. The number a handler has among the copies of
\* its submission is within the bound on sends for this reason only.
SentBefore == \A s \in Submissions : inFlight[s] <= sends[s]

RecordsInv ==
  /\ handlers \subseteq Handlers
  /\ reviewRow \in Rows \cup {None}
  /\ answer \in Answers \cup {None}

LEMMA CountersInductive == CountersInv /\ [ServerNext]_allVars => CountersInv'
  <1> SUFFICES ASSUME CountersInv, [ServerNext]_allVars
               PROVE  CountersInv'
    OBVIOUS
  <1>1. Fault => faults' \in 0..MaxFaults
    BY FileAssumption DEF Fault, CountersInv
  <1>2. ASSUME UNCHANGED faults \/ Fault, UNCHANGED <<runStatus, pages>>
        PROVE  CountersInv'
    BY <1>1, <1>2 DEF CountersInv
  <1>3. CASE BootFails \/ Crash \/ Drained
    BY <1>1, <1>3 DEF BootFails, Crash, Drained, Stop, CountersInv, MaxPages
  <1>4. CASE Boot \/ Serve \/ Shutdown \/ RunCli
    BY <1>2, <1>4 DEF Boot, Serve, Shutdown, RunCli, StartMigrating, migrationVars, serverVars
  <1>5. ASSUME NEW p \in Runners, Migrate(p)
        PROVE  CountersInv'
    BY <1>2, <1>5 DEF Migrate, MigrationStep, ApplyOne, ApplyFails, Migrated, serverVars
  <1>6. CASE StartRun \/ EndWorkflow \/ CloseRun
    BY <1>6 DEF StartRun, EndWorkflow, CloseRun, migrationVars, CountersInv
  <1>7. CASE WorkflowStep \/ CloseFails \/ Dispose
    BY <1>2, <1>7 DEF WorkflowStep, CloseFails, Dispose, migrationVars, serverVars
  <1>8. CASE OpenPage \/ ClosePage
    BY <1>8 DEF OpenPage, ClosePage, migrationVars, CountersInv, MaxPages
  <1>9. ASSUME NEW s \in Submissions, SendTo(s) \/ LoseOnWire(s) \/ ReceiveFrom(s)
        PROVE  CountersInv'
    BY <1>2, <1>9 DEF SendTo, LoseOnWire, ReceiveFrom, migrationVars, serverVars
  <1>10. CASE SettleOne \/ FailOne
    BY <1>2, <1>10 DEF SettleOne, FailOne, migrationVars, serverVars
  <1>11. CASE UNCHANGED allVars
    BY <1>2, <1>11 DEF allVars, migrationVars, serverVars
  <1> QED
    BY <1>3, <1>4, <1>5, <1>6, <1>7, <1>8, <1>9, <1>10, <1>11 DEF ServerNext

\* A copy leaves the wire by arriving, by being lost or with the process.
LEMMA SentInductive ==
  ASSUME TypeOK, SentBefore, [ServerNext]_allVars
  PROVE  SentBefore'
  <1>1. inFlight \in [Submissions -> Nat] /\ sends \in [Submissions -> 0..MaxSends]
    BY DEF TypeOK
  <1>2. CASE BootFails \/ Crash \/ Drained
    <2>1. inFlight' = [s \in Submissions |-> 0] /\ UNCHANGED sends
      BY <1>2 DEF BootFails, Crash, Drained, Stop
    <2> QED
      BY <1>1, <2>1 DEF SentBefore
  <1>3. CASE Dispose
    BY <1>3 DEF Dispose, wireVars, SentBefore
  <1>4. CASE UNCHANGED vars \/ (\E g \in Gates : OpenSlot(g)) \/ Resume
    <2>1. UNCHANGED <<inFlight, sends>>
      BY <1>4 DEF vars, wireVars, OpenSlot, OpenConsume, OpenDiscard, OpenWait, StartSlot,
                  Resume
    <2> QED
      BY <2>1 DEF SentBefore
  <1>5. ASSUME NEW s \in Submissions, Send(s) \/ Lose(s) \/ Deliver(s)
        PROVE  SentBefore'
    <2>1. CASE Send(s)
      BY <1>1, <2>1 DEF Send, SentBefore
    <2>2. CASE Lose(s) \/ Deliver(s)
      <3>1. inFlight' = [inFlight EXCEPT ![s] = @ - 1] /\ UNCHANGED sends
        BY <2>2 DEF Lose, Deliver, Replay, Conflict, Wake, Buffer, Arrive
      <3> QED
        BY <1>1, <3>1 DEF SentBefore
    <2> QED
      BY <1>5, <2>1, <2>2
  <1> QED
    BY <1>2, <1>3, <1>4, <1>5, StepsOfTheGates

\* A handler carries what the bus returned, and is one of the copies sent.
LEMMA HandlerTyped ==
  ASSUME TypeOK, SentBefore, RegisterInv, NEW s \in Submissions, s \in Posted, Deliver(s)
  PROVE  [post |-> s, copy |-> Copy(s), waitsFor |-> Returned(s).waitsFor,
          carries |-> Returned(s).carries] \in Handlers
  <1>1. Copy(s) \in 1..MaxSends
    <2>1. inFlight[s] \in Nat /\ sends[s] \in 0..MaxSends /\ inFlight[s] <= sends[s]
      BY DEF TypeOK, SentBefore
    <2>2. inFlight[s] > 0
      BY DEF Deliver, Replay, Conflict, Wake, Buffer, Arrive
    <2> QED
      BY <2>1, <2>2, GateAssumption DEF Copy
  <1> DEFINE g == TargetOf[s]
  <1>2. g \in Gates
    BY GateAssumption
  <1>3. CASE Cached(s)
    <2>1. Returned(s) = [waitsFor |-> "insert", carries |-> idempotencyMap[g][KeyOf[s]]]
      BY <1>3 DEF Returned
    <2>2. KeyOf[s] \in Keys /\ idempotencyMap[g][KeyOf[s]] # None
      BY <1>3, GateAssumption DEF Cached
    <2>3. idempotencyMap[g][KeyOf[s]] \in Submissions
      BY <1>2, <2>2 DEF RegisterInv
    <2> QED
      BY <1>1, <2>1, <2>3 DEF Handlers
  <1>4. CASE Accepts(s) /\ ~Cached(s)
    <2>1. Returned(s) = [waitsFor |-> "insert", carries |-> s]
      BY <1>4 DEF Returned
    <2> QED
      BY <1>1, <2>1 DEF Handlers
  <1>5. CASE ~Accepts(s) /\ ~Cached(s)
    <2>1. Returned(s) = [waitsFor |-> "select", carries |-> committedDecision[g]]
      BY <1>5 DEF Returned
    <2>2. committedDecision[g] \in Submissions
      BY <1>2, <1>5 DEF Accepts, RegisterInv
    <2> QED
      BY <1>1, <2>1, <2>2 DEF Handlers
  <1> QED
    BY <1>3, <1>4, <1>5

LEMMA RecordsInductive ==
  ASSUME TypeOK, SentBefore, RegisterInv, RecordsInv, [ServerNext]_allVars
  PROVE  RecordsInv'
  <1>1. CASE UNCHANGED apiVars
    BY <1>1 DEF RecordsInv, apiVars
  <1>2. CASE BootFails \/ Crash \/ Drained
    BY <1>2 DEF BootFails, Crash, Drained, Stop, RecordsInv
  <1>3. ASSUME NEW s \in Submissions, Receive(s)
        PROVE  RecordsInv'
    BY <1>3, HandlerTyped DEF Receive, RecordsInv
  <1>4. ASSUME NEW h \in handlers, Settle(h) \/ AnswerError(h)
        PROVE  RecordsInv'
    <2>1. /\ h.post \in Posted /\ h.post \in Submissions /\ h.carries \in Submissions
          /\ KeyOf[h.post] \in Keys \cup {None}
      BY GateAssumption, PostedAssumption DEF RecordsInv, Handlers
    <2>2. reviewRow # None => reviewRow.decision \in Submissions
      BY DEF RecordsInv, Rows
    <2>3. ASSUME NEW code \in Codes, NEW d \in Submissions \cup {None}, Reply(h, code, d),
                 reviewRow' \in Rows \cup {None}
          PROVE  RecordsInv'
      <3>1. [post |-> h.post, code |-> code, decision |-> d] \in Answers
        BY <2>1 DEF Answers
      <3> QED
        BY <2>3, <3>1 DEF Reply, RecordsInv
    <2>4. CASE StoreRow(h)
      <3>1. reviewRow' \in Rows \cup {None}
        BY <2>1, <2>4 DEF StoreRow, RecordsInv, Rows
      <3> QED
        BY <2>1, <2>3, <2>4, <3>1 DEF StoreRow, Codes
    <2>5. CASE AnswerConflict(h)
      <3>1. reviewRow' \in Rows \cup {None}
        BY <2>5 DEF AnswerConflict, RecordsInv
      <3>2. CASE IsReplay(h)
        BY <2>2, <2>3, <2>5, <3>1, <3>2 DEF AnswerConflict, IsReplay, Codes
      <3>3. CASE ~IsReplay(h)
        BY <2>1, <2>3, <2>5, <3>1, <3>3 DEF AnswerConflict, Codes
      <3> QED
        BY <3>2, <3>3
    <2>6. CASE AnswerError(h)
      BY <2>3, <2>6 DEF AnswerError, RecordsInv, Codes
    <2> QED
      BY <1>4, <2>4, <2>5, <2>6 DEF Settle
  <1>5. CASE Boot \/ Serve \/ Shutdown \/ RunCli \/ \E p \in Runners : Migrate(p)
    BY <1>1, <1>5 DEF Boot, Serve, Shutdown, RunCli, Migrate
  <1>6. CASE StartRun \/ WorkflowStep \/ EndWorkflow \/ CloseRun \/ CloseFails \/ Dispose
               \/ OpenPage \/ ClosePage
    BY <1>1, <1>6 DEF StartRun, WorkflowStep, EndWorkflow, CloseRun, CloseFails, Dispose,
                      OpenPage, ClosePage
  <1>7. CASE \E s \in Submissions : SendTo(s) \/ LoseOnWire(s) \/ ReceiveFrom(s)
    BY <1>1, <1>3, <1>7 DEF SendTo, LoseOnWire, ReceiveFrom
  <1>8. CASE SettleOne \/ FailOne
    BY <1>4, <1>8 DEF SettleOne, FailOne
  <1>9. CASE UNCHANGED allVars
    BY <1>1, <1>9 DEF allVars, apiVars
  <1> QED
    BY <1>2, <1>5, <1>6, <1>7, <1>8, <1>9 DEF ServerNext

\* The process, its tables, its handlers and its register stay in their types.
THEOREM ServerTypeCorrect == ServerSpec => []ServerTypeOK
  <1>1. ServerInit => CountersInv /\ SentBefore /\ RecordsInv
    BY FileAssumption DEF ServerInit, Init, ApiInit, MigrationInit, CountersInv, SentBefore,
                          RecordsInv, MaxPages
  <1>2. GatesServed => TypeOK
    BY DEF GatesServed
  <1>3. AnswerInv => RegisterInv
    BY DEF AnswerInv
  <1>4. ServerInit => ClosedInv /\ MigrationInv
    <2>1. ServerInit => ClosedInv
      BY DEF ServerInit, Init, ClosedInv, Workflows
    <2>2. ServerInit => MigrationInv
      BY DEF ServerInit, MigrationInit, MigrationInv, MigratedOnce, Running, RunnerStates,
             Runners
    <2> QED
      BY <2>1, <2>2
  <1>5. TypeOK /\ SentBefore /\ [ServerNext]_allVars => SentBefore'
    BY SentInductive
  <1>6. TypeOK /\ SentBefore /\ RegisterInv /\ RecordsInv /\ [ServerNext]_allVars => RecordsInv'
    BY RecordsInductive
  <1>7. TypeOK /\ CountersInv /\ RecordsInv /\ ClosedInv /\ MigrationInv => ServerTypeOK
    BY DEF CountersInv, RecordsInv, ClosedInv, MigrationInv, ServerTypeOK, ApiTypeOK,
           MigrationTypeOK
  <1> QED
    BY <1>1, <1>2, <1>3, <1>4, <1>5, <1>6, <1>7, CountersInductive, ClosedInductive,
       MigrationInductive, GatesServedInvariant, AnswerInvariant, PTL DEF ServerSpec
=============================================================================
