-------------------------- MODULE ReviewPage_proofs --------------------------
(***************************************************************************)
(* Proofs about ReviewPage, for any number of pages, plans and clicks: as  *)
(* long as every announced decision answered a request, an up-to-date page *)
(* shows what the workflow waits for, and the lock of an Edit stands for a *)
(* plan on its way.                                                        *)
(***************************************************************************)
EXTENDS ReviewPage, FiniteSetTheorems, SequenceTheorems, TLAPS

USE PageAssumption, NoneAssumption

-----------------------------------------------------------------------------
\* The part of the types the argument needs.
RunTypeOK ==
  /\ question \in Gates \union {None}
  /\ answer \in Submissions \union {None}
  /\ early \in [Gates -> Submissions \union {None}]
  /\ plan \in Plans
  /\ todo \in Gates \union {"end", "done"}
  /\ frames \in Seq(Frames)

Clicks == [decision : Submissions, shown : Nat, cancelled : BOOLEAN]

PageTypeOK ==
  /\ seen \in [Pages -> Nat]
  /\ \A p \in Pages : seen[p] <= Len(frames)
  /\ connected \in [Pages -> BOOLEAN]
  /\ submittedAtPlanId \in [Pages -> PlanIds \union {None}]
  /\ outbox \in [Pages -> Seq(Clicks)]

LastRequest == frames[Max(Requests(frames))]
LastDecision == frames[Max(Decisions(frames))]

\* Where the run stands.
RunInv ==
  /\ answer # None => question # None
  /\ question # None => question = todo
  /\ answer # None => answer.gate = question
  /\ \A g \in Gates : early[g] # None => early[g].gate = g
  /\ IsRunTerminal(frames) <=> todo = "done"

\* Every announced decision answered a request: the requests and the decisions
\* alternate, and the last ones tell what the run waits for or goes to.
Alternate ==
  /\ \A g \in Gates : early[g] = None
  /\ Waiting => /\ Cardinality(Requests(frames)) = Cardinality(Decisions(frames)) + 1
                /\ LastRequest = Requested
  /\ ~Waiting => Cardinality(Requests(frames)) = Cardinality(Decisions(frames))
  /\ answer # None => /\ Decisions(frames) # {}
                      /\ LastDecision = Decided(answer)
  /\ (question = None /\ todo = "human_verify_gate") => ~LastTriggersRefine(frames)

PanelInv == RunTypeOK /\ PageTypeOK /\ RunInv /\ (~surplus => Alternate)

-----------------------------------------------------------------------------
\* No request is newer than the plan under review.
PlansInOrder ==
  \A k \in Requests(frames) : frames[k].plan.planId <= plan.planId

\* The plan was given up for the next one, or the run is at its end.
GivenUp(planId) ==
  \/ plan.planId > planId
  \/ answer # None /\ question = "review_gate" /\ answer.decision = "edit"
  \/ question = None /\ todo \in {"end", "done"}

IsEdit(click) == click.decision = [gate |-> "review_gate", decision |-> "edit"]

\* The lock of a connected page is the plan it shows, and its Edit is on its
\* way or has arrived.
LockOf(p) ==
  submittedAtPlanId[p] # None =>
    /\ submittedAtPlanId[p] = PlanShown(View(p))
    /\ submittedAtPlanId[p] <= plan.planId
    /\ connected[p] =>
         \/ \E k \in DOMAIN outbox[p] : IsEdit(outbox[p][k])
         \/ GivenUp(submittedAtPlanId[p])

LockInv == PlansInOrder /\ (~surplus => \A p \in Pages : LockOf(p))

-----------------------------------------------------------------------------
(* Positions in the frames array.                                          *)

LEMMA LastExists ==
  ASSUME NEW n \in Nat, NEW S, S \subseteq 1..n, S # {}
  PROVE  Max(S) \in S /\ \A k \in S : k <= Max(S)
  <1> DEFINE less == {ss \in Nat \X Nat : ss[1] < ss[2]}
             T == {n - k : k \in S}
  <1>1. IsWellFoundedOn(less, Nat)
    BY NatLessThanWellFounded DEF OpToRel
  <1>2. T \subseteq Nat /\ T # {}
    <2>1. PICK k \in S : TRUE
      OBVIOUS
    <2>2. n - k \in T
      BY <2>1
    <2> QED
      BY <2>2
  <1> HIDE DEF less
  <1>3. PICK m \in T : \A k \in T : <<k, m>> \notin less
    <2> HIDE DEF T
    <2> QED
      BY <1>1, <1>2, WFMin
  <1>4. PICK x \in S : m = n - x
    BY <1>3
  <1>5. ASSUME NEW k \in S
        PROVE  k <= x
    <2>1. n - k \in T /\ n - k \in Nat /\ m \in Nat
      BY <1>2
    <2>2. ~(n - k < m)
      BY <1>3, <2>1 DEF less
    <2> QED
      BY <1>4, <2>2
  <1>6. x \in S /\ \A y \in S : x >= y
    BY <1>4, <1>5
  <1> QED
    BY <1>6 DEF Max

LEMMA LastAdded ==
  ASSUME NEW n \in Nat, NEW S, S \subseteq 1..n
  PROVE  /\ Max(S \union {n + 1}) = n + 1
         /\ Cardinality(S \union {n + 1}) = Cardinality(S) + 1
         /\ Cardinality(S) \in Nat
  <1>1. IsFiniteSet(S)
    <2>1. IsFiniteSet(1..n)
      BY FS_Interval
    <2> QED
      BY <2>1, FS_Subset
  <1>2. n + 1 \notin S
    OBVIOUS
  <1> DEFINE c == Cardinality(S)
  <1>3. c \in Nat /\ Cardinality(S \union {n + 1}) = c + 1
    BY <1>1, <1>2, FS_AddElement, FS_CardinalityType, Zenon
  <1>4. /\ n + 1 \in S \union {n + 1}
        /\ \A y \in S \union {n + 1} : n + 1 >= y
    OBVIOUS
  <1>5. \A x \in S \union {n + 1} :
          (\A y \in S \union {n + 1} : x >= y) => x = n + 1
    OBVIOUS
  <1>6. Max(S \union {n + 1}) = n + 1
    BY <1>4, <1>5 DEF Max
  <1> QED
    BY <1>6, <1>3

LEMMA Positions ==
  ASSUME NEW fs \in Seq(Frames), NEW type
  PROVE  /\ OfType(fs, type) \subseteq 1..Len(fs)
         /\ Len(fs) \in Nat
         /\ \A k \in OfType(fs, type) : fs[k] \in Frames /\ fs[k].type = type
  BY DEF OfType

LEMMA Appended ==
  ASSUME NEW fs \in Seq(Frames), NEW f \in Frames
  PROVE  LET gs == Append(fs, f)
         IN  /\ gs \in Seq(Frames) /\ Len(gs) = Len(fs) + 1
             /\ gs[Len(fs) + 1] = f
             /\ \A k \in 1..Len(fs) : gs[k] = fs[k]
             /\ \A type : OfType(gs, type) =
                  IF f.type = type THEN OfType(fs, type) \union {Len(fs) + 1}
                  ELSE OfType(fs, type)
  <1> DEFINE gs == Append(fs, f)
  <1>1. /\ gs \in Seq(Frames) /\ Len(gs) = Len(fs) + 1 /\ Len(fs) \in Nat
        /\ gs[Len(fs) + 1] = f
        /\ \A k \in 1..Len(fs) : gs[k] = fs[k]
    BY AppendProperties
  <1> HIDE DEF gs
  <1>2. DOMAIN gs = 1..Len(fs) + 1 /\ DOMAIN fs = 1..Len(fs)
    BY <1>1
  <1>3. ASSUME NEW type
        PROVE  OfType(gs, type) = IF f.type = type THEN OfType(fs, type) \union {Len(fs) + 1}
                                  ELSE OfType(fs, type)
    BY <1>1, <1>2 DEF OfType
  <1> QED
    BY <1>1, <1>3 DEF gs

LEMMA FrameTypes ==
  ASSUME NEW f \in Frames
  PROVE  /\ f.type \in {"review.requested", "review.decided", "run.completed"}
         /\ f.type = "review.requested" => f \in RequestFrames
         /\ f.type = "review.decided" => f \in DecisionFrames
  BY DEF Frames, RequestFrames, DecisionFrames, Completed

LEMMA LastRequestType ==
  ASSUME NEW fs \in Seq(Frames), Requests(fs) # {}
  PROVE  /\ Max(Requests(fs)) \in Requests(fs)
         /\ fs[Max(Requests(fs))] \in RequestFrames
  <1>1. Max(Requests(fs)) \in Requests(fs)
    BY Positions, LastExists DEF Requests
  <1> QED
    BY <1>1, Positions, FrameTypes DEF Requests

LEMMA PendingReviewType ==
  ASSUME NEW fs \in Seq(Frames), PendingReview(fs) # None
  PROVE  /\ PendingReview(fs) \in RequestFrames
         /\ \E k \in Requests(fs) : PendingReview(fs) = fs[k]
  BY LastRequestType DEF PendingReview

LEMMA ViewType ==
  ASSUME PanelInv, NEW n \in Nat, n <= Len(frames)
  PROVE  /\ SubSeq(frames, 1, n) \in Seq(Frames)
         /\ Len(SubSeq(frames, 1, n)) = n
         /\ \A k \in 1..n : SubSeq(frames, 1, n)[k] = frames[k]
  <1>1. frames \in Seq(Frames) /\ Len(frames) \in Nat
    BY DEF PanelInv, RunTypeOK
  <1>2. \A k \in 1..n : frames[k] \in Frames
    BY <1>1
  <1> QED
    BY <1>1, <1>2

-----------------------------------------------------------------------------
(* The reviewer's steps: the run stands where it stood.                    *)

LEMMA SameRun ==
  ASSUME PanelInv, UNCHANGED <<gateVars, runVars, frames, surplus>>
  PROVE  RunTypeOK' /\ RunInv' /\ (~surplus' => Alternate')
  BY DEF PanelInv, RunTypeOK, RunInv, Alternate, Waiting, LastRequest, LastDecision,
         Requested, Decided, gateVars, runVars

LEMMA OwnView ==
  ASSUME PanelInv, NEW p \in Pages
  PROVE  /\ View(p) \in Seq(Frames)
         /\ Len(View(p)) = seen[p] /\ seen[p] \in Nat /\ seen[p] <= Len(frames)
         /\ \A k \in 1..seen[p] : View(p)[k] = frames[k]
         /\ RequestsShown(p) \in Nat
  <1>1. seen[p] \in Nat /\ seen[p] <= Len(frames)
    BY DEF PanelInv, PageTypeOK
  <1>2. /\ View(p) \in Seq(Frames)
        /\ Len(View(p)) = seen[p]
        /\ \A k \in 1..seen[p] : View(p)[k] = frames[k]
    BY <1>1, ViewType DEF View
  <1>3. Requests(View(p)) \subseteq 1..seen[p]
    BY <1>2, Positions DEF Requests
  <1> QED
    BY <1>1, <1>2, <1>3, LastAdded DEF RequestsShown

LEMMA EnabledShows ==
  ASSUME PanelInv, NEW p \in Pages, NEW verdict \in Verdicts, Enabled(p, verdict)
  PROVE  /\ connected[p]
         /\ Review(p) \in RequestFrames
         /\ Review(p) = PendingReview(View(p))
         /\ verdict = "edit" => Review(p).gate = "review_gate"
  <1>1. connected[p] /\ Review(p) # None
    BY DEF Enabled, CanDecide, CanTerminate, AllowEdit, Verdicts
  <1>2. Review(p) \in RequestFrames
    BY <1>1, OwnView, PendingReviewType DEF Review
  <1>3. verdict = "edit" => ~IsPostExec(Review(p))
    BY DEF Enabled, AllowEdit
  <1> QED
    BY <1>1, <1>2, <1>3 DEF IsPostExec, RequestFrames, Gates, Review

LEMMA PlanShownType ==
  ASSUME NEW fs \in Seq(Frames)
  PROVE  PlanShown(fs) \in PlanIds \union {None}
  BY PendingReviewType DEF PlanShown, RequestFrames, Plans

LEMMA DecideKeepsPages ==
  ASSUME PanelInv, NEW p \in Pages, NEW verdict \in Verdicts, Decide(p, verdict)
  PROVE  PageTypeOK'
  <1> DEFINE click == [decision |-> [gate |-> Review(p).gate, decision |-> verdict],
                       shown |-> RequestsShown(p),
                       cancelled |-> cancelledOn[p] = RequestsShown(p)]
  <1>1. Review(p) \in RequestFrames /\ RequestsShown(p) \in Nat
    BY EnabledShows, OwnView DEF Decide
  <1>2. click \in Clicks
    BY <1>1 DEF Clicks, RequestFrames, Submissions
  <1>3. outbox' = [outbox EXCEPT ![p] = Append(@, click)]
    BY DEF Decide
  <1> HIDE DEF click
  <1>4. Append(outbox[p], click) \in Seq(Clicks)
    BY <1>2, AppendProperties DEF PanelInv, PageTypeOK
  <1>5. outbox' \in [Pages -> Seq(Clicks)]
    BY <1>3, <1>4 DEF PanelInv, PageTypeOK
  <1>6. submittedAtPlanId' \in [Pages -> PlanIds \union {None}]
    BY OwnView, PlanShownType DEF Decide, PanelInv, PageTypeOK
  <1> QED
    BY <1>5, <1>6 DEF Decide, PanelInv, PageTypeOK

LEMMA PageStepKeepsPages ==
  ASSUME PanelInv, NEW p \in Pages,
         CancelRefine(p) \/ Receive(p) \/ Disconnect(p) \/ Reload(p)
  PROVE  PageTypeOK'
  <1>1. CASE CancelRefine(p)
    BY <1>1 DEF CancelRefine, PanelInv, PageTypeOK, clickVars
  <1>2. CASE Receive(p)
    <2>1. PICK n \in (seen[p] + 1)..Len(frames) :
            /\ seen' = [seen EXCEPT ![p] = n]
            /\ submittedAtPlanId' =
                 [submittedAtPlanId EXCEPT ![p] = Unlock(@, SubSeq(frames, 1, n))]
      BY <1>2 DEF Receive
    <2>2. n \in Nat /\ n <= Len(frames) /\ UNCHANGED <<frames, connected, outbox>>
      BY <1>2 DEF Receive, PanelInv, PageTypeOK, RunTypeOK, clickVars
    <2>3. submittedAtPlanId' \in [Pages -> PlanIds \union {None}]
      BY <2>1 DEF Unlock, PanelInv, PageTypeOK
    <2>4. seen' \in [Pages -> Nat] /\ \A q \in Pages : seen'[q] <= Len(frames)
      BY <2>1, <2>2 DEF PanelInv, PageTypeOK
    <2> QED
      BY <2>2, <2>3, <2>4 DEF PanelInv, PageTypeOK
  <1>3. CASE Disconnect(p)
    <2>1. PICK n \in 0..Len(outbox[p]) : outbox' = [outbox EXCEPT ![p] = SubSeq(@, 1, n)]
      BY <1>3 DEF Disconnect
    <2>2. outbox[p] \in Seq(Clicks)
      BY DEF PanelInv, PageTypeOK
    <2>3. SubSeq(outbox[p], 1, n) \in Seq(Clicks)
      BY <2>2
    <2> QED
      BY <1>3, <2>1, <2>3 DEF Disconnect, PanelInv, PageTypeOK
  <1>4. CASE Reload(p)
    BY <1>4 DEF Reload, PanelInv, PageTypeOK, clickVars
  <1> QED
    BY <1>1, <1>2, <1>3, <1>4

LEMMA ReviewerKeepsPanel ==
  ASSUME PanelInv, NEW p \in Pages,
         \/ \E verdict \in Verdicts : Decide(p, verdict)
         \/ CancelRefine(p) \/ Receive(p) \/ Disconnect(p) \/ Reload(p)
  PROVE  PanelInv'
  <1>1. UNCHANGED <<gateVars, runVars, frames, surplus>>
    BY DEF Decide, CancelRefine, Receive, Disconnect, Reload, histVars
  <1>2. PageTypeOK'
    BY DecideKeepsPages, PageStepKeepsPages
  <1> QED
    BY <1>1, <1>2, SameRun DEF PanelInv

-----------------------------------------------------------------------------
(* The agent's steps: a frame is published or none.                        *)

LEMMA FramesGrow ==
  ASSUME PanelInv, NEW f \in Frames, frames' = Append(frames, f)
  PROVE  /\ frames' \in Seq(Frames)
         /\ Len(frames') = Len(frames) + 1
         /\ \A n \in 0..Len(frames) : \A k \in 1..n : frames'[k] = frames[k]
         /\ f.type = "review.requested" =>
              /\ Cardinality(Requests(frames')) = Cardinality(Requests(frames)) + 1
              /\ LastRequest' = f
         /\ f.type # "review.requested" =>
              Requests(frames') = Requests(frames)
         /\ f.type = "review.decided" =>
              /\ Cardinality(Decisions(frames')) = Cardinality(Decisions(frames)) + 1
              /\ Decisions(frames') # {}
              /\ LastDecision' = f
         /\ f.type # "review.decided" =>
              /\ Decisions(frames') = Decisions(frames)
              /\ LastTriggersRefine(frames') <=> LastTriggersRefine(frames)
         /\ IsRunTerminal(frames') <=> (IsRunTerminal(frames) \/ f.type = "run.completed")
  <1>1. frames \in Seq(Frames) /\ Len(frames) \in Nat
    BY DEF PanelInv, RunTypeOK
  <1>2. /\ frames' \in Seq(Frames) /\ Len(frames') = Len(frames) + 1
        /\ frames'[Len(frames) + 1] = f
        /\ \A k \in 1..Len(frames) : frames'[k] = frames[k]
        /\ \A type : OfType(frames', type) =
             IF f.type = type THEN OfType(frames, type) \union {Len(frames) + 1}
             ELSE OfType(frames, type)
    BY <1>1, Appended
  <1>3. \A type : OfType(frames, type) \subseteq 1..Len(frames)
    BY <1>1, Positions
  <1>4. ASSUME NEW type
        PROVE  f.type = type =>
                 /\ Cardinality(OfType(frames', type)) = Cardinality(OfType(frames, type)) + 1
                 /\ Max(OfType(frames', type)) = Len(frames) + 1
                 /\ OfType(frames', type) # {}
    <2>1. OfType(frames, type) \subseteq 1..Len(frames)
      BY <1>3
    <2>2. f.type = type => OfType(frames', type) = OfType(frames, type) \union {Len(frames) + 1}
      BY <1>2
    <2> QED
      BY <1>1, <2>1, <2>2, LastAdded
  <1>5. ASSUME NEW type, f.type # type
        PROVE  /\ OfType(frames', type) = OfType(frames, type)
               /\ OfType(frames, type) # {} =>
                    frames'[Max(OfType(frames', type))] = frames[Max(OfType(frames, type))]
    <2>1. OfType(frames', type) = OfType(frames, type)
      BY <1>2, <1>5
    <2>2. OfType(frames, type) # {} => Max(OfType(frames, type)) \in 1..Len(frames)
      BY <1>1, <1>3, LastExists
    <2> QED
      BY <1>2, <2>1, <2>2
  <1>6. f.type # "review.requested" => Requests(frames') = Requests(frames)
    BY <1>5 DEF Requests
  <1>7. f.type # "review.decided" =>
              /\ Decisions(frames') = Decisions(frames)
              /\ LastTriggersRefine(frames') <=> LastTriggersRefine(frames)
    BY <1>5 DEF Decisions, LastTriggersRefine
  <1>8. f.type = "review.requested" =>
              /\ Cardinality(Requests(frames')) = Cardinality(Requests(frames)) + 1
              /\ LastRequest' = f
    BY <1>2, <1>4 DEF Requests, LastRequest
  <1>9. f.type = "review.decided" =>
              /\ Cardinality(Decisions(frames')) = Cardinality(Decisions(frames)) + 1
              /\ Decisions(frames') # {}
              /\ LastDecision' = f
    BY <1>2, <1>4 DEF Decisions, LastDecision
  <1>10. IsRunTerminal(frames') <=> (IsRunTerminal(frames) \/ f.type = "run.completed")
    BY <1>2, <1>4, <1>5 DEF IsRunTerminal
  <1>11. \A n \in 0..Len(frames) : \A k \in 1..n : frames'[k] = frames[k]
    BY <1>1, <1>2
  <1> QED
    BY <1>2, <1>6, <1>7, <1>8, <1>9, <1>10, <1>11

LEMMA TakenClick ==
  ASSUME PanelInv, NEW p \in Pages, Take(p)
  PROVE  /\ Head(outbox[p]) \in Clicks
         /\ Decided(Head(outbox[p]).decision) \in Frames
         /\ Decided(Head(outbox[p]).decision).type = "review.decided"
         /\ outbox' \in [Pages -> Seq(Clicks)]
  <1>1. outbox[p] \in Seq(Clicks) /\ outbox[p] # <<>>
    BY DEF PanelInv, PageTypeOK, Take
  <1>2. Head(outbox[p]) \in Clicks /\ Tail(outbox[p]) \in Seq(Clicks)
    BY <1>1
  <1>3. Decided(Head(outbox[p]).decision) \in DecisionFrames
    BY <1>2 DEF Decided, DecisionFrames, Clicks, Submissions
  <1>4. outbox' \in [Pages -> Seq(Clicks)]
    BY <1>2 DEF Take, PanelInv, PageTypeOK
  <1> QED
    BY <1>2, <1>3, <1>4 DEF Frames, Decided

LEMMA GrowthKeepsPages ==
  ASSUME PanelInv, NEW f \in Frames, frames' = Append(frames, f),
         UNCHANGED pageVars, outbox' \in [Pages -> Seq(Clicks)]
  PROVE  PageTypeOK'
  <1>1. Len(frames') = Len(frames) + 1 /\ Len(frames) \in Nat
    BY FramesGrow DEF PanelInv, RunTypeOK
  <1> QED
    BY <1>1 DEF PanelInv, PageTypeOK, pageVars

LEMMA ArriveInTimeKeepsPanel ==
  ASSUME PanelInv, NEW p \in Pages, ArriveInTime(p)
  PROVE  PanelInv'
  <1> DEFINE s == Head(outbox[p]).decision
             f == Decided(s)
  <1>1. /\ s \in Submissions /\ f \in Frames /\ f.type = "review.decided"
        /\ outbox' \in [Pages -> Seq(Clicks)]
    BY TakenClick DEF ArriveInTime, Clicks
  <1>2. /\ question = TargetOf[s] /\ answer = None /\ answer' = s
        /\ UNCHANGED <<question, early, rounds>>
        /\ frames' = Append(frames, f)
        /\ UNCHANGED <<runVars, pageVars, surplus>>
    BY DEF ArriveInTime, Gate!Answer
  <1>3. question = s.gate /\ s.gate \in Gates /\ question # None /\ s # None
    BY <1>1, <1>2 DEF TargetOf, Submissions
  <1>4. PageTypeOK'
    BY <1>1, <1>2, GrowthKeepsPages
  <1>5. RunTypeOK'
    BY <1>1, <1>2, FramesGrow DEF PanelInv, RunTypeOK, runVars
  <1>6. RunInv'
    BY <1>1, <1>2, <1>3, FramesGrow DEF PanelInv, RunInv, runVars
  <1>7. ASSUME ~surplus
        PROVE  Alternate'
    <2>1. Alternate /\ Waiting
      BY <1>2, <1>3, <1>7 DEF PanelInv, Waiting
    <2>2. ~Waiting' /\ question' # None
      BY <1>2, <1>3 DEF Waiting
    <2>3. /\ Requests(frames') = Requests(frames)
          /\ Cardinality(Decisions(frames')) = Cardinality(Decisions(frames)) + 1
          /\ Decisions(frames') # {} /\ LastDecision' = f
      BY <1>1, <1>2, FramesGrow
    <2>4. (Cardinality(Requests(frames)) = Cardinality(Decisions(frames)))'
      BY <2>1, <2>3 DEF Alternate
    <2>5. f = Decided(answer')
      BY <1>2
    <2> QED
      BY <1>2, <2>1, <2>2, <2>3, <2>4, <2>5 DEF Alternate, Decided
  <1> QED
    BY <1>2, <1>4, <1>5, <1>6, <1>7 DEF PanelInv

LEMMA ArriveOtherwiseKeepsPanel ==
  ASSUME PanelInv, NEW p \in Pages, ArriveUnasked(p) \/ ArriveRefused(p)
  PROVE  PanelInv'
  <1>1. CASE ArriveUnasked(p)
    <2> DEFINE s == Head(outbox[p]).decision
               f == Decided(s)
    <2>1. /\ f \in Frames /\ f.type = "review.decided" /\ outbox' \in [Pages -> Seq(Clicks)]
          /\ frames' = Append(frames, f)
          /\ UNCHANGED <<question, answer, runVars, pageVars>> /\ surplus'
          /\ s \in Submissions /\ early' = [early EXCEPT ![TargetOf[s]] = s]
      BY <1>1, TakenClick DEF ArriveUnasked, Gate!KeepEarly, Clicks
    <2> HIDE DEF f, s
    <2>2. /\ early' \in [Gates -> Submissions \union {None}]
          /\ \A g \in Gates : early'[g] # None => early'[g].gate = g
      BY <2>1 DEF TargetOf, Submissions, PanelInv, RunTypeOK, RunInv
    <2>3. PageTypeOK'
      BY <2>1, GrowthKeepsPages
    <2>4. RunTypeOK' /\ RunInv'
      BY <2>1, <2>2, FramesGrow DEF PanelInv, RunTypeOK, RunInv, runVars
    <2> QED
      BY <2>1, <2>3, <2>4 DEF PanelInv
  <1>2. CASE ArriveRefused(p)
    <2>1. outbox' \in [Pages -> Seq(Clicks)] /\ UNCHANGED <<gateVars, runVars, frames, surplus>>
      BY <1>2, TakenClick DEF ArriveRefused, histVars
    <2>2. PageTypeOK'
      BY <1>2, <2>1 DEF ArriveRefused, PanelInv, PageTypeOK, pageVars
    <2> QED
      BY <2>1, <2>2, SameRun DEF PanelInv
  <1> QED
    BY <1>1, <1>2

LEMMA OpenGateKeepsPanel ==
  ASSUME PanelInv, OpenGate
  PROVE  PanelInv'
  <1> DEFINE f == Requested
  <1>1. /\ todo \in Gates /\ question = None /\ question' = todo
        /\ answer' = (IF rounds[todo] = 0 THEN early[todo] ELSE None)
        /\ early' = [early EXCEPT ![todo] = None]
        /\ frames' = Append(frames, f)
        /\ UNCHANGED <<runVars, pageVars, clickVars, surplus>>
    BY DEF OpenGate, Gate!Ask, histVars
  <1>2. f \in Frames /\ f.type = "review.requested"
    BY <1>1 DEF Requested, RequestFrames, Frames, PanelInv, RunTypeOK
  <1>3. f = Requested'
    BY <1>1 DEF Requested, runVars
  <1> HIDE DEF f
  <1>4. PageTypeOK'
    <2>1. outbox' \in [Pages -> Seq(Clicks)]
      BY <1>1 DEF PanelInv, PageTypeOK, clickVars
    <2> QED
      BY <1>1, <1>2, <2>1, GrowthKeepsPages
  <1>5. /\ answer' \in Submissions \union {None}
        /\ answer' # None => answer'.gate = todo
        /\ early' \in [Gates -> Submissions \union {None}]
        /\ \A g \in Gates : early'[g] # None => early'[g].gate = g
    BY <1>1 DEF PanelInv, RunTypeOK, RunInv
  <1>6. RunTypeOK'
    BY <1>1, <1>2, <1>5, FramesGrow DEF PanelInv, RunTypeOK, runVars
  <1>7. RunInv'
    BY <1>1, <1>2, <1>5, FramesGrow DEF PanelInv, RunInv, runVars, Gates
  <1>8. ASSUME ~surplus
        PROVE  Alternate'
    <2>1. Alternate /\ ~Waiting
      BY <1>1, <1>8 DEF PanelInv, Waiting
    <2>2. answer' = None /\ (\A g \in Gates : early'[g] = None) /\ question' # None
      BY <1>1, <2>1 DEF Alternate, PanelInv, RunTypeOK
    <2>3. Waiting'
      BY <2>2 DEF Waiting
    <2>4. /\ Cardinality(Requests(frames')) = Cardinality(Requests(frames)) + 1
          /\ LastRequest' = f
          /\ Decisions(frames') = Decisions(frames)
      BY <1>1, <1>2, FramesGrow
    <2>5. (Cardinality(Requests(frames)) = Cardinality(Decisions(frames)) + 1)'
      BY <2>1, <2>4 DEF Alternate
    <2> QED
      BY <1>3, <2>2, <2>3, <2>4, <2>5 DEF Alternate
  <1> QED
    BY <1>1, <1>4, <1>6, <1>7, <1>8 DEF PanelInv

LEMMA ResumeKeepsPanel ==
  ASSUME PanelInv, Resume
  PROVE  PanelInv'
  <1>1. PICK next \in After(question, answer.decision) :
          /\ todo' = next
          /\ \/ plan' = plan
             \/ PlansLeft /\ \E flaw \in Flaws : plan' = [planId |-> NewPlanId, flaw |-> flaw]
    BY DEF Resume
  <1>2. /\ answer # None /\ question' = None /\ answer' = None
        /\ UNCHANGED <<early, rounds, frames, pageVars, clickVars, surplus>>
    BY DEF Resume, Gate!Continue, histVars
  <1>3. /\ answer \in Submissions /\ question = answer.gate /\ question \in Gates
        /\ question # None /\ ~Waiting
    BY <1>2 DEF PanelInv, RunTypeOK, RunInv, Submissions, Waiting
  <1>4. next \in Gates \union {"end"}
    BY DEF After, Gates
  <1>5. next = "human_verify_gate" => answer.decision \notin REFINE_TRIGGERS
    BY <1>3 DEF After, REFINE_TRIGGERS, Submissions, Verdicts, Gates
  <1>6. plan' \in Plans
    BY <1>1 DEF PanelInv, RunTypeOK, Plans, PlanIds, PlansLeft, NewPlanId
  <1>7. RunTypeOK'
    BY <1>1, <1>2, <1>4, <1>6 DEF PanelInv, RunTypeOK
  <1>8. RunInv'
    BY <1>1, <1>2, <1>3, <1>4 DEF PanelInv, RunInv, Gates
  <1>9. PageTypeOK'
    BY <1>2 DEF PanelInv, PageTypeOK, pageVars, clickVars
  <1>10. ASSUME ~surplus
         PROVE  Alternate'
    <2>1. Alternate
      BY <1>10 DEF PanelInv
    <2>2. ~Waiting' /\ answer' = None
      BY <1>2 DEF Waiting
    <2>3. todo' = "human_verify_gate" => ~LastTriggersRefine(frames')
      BY <1>1, <1>2, <1>5, <2>1 DEF Alternate, LastTriggersRefine, LastDecision, Decided
    <2> QED
      BY <1>2, <1>3, <2>1, <2>2, <2>3 DEF Alternate
  <1> QED
    BY <1>2, <1>7, <1>8, <1>9, <1>10 DEF PanelInv

LEMMA EndRunKeepsPanel ==
  ASSUME PanelInv, EndRun
  PROVE  PanelInv'
  <1>1. /\ todo = "end" /\ question = None /\ todo' = "done"
        /\ frames' = Append(frames, Completed)
        /\ UNCHANGED <<question, answer, early, plan, pageVars, outbox, surplus>>
    BY DEF EndRun, gateVars, clickVars, histVars
  <1>2. Completed \in Frames /\ Completed.type = "run.completed"
    BY DEF Completed, Frames
  <1> HIDE DEF Completed
  <1>3. PageTypeOK'
    <2>1. outbox' \in [Pages -> Seq(Clicks)]
      BY <1>1 DEF PanelInv, PageTypeOK
    <2> QED
      BY <1>1, <1>2, <2>1, GrowthKeepsPages
  <1>4. /\ frames' \in Seq(Frames) /\ IsRunTerminal(frames')
        /\ Requests(frames') = Requests(frames) /\ Decisions(frames') = Decisions(frames)
    BY <1>1, <1>2, FramesGrow
  <1>5. RunTypeOK'
    BY <1>1, <1>4 DEF PanelInv, RunTypeOK
  <1>6. RunInv'
    BY <1>1, <1>4 DEF PanelInv, RunInv
  <1>7. answer = None /\ ~Waiting
    BY <1>1 DEF PanelInv, RunInv, Waiting
  <1>8. ~surplus => Alternate'
    BY <1>1, <1>4, <1>7 DEF PanelInv, Alternate, Waiting
  <1> QED
    BY <1>1, <1>3, <1>5, <1>6, <1>8 DEF PanelInv

LEMMA PanelInitially == Init => PanelInv
  <1> SUFFICES ASSUME Init
               PROVE  PanelInv
    OBVIOUS
  <1>1. frames = <<>> /\ question = None /\ answer = None /\ todo = "review_gate"
    BY DEF Init, Gate!Init
  <1>2. \A type : OfType(frames, type) = {}
    BY <1>1 DEF OfType
  <1>3. frames \in Seq(Frames) /\ Len(frames) = 0
    BY <1>1
  <1>4. plan \in Plans
    BY DEF Init, Plans, PlanIds
  <1>5. RunTypeOK
    BY <1>1, <1>3, <1>4 DEF Init, Gate!Init, RunTypeOK, Gates
  <1>6. PageTypeOK
    BY <1>3 DEF Init, PageTypeOK
  <1>7. RunInv
    BY <1>1, <1>2 DEF Init, Gate!Init, RunInv, IsRunTerminal
  <1>8. Alternate
    BY <1>1, <1>2 DEF Init, Gate!Init, Alternate, Waiting, Requests, Decisions
  <1> QED
    BY <1>5, <1>6, <1>7, <1>8 DEF PanelInv

LEMMA PanelInductive == PanelInv /\ [Next]_vars => PanelInv'
  <1> SUFFICES ASSUME PanelInv, [Next]_vars
               PROVE  PanelInv'
    OBVIOUS
  <1>1. ASSUME NEW p \in Pages,
               \/ \E verdict \in Verdicts : Decide(p, verdict)
               \/ CancelRefine(p) \/ Receive(p) \/ Disconnect(p) \/ Reload(p)
        PROVE  PanelInv'
    BY <1>1, ReviewerKeepsPanel
  <1>2. ASSUME NEW p \in Pages, Arrive(p)
        PROVE  PanelInv'
    BY <1>2, ArriveInTimeKeepsPanel, ArriveOtherwiseKeepsPanel DEF Arrive
  <1>3. CASE Workflow
    BY <1>3, OpenGateKeepsPanel, ResumeKeepsPanel, EndRunKeepsPanel DEF Workflow
  <1>4. CASE UNCHANGED vars
    BY <1>4, SameRun DEF vars, PanelInv, PageTypeOK, gateVars, runVars, pageVars, clickVars, histVars
  <1> QED
    BY <1>1, <1>2, <1>3, <1>4 DEF Next

LEMMA PanelInvariant == Spec => []PanelInv
  BY PanelInitially, PanelInductive, PTL DEF Spec

-----------------------------------------------------------------------------
LEMMA UpToDateView ==
  ASSUME PanelInv, NEW p \in Pages, UpToDate(p)
  PROVE  View(p) = frames
  <1>1. frames \in Seq(Frames) /\ seen[p] = Len(frames)
    BY DEF PanelInv, RunTypeOK, UpToDate
  <1> QED
    BY <1>1 DEF View

LEMMA TruePanel ==
  ASSUME PanelInv, ~surplus
  PROVE  /\ Waiting => /\ Requests(frames) # {}
                        /\ PendingReview(frames) = Requested
                        /\ Requested # None
         /\ (question = None /\ todo \in {"human_verify_gate", "done"}) =>
              PendingReview(frames) = None
  <1>1. Alternate
    BY DEF PanelInv
  <1>2. ASSUME Waiting
        PROVE  /\ Requests(frames) # {}
               /\ PendingReview(frames) = Requested
               /\ Requested # None
    <2>1. /\ Cardinality(Requests(frames)) = Cardinality(Decisions(frames)) + 1
          /\ LastRequest = Requested
      BY <1>1, <1>2 DEF Alternate
    <2>2. Cardinality(Decisions(frames)) \in Nat
      BY Positions, LastAdded DEF Decisions, PanelInv, RunTypeOK
    <2>3. Requests(frames) # {}
      <3>1. Cardinality(Requests(frames)) # 0
        BY <2>1, <2>2
      <3>2. Requests(frames) = {} => Cardinality(Requests(frames)) = Cardinality({})
        BY Zenon
      <3> QED
        BY <3>1, <3>2, FS_EmptySet, Zenon
    <2>4. ~GateClosed(frames)
      BY <2>1, <2>2 DEF GateClosed
    <2>5. todo \in Gates /\ ~IsRunTerminal(frames)
      BY <1>2 DEF Waiting, PanelInv, RunTypeOK, RunInv, Gates
    <2>6. Requested \in RequestFrames
      BY <2>5 DEF Requested, RequestFrames, PanelInv, RunTypeOK
    <2> QED
      BY <2>1, <2>3, <2>4, <2>5, <2>6 DEF PendingReview, LastRequest
  <1>3. ASSUME question = None, todo \in {"human_verify_gate", "done"}
        PROVE  PendingReview(frames) = None
    <2>1. CASE todo = "done"
      BY <2>1 DEF PendingReview, PanelInv, RunInv
    <2>2. CASE todo = "human_verify_gate"
      <3>1. /\ Cardinality(Requests(frames)) = Cardinality(Decisions(frames))
            /\ ~LastTriggersRefine(frames)
        BY <1>1, <1>3, <2>2 DEF Alternate, Waiting
      <3>2. Cardinality(Decisions(frames)) \in Nat
        BY Positions, LastAdded DEF Decisions, PanelInv, RunTypeOK
      <3> QED
        BY <3>1, <3>2 DEF PendingReview, GateClosed
    <2> QED
      BY <1>3, <2>1, <2>2
  <1> QED
    BY <1>2, <1>3

\* However many tabs are open, sockets dropped and pages reloaded: while every
\* decision answered a request, the panel of an up-to-date page is that of the
\* request the workflow waits on, and is hidden while an approved plan executes
\* and once the run is over.
THEOREM PanelShowsTheRun == Spec => []PanelIsTruthful
  <1>1. PanelInv => PanelIsTruthful
    <2> SUFFICES ASSUME PanelInv, ~surplus, NEW p \in Pages, UpToDate(p)
                 PROVE  /\ Waiting => ShowsTheQuestion(p)
                        /\ (~Waiting /\ todo \in {"human_verify_gate", "done"}) =>
                             (question = None => Review(p) = None)
      BY DEF PanelIsTruthful
    <2>1. Review(p) = PendingReview(frames)
      BY UpToDateView DEF Review
    <2>2. Waiting => question = todo
      BY DEF Waiting, PanelInv, RunInv
    <2> QED
      BY <2>1, <2>2, TruePanel DEF ShowsTheQuestion, Requested
  <1> QED
    BY <1>1, PanelInvariant, PTL

-----------------------------------------------------------------------------
(* The lock.                                                               *)

LEMMA PlansStayInOrder ==
  ASSUME PanelInv, PlansInOrder, [Next]_vars
  PROVE  PlansInOrder' /\ plan.planId <= plan'.planId /\ plan.planId \in Nat /\ plan'.planId \in Nat
  <1>1. plan.planId \in Nat /\ plan \in Plans
    BY DEF PanelInv, RunTypeOK, Plans, PlanIds
  <1>2. CASE OpenGate
    <2>1. Requested \in Frames /\ Requested.type = "review.requested" /\ Requested.plan = plan
      BY <1>1, <1>2 DEF OpenGate, Requested, RequestFrames, Frames
    <2>2. frames' = Append(frames, Requested) /\ plan' = plan
      BY <1>2 DEF OpenGate, runVars
    <2>3. /\ Requests(frames') = Requests(frames) \union {Len(frames) + 1}
          /\ frames'[Len(frames) + 1] = Requested
          /\ \A k \in 1..Len(frames) : frames'[k] = frames[k]
      BY <2>1, <2>2, Appended DEF Requests, PanelInv, RunTypeOK
    <2>4. Requests(frames) \subseteq 1..Len(frames)
      BY Positions DEF Requests, PanelInv, RunTypeOK
    <2> QED
      BY <1>1, <2>1, <2>2, <2>3, <2>4 DEF PlansInOrder
  <1>3. ASSUME UNCHANGED plan,
               frames' = frames
                 \/ \E f \in Frames : f.type # "review.requested" /\ frames' = Append(frames, f)
        PROVE  PlansInOrder' /\ plan.planId <= plan'.planId /\ plan'.planId \in Nat
    <2>1. CASE frames' = frames
      BY <1>1, <1>3, <2>1 DEF PlansInOrder
    <2>2. ASSUME NEW f \in Frames, f.type # "review.requested", frames' = Append(frames, f)
          PROVE  PlansInOrder'
      <3>1. /\ Requests(frames') = Requests(frames)
            /\ \A k \in 1..Len(frames) : frames'[k] = frames[k]
        BY <2>2, Appended DEF Requests, PanelInv, RunTypeOK
      <3>2. Requests(frames) \subseteq 1..Len(frames)
        BY Positions DEF Requests, PanelInv, RunTypeOK
      <3> QED
        BY <1>3, <3>1, <3>2 DEF PlansInOrder
    <2> QED
      BY <1>1, <1>3, <2>1, <2>2
  <1>4. CASE Resume
    <2>1. frames' = frames
      BY <1>4 DEF Resume
    <2>2. plan' = plan \/ plan'.planId = plan.planId + 1
      BY <1>4 DEF Resume, NewPlanId
    <2>3. \A k \in Requests(frames) : frames[k].plan.planId \in Nat
      BY Positions, FrameTypes DEF Requests, RequestFrames, Plans, PlanIds, PanelInv, RunTypeOK
    <2> QED
      BY <1>1, <2>1, <2>2, <2>3 DEF PlansInOrder
  <1>5. CASE EndRun
    <2>1. /\ Completed \in Frames /\ Completed.type = "run.completed"
          /\ frames' = Append(frames, Completed) /\ plan' = plan
      BY <1>5 DEF EndRun, Completed, Frames
    <2> QED
      BY <1>1, <1>3, <2>1
  <1>6. ASSUME NEW p \in Pages, ArriveInTime(p) \/ ArriveUnasked(p)
        PROVE  PlansInOrder' /\ plan.planId <= plan'.planId /\ plan'.planId \in Nat
    <2> DEFINE f == Decided(Head(outbox[p]).decision)
    <2>1. /\ f \in Frames /\ f.type = "review.decided"
          /\ frames' = Append(frames, f) /\ plan' = plan
      BY <1>6, TakenClick DEF ArriveInTime, ArriveUnasked, runVars
    <2> HIDE DEF f
    <2> QED
      BY <1>1, <1>3, <2>1
  <1>7. ASSUME NEW p \in Pages,
               \/ \E verdict \in Verdicts : Decide(p, verdict)
               \/ CancelRefine(p) \/ Receive(p) \/ Disconnect(p) \/ Reload(p)
               \/ ArriveRefused(p)
        PROVE  frames' = frames /\ plan' = plan
    BY <1>7 DEF Decide, CancelRefine, Receive, Disconnect, Reload, ArriveRefused, runVars
  <1>8. CASE UNCHANGED vars
    BY <1>1, <1>3, <1>8 DEF vars, runVars
  <1> QED
    BY <1>1, <1>2, <1>3, <1>4, <1>5, <1>6, <1>7, <1>8 DEF Next, Workflow, Arrive

LEMMA GivenUpForGood ==
  ASSUME PanelInv, NEW planId \in PlanIds, planId <= plan.planId, GivenUp(planId),
         Workflow \/ \E p \in Pages : ArriveInTime(p)
  PROVE  GivenUp(planId)'
  <1>1. plan.planId \in Nat /\ planId \in Nat
    BY DEF PanelInv, RunTypeOK, Plans, PlanIds
  <1>2. CASE OpenGate
    <2>1. todo \in Gates /\ question = None /\ answer = None /\ plan' = plan
      BY <1>2 DEF OpenGate, Gate!Ask, runVars, PanelInv, RunInv
    <2> QED
      BY <2>1 DEF GivenUp, Gates
  <1>3. CASE Resume
    <2>1. /\ answer # None /\ question' = None /\ answer' = None /\ question # None
      BY <1>3 DEF Resume, Gate!Continue, PanelInv, RunInv
    <2>2. PICK next \in After(question, answer.decision) :
            /\ todo' = next
            /\ IF next = "review_gate"
               THEN \E flaw \in Flaws : plan' = [planId |-> NewPlanId, flaw |-> flaw]
               ELSE plan' = plan
      BY <1>3 DEF Resume
    <2>3. CASE plan.planId > planId
      BY <1>1, <2>2, <2>3 DEF GivenUp, NewPlanId
    <2>4. CASE question = "review_gate" /\ answer.decision = "edit"
      <3>1. next \in {"end", "review_gate"}
        BY <2>4 DEF After
      <3> QED
        BY <1>1, <2>1, <2>2, <3>1 DEF GivenUp, NewPlanId
    <2> QED
      BY <2>1, <2>3, <2>4 DEF GivenUp
  <1>4. CASE EndRun
    BY <1>4 DEF EndRun, GivenUp, gateVars
  <1>5. ASSUME NEW p \in Pages, ArriveInTime(p)
        PROVE  GivenUp(planId)'
    <2>1. /\ answer = None /\ question = TargetOf[Head(outbox[p]).decision]
          /\ UNCHANGED <<plan, todo, question>>
      BY <1>5 DEF ArriveInTime, Gate!Answer, runVars
    <2>2. question # None
      BY <1>5, <2>1, TakenClick DEF ArriveInTime, TargetOf, Clicks, Submissions
    <2> QED
      BY <2>1, <2>2 DEF GivenUp
  <1> QED
    BY <1>2, <1>3, <1>4, <1>5 DEF Workflow

\* The frames a page has do not change when more are published.
LEMMA ViewStays ==
  ASSUME PanelInv, PanelInv', NEW p \in Pages, seen'[p] = seen[p],
         frames' = frames \/ \E f \in Frames : frames' = Append(frames, f)
  PROVE  View(p)' = View(p)
  <1>1. seen[p] \in Nat /\ seen[p] <= Len(frames)
    BY DEF PanelInv, PageTypeOK
  <1>2. /\ frames' \in Seq(Frames) /\ frames \in Seq(Frames)
        /\ \A n \in 0..Len(frames) : \A k \in 1..n : frames'[k] = frames[k]
    BY FramesGrow DEF PanelInv, RunTypeOK
  <1>3. \A k \in 1..seen[p] : frames'[k] = frames[k]
    BY <1>1, <1>2
  <1>4. SubSeq(frames', 1, seen[p]) = [k \in 1..seen[p] |-> frames'[k]]
    BY <1>1, <1>2
  <1>5. SubSeq(frames, 1, seen[p]) = [k \in 1..seen[p] |-> frames[k]]
    BY <1>1, <1>2
  <1> QED
    BY <1>3, <1>4, <1>5 DEF View

\* What a page shows is a request that was published.
LEMMA ShownPlan ==
  ASSUME PanelInv, PlansInOrder, NEW p \in Pages, PlanShown(View(p)) # None
  PROVE  PlanShown(View(p)) <= plan.planId
  <1> DEFINE fs == View(p)
  <1>1. /\ fs \in Seq(Frames) /\ Len(fs) = seen[p] /\ seen[p] \in Nat /\ seen[p] <= Len(frames)
        /\ \A k \in 1..seen[p] : fs[k] = frames[k]
    BY OwnView
  <1>2. frames \in Seq(Frames)
    BY DEF PanelInv, RunTypeOK
  <1> HIDE DEF fs
  <1>3. PendingReview(fs) # None /\ PlanShown(fs) = PendingReview(fs).plan.planId
    BY DEF PlanShown, fs
  <1>4. PICK k \in Requests(fs) : PendingReview(fs) = fs[k]
    BY <1>1, <1>3, PendingReviewType
  <1>5. k \in 1..seen[p] /\ fs[k].type = "review.requested" /\ fs[k] = frames[k]
    BY <1>1, <1>4, Positions DEF Requests
  <1>6. k \in Requests(frames)
    BY <1>1, <1>2, <1>5 DEF Requests, OfType
  <1> QED
    BY <1>3, <1>4, <1>5, <1>6 DEF PlansInOrder, fs

\* The lock of a page whose reviewer does nothing to it.
LEMMA LockUntouched ==
  ASSUME PanelInv, PanelInv', NEW p \in Pages, LockOf(p),
         seen'[p] = seen[p], connected'[p] = connected[p],
         submittedAtPlanId'[p] = submittedAtPlanId[p],
         plan.planId <= plan'.planId, plan.planId \in Nat, plan'.planId \in Nat,
         frames' = frames \/ \E f \in Frames : frames' = Append(frames, f),
         submittedAtPlanId[p] # None /\ connected[p] =>
            \/ \E k \in DOMAIN outbox'[p] : IsEdit(outbox'[p][k])
            \/ GivenUp(submittedAtPlanId[p])'
  PROVE  LockOf(p)'
  <1>1. View(p)' = View(p)
    BY ViewStays
  <1>2. PlanShown(View(p)') = PlanShown(View(p))
    BY <1>1
  <1>3. submittedAtPlanId[p] # None => submittedAtPlanId[p] \in Nat
    BY DEF PanelInv, PageTypeOK, PlanIds
  <1>4. submittedAtPlanId[p] # None => submittedAtPlanId[p] <= plan'.planId
    BY <1>3 DEF LockOf
  <1> QED
    BY <1>2, <1>4 DEF LockOf

LEMMA SameGivenUp ==
  ASSUME UNCHANGED <<gateVars, runVars>>, NEW planId
  PROVE  GivenUp(planId)' <=> GivenUp(planId)
  BY DEF GivenUp, gateVars, runVars

LEMMA DecideKeepsLock ==
  ASSUME PanelInv, PanelInv', LockInv, ~surplus,
         NEW p \in Pages, NEW verdict \in Verdicts, Decide(p, verdict)
  PROVE  LockOf(p)'
  <1> DEFINE click == [decision |-> [gate |-> Review(p).gate, decision |-> verdict],
                       shown |-> RequestsShown(p),
                       cancelled |-> cancelledOn[p] = RequestsShown(p)]
  <1>1. /\ outbox' = [outbox EXCEPT ![p] = Append(@, click)]
        /\ UNCHANGED <<gateVars, runVars, frames, seen, connected>>
    BY DEF Decide
  <1>2. /\ plan.planId \in Nat /\ outbox[p] \in Seq(Clicks) /\ outbox'[p] = Append(outbox[p], click)
        /\ submittedAtPlanId \in [Pages -> PlanIds \union {None}]
    BY <1>1 DEF PanelInv, RunTypeOK, PageTypeOK, Plans, PlanIds
  <1>3. verdict = "edit" => IsEdit(click)
    BY EnabledShows DEF Decide, IsEdit
  <1> HIDE DEF click
  <1>4. /\ Len(outbox'[p]) = Len(outbox[p]) + 1 /\ Len(outbox[p]) \in Nat
        /\ DOMAIN outbox[p] = 1..Len(outbox[p]) /\ DOMAIN outbox'[p] = 1..Len(outbox[p]) + 1
        /\ \A k \in 1..Len(outbox[p]) : outbox'[p][k] = outbox[p][k]
        /\ outbox'[p][Len(outbox[p]) + 1] = click
    BY <1>2
  <1>5. CASE verdict = "edit"
    <2>1. submittedAtPlanId'[p] = PlanShown(View(p))
      BY <1>2, <1>5 DEF Decide
    <2>2. View(p)' = View(p) /\ plan' = plan
      BY <1>1 DEF View, runVars
    <2>3. submittedAtPlanId'[p] # None => submittedAtPlanId'[p] <= plan.planId
      BY <2>1, ShownPlan DEF LockInv
    <2>4. \E k \in DOMAIN outbox'[p] : IsEdit(outbox'[p][k])
      BY <1>3, <1>4, <1>5
    <2> QED
      BY <2>1, <2>2, <2>3, <2>4 DEF LockOf
  <1>6. CASE verdict # "edit"
    <2>1. UNCHANGED submittedAtPlanId /\ UNCHANGED plan
      BY <1>1, <1>6 DEF Decide, runVars
    <2>2. \A k \in DOMAIN outbox[p] : IsEdit(outbox[p][k]) => IsEdit(outbox'[p][k])
      BY <1>4
    <2>3. submittedAtPlanId[p] # None /\ connected[p] =>
            \/ \E k \in DOMAIN outbox'[p] : IsEdit(outbox'[p][k])
            \/ GivenUp(submittedAtPlanId[p])'
      BY <1>1, <1>4, <2>1, <2>2, SameGivenUp DEF LockInv, LockOf
    <2>4. LockOf(p)
      BY DEF LockInv
    <2> QED
      BY <1>1, <1>2, <2>1, <2>3, <2>4, LockUntouched
  <1> QED
    BY <1>5, <1>6

LEMMA PageStepKeepsLock ==
  ASSUME PanelInv, PanelInv', LockInv, ~surplus, NEW p \in Pages,
         CancelRefine(p) \/ Receive(p) \/ Disconnect(p) \/ Reload(p)
  PROVE  LockOf(p)'
  <1>1. LockOf(p) /\ submittedAtPlanId \in [Pages -> PlanIds \union {None}]
    BY DEF LockInv, PanelInv, PageTypeOK
  <1>2. CASE CancelRefine(p) \/ Reload(p)
    <2>1. submittedAtPlanId'[p] = None
      BY <1>1, <1>2 DEF CancelRefine, Reload
    <2> QED
      BY <2>1 DEF LockOf
  <1>3. CASE Receive(p)
    <2>1. PICK n \in (seen[p] + 1)..Len(frames) :
            /\ seen' = [seen EXCEPT ![p] = n]
            /\ submittedAtPlanId' =
                 [submittedAtPlanId EXCEPT ![p] = Unlock(@, SubSeq(frames, 1, n))]
      BY <1>3 DEF Receive
    <2>2. UNCHANGED <<gateVars, runVars, frames, connected, outbox>>
      BY <1>3 DEF Receive, clickVars
    <2>3. View(p)' = SubSeq(frames, 1, n)
      BY <2>1, <2>2 DEF View, PanelInv, PageTypeOK
    <2>4. submittedAtPlanId'[p] = Unlock(submittedAtPlanId[p], View(p)')
      BY <1>1, <2>1, <2>3
    <2>5. submittedAtPlanId'[p] # None =>
            /\ submittedAtPlanId'[p] = submittedAtPlanId[p]
            /\ submittedAtPlanId'[p] = PlanShown(View(p)')
      BY <2>4 DEF Unlock
    <2>6. plan' = plan /\ connected' = connected /\ outbox' = outbox
      BY <2>2 DEF runVars
    <2> QED
      BY <1>1, <2>2, <2>5, <2>6, SameGivenUp DEF LockOf
  <1>4. CASE Disconnect(p)
    <2>1. /\ connected'[p] = FALSE
          /\ UNCHANGED <<plan, frames, seen, submittedAtPlanId>>
      BY <1>4 DEF Disconnect, runVars, PanelInv, PageTypeOK
    <2>2. View(p)' = View(p)
      BY <2>1 DEF View
    <2> QED
      BY <1>1, <2>1, <2>2 DEF LockOf
  <1> QED
    BY <1>2, <1>3, <1>4

\* The head of an outbox that arrives, or stays.
LEMMA ArriveKeepsLock ==
  ASSUME PanelInv, PanelInv', LockInv, ~surplus, NEW p \in Pages, NEW q \in Pages,
         ArriveInTime(q), plan.planId <= plan'.planId, plan.planId \in Nat, plan'.planId \in Nat
  PROVE  LockOf(p)'
  <1> DEFINE s == Head(outbox[q]).decision
             f == Decided(s)
             lock == submittedAtPlanId[p]
  <1>1. /\ answer' = s /\ question = TargetOf[s] /\ UNCHANGED <<question, pageVars>>
        /\ frames' = Append(frames, f) /\ f \in Frames
        /\ outbox[q] # <<>> /\ outbox' = [outbox EXCEPT ![q] = Tail(@)]
        /\ s \in Submissions
    BY TakenClick DEF ArriveInTime, Take, Gate!Answer, Clicks
  <1>2. /\ outbox \in [Pages -> Seq(Clicks)]
        /\ submittedAtPlanId \in [Pages -> PlanIds \union {None}]
    BY DEF PanelInv, PageTypeOK
  <1>3. LockOf(p)
    BY DEF LockInv
  <1>4. ASSUME lock # None, connected[p]
        PROVE  \/ \E k \in DOMAIN outbox'[p] : IsEdit(outbox'[p][k])
               \/ GivenUp(lock)'
    <2>1. lock \in PlanIds /\ lock <= plan.planId
      BY <1>2, <1>3, <1>4 DEF LockOf
    <2>2. CASE GivenUp(lock)
      <3>1. lock' = lock
        BY <1>1 DEF pageVars
      <3> QED
        BY <2>1, <2>2, <3>1, GivenUpForGood
    <2>3. ASSUME NEW k \in DOMAIN outbox[p], IsEdit(outbox[p][k])
          PROVE  \/ \E i \in DOMAIN outbox'[p] : IsEdit(outbox'[p][i])
                 \/ GivenUp(lock)'
      <3>1. CASE p # q
        <4>1. outbox'[p] = outbox[p]
          BY <1>1, <1>2, <3>1
        <4> QED
          BY <2>3, <4>1
      <3>2. CASE p = q /\ k = 1
        <4>1. s = [gate |-> "review_gate", decision |-> "edit"]
          BY <1>1, <1>2, <2>3, <3>2 DEF IsEdit
        <4>2. question = "review_gate" /\ s # None
          BY <1>1, <4>1 DEF TargetOf, Submissions
        <4> QED
          BY <1>1, <4>1, <4>2 DEF GivenUp
      <3>3. CASE p = q /\ k # 1
        <4>1. outbox'[p] = Tail(outbox[p]) /\ outbox[p] \in Seq(Clicks) /\ outbox[p] # <<>>
          BY <1>1, <1>2, <3>3
        <4>2. /\ k - 1 \in DOMAIN Tail(outbox[p])
              /\ Tail(outbox[p])[k - 1] = outbox[p][k]
          BY <2>3, <3>3, <4>1
        <4> QED
          BY <2>3, <4>1, <4>2
      <3> QED
        BY <3>1, <3>2, <3>3
    <2> QED
      BY <1>3, <1>4, <2>2, <2>3 DEF LockOf
  <1> HIDE DEF s, f
  <1> QED
    BY <1>1, <1>3, <1>4, LockUntouched DEF pageVars

LEMMA WorkflowKeepsLock ==
  ASSUME PanelInv, PanelInv', LockInv, ~surplus, NEW p \in Pages, Workflow,
         plan.planId <= plan'.planId, plan.planId \in Nat, plan'.planId \in Nat
  PROVE  LockOf(p)'
  <1>1. UNCHANGED <<seen, connected, submittedAtPlanId, outbox>>
    BY DEF Workflow, OpenGate, Resume, EndRun, pageVars, clickVars
  <1>2. frames' = frames \/ \E f \in Frames : frames' = Append(frames, f)
    BY DEF Workflow, OpenGate, Resume, EndRun, Requested, RequestFrames, Frames, PanelInv,
           RunTypeOK
  <1>3. LockOf(p)
    BY DEF LockInv
  <1>4. submittedAtPlanId[p] # None =>
          submittedAtPlanId[p] \in PlanIds /\ submittedAtPlanId[p] <= plan.planId
    BY <1>3 DEF LockOf, PanelInv, PageTypeOK
  <1>5. submittedAtPlanId[p] # None /\ connected[p] =>
            \/ \E k \in DOMAIN outbox'[p] : IsEdit(outbox'[p][k])
            \/ GivenUp(submittedAtPlanId[p])'
    BY <1>1, <1>3, <1>4, GivenUpForGood DEF LockOf
  <1> QED
    BY <1>1, <1>2, <1>3, <1>5, LockUntouched

LEMMA LockInductive == PanelInv /\ PanelInv' /\ LockInv /\ [Next]_vars => LockInv'
  <1> SUFFICES ASSUME PanelInv, PanelInv', LockInv, [Next]_vars
               PROVE  LockInv'
    OBVIOUS
  <1>1. /\ PlansInOrder' /\ plan.planId <= plan'.planId
        /\ plan.planId \in Nat /\ plan'.planId \in Nat
    BY PlansStayInOrder DEF LockInv
  <1>2. SUFFICES ASSUME ~surplus', NEW p \in Pages
                 PROVE  LockOf(p)'
    BY <1>1 DEF LockInv
  <1>3. CASE UNCHANGED vars
    <2>1. LockOf(p) \/ surplus
      BY DEF LockInv
    <2> QED
      BY <1>2, <1>3, <2>1 DEF vars, gateVars, runVars, pageVars, clickVars, histVars, LockOf,
                              View, GivenUp
  <1>4. CASE Workflow
    <2>1. ~surplus
      BY <1>2, <1>4 DEF Workflow, OpenGate, Resume, EndRun, histVars
    <2> QED
      BY <1>1, <1>4, <2>1, WorkflowKeepsLock
  <1>5. ASSUME NEW q \in Pages, Arrive(q)
        PROVE  LockOf(p)'
    <2>1. CASE ArriveInTime(q)
      BY <1>1, <1>2, <2>1, ArriveKeepsLock DEF ArriveInTime
    <2>2. CASE ArriveUnasked(q)
      BY <1>2, <2>2 DEF ArriveUnasked
    <2>3. CASE ArriveRefused(q)
      <3>1. ~surplus
        BY <1>2, <2>3 DEF ArriveRefused, histVars
      <3>2. Head(outbox[q]).decision.gate \in Gates
        BY <2>3, TakenClick DEF ArriveRefused, Clicks, Submissions
      <3> QED
        BY <2>3, <3>1, <3>2 DEF ArriveRefused, PanelInv, Alternate
    <2> QED
      BY <1>5, <2>1, <2>2, <2>3 DEF Arrive
  <1>6. ASSUME NEW q \in Pages,
               \/ \E verdict \in Verdicts : Decide(q, verdict)
               \/ CancelRefine(q) \/ Receive(q) \/ Disconnect(q) \/ Reload(q)
        PROVE  LockOf(p)'
    <2>1. UNCHANGED <<gateVars, runVars, frames, surplus>>
      BY <1>6 DEF Decide, CancelRefine, Receive, Disconnect, Reload, histVars
    <2>2. ~surplus
      BY <1>2, <2>1
    <2>3. CASE q = p
      BY <1>6, <2>3, <2>2, DecideKeepsLock, PageStepKeepsLock
    <2>4. CASE q # p
      <3>1. /\ seen'[p] = seen[p] /\ connected'[p] = connected[p] /\ outbox'[p] = outbox[p]
            /\ submittedAtPlanId'[p] = submittedAtPlanId[p]
        BY <1>6, <2>4 DEF Decide, CancelRefine, Receive, Disconnect, Reload, clickVars,
                          PanelInv, PageTypeOK
      <3>2. LockOf(p)
        BY <2>2 DEF LockInv
      <3>3. submittedAtPlanId[p] # None /\ connected[p] =>
              \/ \E k \in DOMAIN outbox'[p] : IsEdit(outbox'[p][k])
              \/ GivenUp(submittedAtPlanId[p])'
        BY <2>1, <3>1, <3>2, SameGivenUp DEF LockOf
      <3> QED
        BY <1>1, <2>1, <3>1, <3>2, <3>3, LockUntouched
    <2> QED
      BY <2>3, <2>4
  <1> QED
    BY <1>3, <1>4, <1>5, <1>6 DEF Next

\* "Re-planning" is no lie: an up-to-date page that is locked by an Edit, with
\* none of its clicks on the way, stands before a workflow that plans anew or
\* ends, and never before one that waits for the reviewer.
THEOREM LockStandsForAPlan == Spec => []LockIsTruthful
  <1>1. Init => LockInv
    <2> SUFFICES ASSUME Init
                 PROVE  LockInv
      OBVIOUS
    <2>1. Requests(frames) = {}
      BY DEF Init, Requests, OfType
    <2> QED
      BY <2>1 DEF Init, LockInv, PlansInOrder, LockOf
  <1>2. PanelInv /\ LockInv => LockIsTruthful
    <2> SUFFICES ASSUME PanelInv, LockInv, ~surplus, NEW p \in Pages,
                        UpToDate(p), outbox[p] = <<>>, submittedAtPlanId[p] # None
                 PROVE  /\ ~Waiting
                        /\ question # None \/ todo \in {"review_gate", "end"}
      BY DEF LockIsTruthful
    <2> DEFINE lock == submittedAtPlanId[p]
    <2>1. /\ lock = PlanShown(View(p)) /\ lock \in PlanIds
          /\ (\E k \in DOMAIN outbox[p] : IsEdit(outbox[p][k])) \/ GivenUp(lock)
      BY DEF LockInv, LockOf, UpToDate, PanelInv, PageTypeOK
    <2>2. GivenUp(lock) /\ lock = PlanShown(frames)
      BY <2>1, UpToDateView
    <2>3. ~Waiting
      <3> SUFFICES ASSUME Waiting
                   PROVE  FALSE
        OBVIOUS
      <3>1. lock = plan.planId
        BY <2>2, TruePanel DEF PlanShown, Requested
      <3> QED
        BY <2>1, <2>2, <3>1 DEF GivenUp, Waiting, PlanIds
    <2>4. question = None => todo \in {"review_gate", "end"}
      <3>1. PendingReview(frames) # None
        BY <2>2 DEF PlanShown
      <3> QED
        BY <3>1, TruePanel DEF PanelInv, RunTypeOK, Gates
    <2> QED
      BY <2>3, <2>4
  <1> QED
    BY <1>1, <1>2, PanelInvariant, LockInductive, PTL DEF Spec

-----------------------------------------------------------------------------
(* Questions are counted by plans, and so the types are bounded.           *)

\* Each plan is put to the reviewer at most once at each gate: every way back
\* to the first gate goes through a new plan.
EachPlanAskedOnce ==
  /\ rounds["review_gate"]
       <= plan.planId - (IF question = None /\ todo = "review_gate" THEN 1 ELSE 0)
  /\ rounds["human_verify_gate"]
       <= plan.planId
          - (IF todo = "review_gate" \/ (question = None /\ todo = "human_verify_gate")
             THEN 1 ELSE 0)

AskedInv ==
  /\ rounds \in [Gates -> Nat]
  /\ EachPlanAskedOnce
  /\ Cardinality(Requests(frames)) = rounds["review_gate"] + rounds["human_verify_gate"]

CountersOK ==
  /\ clicks \in 0..MaxClicks
  /\ cancelledOn \in [Pages -> 0..(2 * MaxPlans)]
  /\ surplus \in BOOLEAN
  /\ misread \in BOOLEAN

LEMMA AskedPreserved ==
  ASSUME PanelInv, AskedInv, [Next]_vars
  PROVE  AskedInv'
  <1> USE DEF AskedInv, EachPlanAskedOnce
  <1>1. plan.planId \in Nat /\ frames \in Seq(Frames) /\ Requested.type = "review.requested"
    BY DEF PanelInv, RunTypeOK, Plans, PlanIds, Requested
  <1>2. CASE UNCHANGED vars
    BY <1>2 DEF vars, gateVars, runVars, Requests
  <1>3. CASE \E p \in Pages : \/ \E verdict \in Verdicts : Decide(p, verdict)
                              \/ CancelRefine(p) \/ Receive(p) \/ Disconnect(p) \/ Reload(p)
    <2>1. UNCHANGED <<gateVars, runVars, frames>>
      BY <1>3 DEF Decide, CancelRefine, Receive, Disconnect, Reload
    <2> QED
      BY <2>1 DEF gateVars, runVars, Requests
  <1>4. ASSUME NEW p \in Pages, Arrive(p)
        PROVE  AskedInv'
    <2>1. UNCHANGED <<question, rounds, runVars>>
      BY <1>4 DEF Arrive, ArriveInTime, ArriveUnasked, ArriveRefused, Gate!Answer,
                  Gate!KeepEarly, gateVars
    <2>2. Requests(frames') = Requests(frames)
      <3>1. CASE ArriveRefused(p)
        BY <3>1 DEF ArriveRefused
      <3>2. CASE ArriveInTime(p) \/ ArriveUnasked(p)
        <4>1. PICK s \in Submissions : frames' = Append(frames, Decided(s))
          <5>1. outbox[p] # <<>>
            BY <3>2 DEF ArriveInTime, ArriveUnasked, Take
          <5>2. Head(outbox[p]) \in Clicks
            BY <5>1 DEF PanelInv, PageTypeOK
          <5>3. Head(outbox[p]).decision \in Submissions
            BY <5>2 DEF Clicks
          <5> QED
            BY <3>2, <5>3 DEF ArriveInTime, ArriveUnasked
        <4>2. Decided(s) \in Frames /\ Decided(s).type = "review.decided"
          BY DEF Decided, Frames, DecisionFrames, Submissions
        <4> QED
          BY <1>1, <4>1, <4>2, Appended DEF Requests
      <3> QED
        BY <1>4, <3>1, <3>2 DEF Arrive
    <2> QED
      BY <2>1, <2>2 DEF runVars
  <1>5. CASE OpenGate
    <2>1. /\ todo \in Gates /\ question = None /\ question' = todo
          /\ rounds' = [rounds EXCEPT ![todo] = rounds[todo] + 1]
          /\ frames' = Append(frames, Requested) /\ UNCHANGED runVars
      BY <1>5 DEF OpenGate, Gate!Ask
    <2>2. Requested \in Frames
      BY <2>1 DEF Requested, Frames, RequestFrames, PanelInv, RunTypeOK
    <2>3. Requests(frames') = Requests(frames) \union {Len(frames) + 1}
      BY <1>1, <2>1, <2>2, Appended DEF Requests
    <2>4. Cardinality(Requests(frames')) = Cardinality(Requests(frames)) + 1
      <3> DEFINE S == Requests(frames)
      <3>1. S \subseteq 1..Len(frames) /\ Len(frames) \in Nat
        BY <1>1, Positions DEF Requests
      <3> HIDE DEF S
      <3>2. Cardinality(S \union {Len(frames) + 1}) = Cardinality(S) + 1
        BY <3>1, LastAdded
      <3> QED
        BY <2>3, <3>2 DEF S
    <2>5. /\ todo = "review_gate" \/ todo = "human_verify_gate"
          /\ None \notin Gates
      BY <2>1 DEF Gates
    <2>6. todo' = todo /\ plan' = plan
      BY <2>1 DEF runVars
    <2>7. rounds' \in [Gates -> Nat]
      BY <2>1
    <2>8. CASE todo = "review_gate"
      <3>1. rounds'["review_gate"] = rounds["review_gate"] + 1
            /\ rounds'["human_verify_gate"] = rounds["human_verify_gate"]
        BY <2>1, <2>8 DEF Gates
      <3> QED
        BY <1>1, <2>1, <2>4, <2>5, <2>6, <2>7, <2>8, <3>1 DEF Gates
    <2>9. CASE todo = "human_verify_gate"
      <3>1. rounds'["human_verify_gate"] = rounds["human_verify_gate"] + 1
            /\ rounds'["review_gate"] = rounds["review_gate"]
        BY <2>1, <2>9 DEF Gates
      <3> QED
        BY <1>1, <2>1, <2>4, <2>5, <2>6, <2>7, <2>9, <3>1 DEF Gates
    <2> QED
      BY <2>5, <2>8, <2>9
  <1>6. CASE Resume
    <2>1. PICK next \in After(question, answer.decision) :
            /\ todo' = next
            /\ IF next = "review_gate"
               THEN /\ PlansLeft
                    /\ \E flaw \in Flaws : plan' = [planId |-> NewPlanId, flaw |-> flaw]
               ELSE UNCHANGED plan
      BY <1>6 DEF Resume
    <2>2. question' = None /\ rounds' = rounds /\ frames' = frames
      BY <1>6 DEF Resume, Gate!Continue
    <2>3. question \in Gates /\ question = todo
      BY <1>6 DEF Resume, PanelInv, RunInv, RunTypeOK
    <2>4. Requests(frames') = Requests(frames)
      BY <2>2
    <2>5. CASE next = "review_gate"
      <3>1. plan'.planId = plan.planId + 1
        BY <2>1, <2>5 DEF NewPlanId
      <3> QED
        BY <1>1, <2>1, <2>2, <2>4, <2>5, <3>1 DEF Gates
    <2>6. CASE next = "human_verify_gate"
      <3>1. todo = "review_gate"
        BY <2>1, <2>3, <2>6 DEF After, Gates
      <3> QED
        BY <1>1, <2>1, <2>2, <2>3, <2>4, <2>6, <3>1 DEF Gates
    <2>7. CASE next \notin Gates
      BY <1>1, <2>1, <2>2, <2>3, <2>4, <2>7 DEF Gates
    <2> QED
      BY <2>5, <2>6, <2>7 DEF Gates
  <1>7. CASE EndRun
    <2>1. /\ question = None /\ todo = "end" /\ todo' = "done"
          /\ UNCHANGED <<question, rounds, plan>> /\ frames' = Append(frames, Completed)
      BY <1>7 DEF EndRun, gateVars
    <2>2. Completed \in Frames /\ Completed.type = "run.completed"
      BY DEF Frames, Completed
    <2>3. Requests(frames') = Requests(frames)
      BY <1>1, <2>1, <2>2, Appended DEF Requests
    <2> QED
      BY <2>1, <2>3
  <1> QED
    BY <1>2, <1>3, <1>4, <1>5, <1>6, <1>7 DEF Next, Workflow

\* What the counts say of the bounds.
LEMMA RequestsBounded ==
  ASSUME PanelInv, AskedInv
  PROVE  /\ rounds \in [Gates -> 0..(2 * MaxPlans)]
         /\ \A p \in Pages : RequestsShown(p) \in 0..(2 * MaxPlans)
  <1>1. plan.planId \in 1..MaxPlans
    BY DEF PanelInv, RunTypeOK, Plans, PlanIds
  <1>2. /\ rounds["review_gate"] \in Nat /\ rounds["human_verify_gate"] \in Nat
        /\ rounds["review_gate"] <= MaxPlans /\ rounds["human_verify_gate"] <= MaxPlans
    BY <1>1 DEF AskedInv, EachPlanAskedOnce, Gates
  <1>3. rounds \in [Gates -> 0..(2 * MaxPlans)]
    BY <1>2 DEF AskedInv, Gates
  <1>4. Cardinality(Requests(frames)) <= 2 * MaxPlans
    BY <1>2 DEF AskedInv
  <1>5. ASSUME NEW p \in Pages
        PROVE  RequestsShown(p) \in 0..(2 * MaxPlans)
    <2>1. Requests(View(p)) \subseteq Requests(frames)
      <3>1. frames \in Seq(Frames) /\ Len(frames) \in Nat
        BY DEF PanelInv, RunTypeOK
      <3> QED
        BY <3>1, OwnView DEF Requests, OfType
    <2>2. IsFiniteSet(Requests(frames))
      <3>1. /\ Requests(frames) \subseteq 1..Len(frames)
            /\ Len(frames) \in Nat
        BY Positions DEF Requests, PanelInv, RunTypeOK
      <3> QED
        <4>1. IsFiniteSet(1..Len(frames))
          BY <3>1, FS_Interval
        <4> QED
          BY <3>1, <4>1, FS_Subset
    <2>3. /\ Cardinality(Requests(View(p))) <= Cardinality(Requests(frames))
          /\ Cardinality(Requests(frames)) \in Nat
      BY <2>1, <2>2, FS_Subset, FS_CardinalityType
    <2> QED
      BY <1>4, <2>3, OwnView DEF RequestsShown
  <1> QED
    BY <1>3, <1>5

LEMMA CountersPreserved ==
  ASSUME PanelInv, AskedInv, CountersOK, [Next]_vars
  PROVE  CountersOK'
  <1> USE DEF CountersOK
  <1>1. CASE UNCHANGED vars
    BY <1>1 DEF vars, clickVars, histVars
  <1>2. ASSUME NEW p \in Pages, NEW verdict \in Verdicts, Decide(p, verdict)
        PROVE  CountersOK'
    BY <1>2 DEF Decide, histVars
  <1>3. ASSUME NEW p \in Pages, CancelRefine(p)
        PROVE  CountersOK'
    BY <1>3, RequestsBounded DEF CancelRefine, clickVars
  <1>4. ASSUME NEW p \in Pages, Reload(p)
        PROVE  CountersOK'
    BY <1>4 DEF Reload, clickVars
  <1>5. ASSUME NEW p \in Pages, Receive(p) \/ Disconnect(p)
        PROVE  CountersOK'
    BY <1>5 DEF Receive, Disconnect, clickVars, histVars
  <1>6. ASSUME NEW p \in Pages, Arrive(p)
        PROVE  CountersOK'
    <2>1. /\ UNCHANGED <<clicks, cancelledOn>>
          /\ surplus' = surplus \/ surplus' = TRUE
      BY <1>6 DEF Arrive, ArriveInTime, ArriveUnasked, ArriveRefused, histVars
    <2>2. misread' \in BOOLEAN
      <3>1. CASE ArriveInTime(p)
        BY <3>1 DEF ArriveInTime
      <3>2. CASE ArriveUnasked(p) \/ ArriveRefused(p)
        BY <3>2 DEF ArriveUnasked, ArriveRefused, histVars
      <3> QED
        BY <1>6, <3>1, <3>2 DEF Arrive
    <2> QED
      BY <2>1, <2>2
  <1>7. CASE Workflow
    BY <1>7 DEF Workflow, OpenGate, Resume, EndRun, clickVars, histVars
  <1> QED
    BY <1>1, <1>2, <1>3, <1>4, <1>5, <1>6, <1>7 DEF Next

LEMMA AskedInitially == Init => AskedInv
  <1> SUFFICES ASSUME Init
               PROVE  AskedInv
    OBVIOUS
  <1>1. Requests(frames) = {}
    BY DEF Init, Requests, OfType
  <1>2. Cardinality(Requests(frames)) = 0
    BY <1>1, FS_EmptySet
  <1> QED
    BY <1>2 DEF Init, Gate!Init, AskedInv, EachPlanAskedOnce, Gates

\* A reviewer sees each plan at most once at each gate: no loop of the workflow
\* comes back to the same plan, whatever is clicked and whoever clicks it.
THEOREM NoPlanAskedTwice == Spec => []EachPlanAskedOnce
  <1>1. AskedInv => EachPlanAskedOnce
    BY DEF AskedInv
  <1> QED
    BY <1>1, AskedInitially, AskedPreserved, PanelInvariant, PTL DEF Spec

\* The page's and the run's state keep their types, within the bounds on plans
\* and clicks: the bound on questions follows from the bound on plans.
THEOREM PageTypeCorrect == Spec => []TypeOK
  <1>1. Init => CountersOK
    <2>1. 0 \in 0..MaxClicks /\ 0 \in 0..(2 * MaxPlans)
      OBVIOUS
    <2>2. Init => /\ clicks = 0 /\ cancelledOn = [p \in Pages |-> 0]
                  /\ surplus = FALSE /\ misread = FALSE
      BY DEF Init
    <2> QED
      BY <2>1, <2>2 DEF CountersOK
  <1>2. PanelInv /\ AskedInv /\ CountersOK => TypeOK
    <2> SUFFICES ASSUME PanelInv, AskedInv, CountersOK
                 PROVE  TypeOK
      OBVIOUS
    <2>1. seen \in [Pages -> 0..Len(frames)]
      BY DEF PanelInv, PageTypeOK, RunTypeOK
    <2>2. \A p \in Pages : \A k \in DOMAIN outbox[p] : outbox[p][k].decision \in Submissions
      <3> SUFFICES ASSUME NEW p \in Pages, NEW k \in DOMAIN outbox[p]
                   PROVE  outbox[p][k].decision \in Submissions
        OBVIOUS
      <3>1. outbox[p] \in Seq(Clicks)
        BY DEF PanelInv, PageTypeOK
      <3>2. outbox[p][k] \in Clicks
        BY <3>1
      <3> QED
        BY <3>2 DEF Clicks
    <2> QED
      BY <2>1, <2>2, RequestsBounded DEF PanelInv, RunTypeOK, PageTypeOK, CountersOK, TypeOK
  <1> QED
    BY <1>1, <1>2, AskedInitially, AskedPreserved, CountersPreserved, PanelInvariant, PTL DEF Spec
=============================================================================
