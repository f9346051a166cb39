------------------------------ MODULE ReviewPage ------------------------------
(***************************************************************************)
(* The reviewer's page (services/test-webapp/app/agent/review/[runId]/     *)
(* page.tsx) in front of the gates: what each open page shows is computed  *)
(* from the frames it has received, what it lets the reviewer click        *)
(* depends on what it shows, and a click reaches the gate later, when the  *)
(* workflow may have moved on.                                             *)
(*                                                                         *)
(* The gates are taken at the level of ReviewRounds, which GateSlots       *)
(* implements: every click carries a fresh idempotency key, so the key     *)
(* cache of the bus never answers one.  The workflow is reduced to the     *)
(* order in which TriageRun opens its gates.                               *)
(***************************************************************************)
EXTENDS Naturals, Sequences, FiniteSets, FiniteSetsExt

CONSTANTS
  Pages,      \* open browser tabs
  None,
  MaxPlans,   \* bound: plans of the run
  MaxClicks   \* bound: decisions clicked on all pages

ASSUME PageAssumption == MaxPlans \in Nat \ {0} /\ MaxClicks \in Nat

Gates == {"review_gate", "human_verify_gate"}
Verdicts == {"approve", "reject", "edit", "terminate"}
Submissions == [gate : Gates, decision : Verdicts]
TargetOf == [s \in Submissions |-> s.gate]

\* why a plan may not be approved: Block 1 used up its passes, or the dry run
\* found no boundary
Flaws == {"none", "block1", "dry_run"}
REFINE_TRIGGERS == {"reject", "edit"}

PlanIds == 1..MaxPlans
Plans == [planId : PlanIds, flaw : Flaws]

RequestFrames == [type : {"review.requested"}, gate : Gates, plan : Plans]
DecisionFrames == [type : {"review.decided"}, gate : Gates, decision : Verdicts]
Completed == [type |-> "run.completed"]
Frames == RequestFrames \union DecisionFrames \union {Completed}

\* null is no value of the program's
ASSUME NoneAssumption ==
  None \notin Gates \union Submissions \union PlanIds \union RequestFrames

VARIABLES
  question, answer, early, rounds,  \* the gates: see ReviewRounds
  plan,       \* the plan under review, [planId, flaw]
  todo,       \* the gate the workflow opens next, "end", or "done"
  frames,     \* the timeline: review.requested, review.decided, run.completed
  seen,       \* page -> how many of them are in its frames array
  connected,  \* page -> connStatus = "open"
  submittedAtPlanId,  \* page -> the plan an Edit was submitted on, or None
  outbox,     \* page -> clicks sent and not yet processed
  clicks,     \* decisions clicked
  cancelledOn,  \* history: page -> requests shown when a refine was cancelled
  surplus,    \* history: a decision was announced that answered no request
  misread     \* history: a click made after Cancel-refine on the bar of an
              \* older request answered a newer one

gateVars == <<question, answer, early, rounds>>
runVars == <<plan, todo>>
pageVars == <<seen, connected, submittedAtPlanId>>
clickVars == <<outbox, clicks>>
histVars == <<cancelledOn, surplus, misread>>
vars == <<gateVars, runVars, frames, pageVars, clickVars, histVars>>

Gate == INSTANCE ReviewRounds WITH MaxSlots <- 2 * MaxPlans

-----------------------------------------------------------------------------
(* What a page derives from its frames array.                              *)

Requested == [type |-> "review.requested", gate |-> todo, plan |-> plan]
Decided(s) == [type |-> "review.decided", gate |-> s.gate, decision |-> s.decision]

\* frames.filter: the positions of what it keeps
OfType(fs, type) == {k \in DOMAIN fs : fs[k].type = type}
Requests(fs) == OfType(fs, "review.requested")
Decisions(fs) == OfType(fs, "review.decided")
IsRunTerminal(fs) == OfType(fs, "run.completed") # {}

View(p) == SubSeq(frames, 1, seen[p])

AnyTriggeredRefine(fs) ==
  \E k \in Decisions(fs) : fs[k].decision \in REFINE_TRIGGERS
LastTriggersRefine(fs) ==
  Decisions(fs) # {} /\ fs[Max(Decisions(fs))].decision \in REFINE_TRIGGERS

\* every request has its decision, and the last one is final
GateClosed(fs) ==
  ~LastTriggersRefine(fs) /\ Cardinality(Decisions(fs)) >= Cardinality(Requests(fs))

PendingReview(fs) ==
  IF Requests(fs) = {} \/ IsRunTerminal(fs) \/ GateClosed(fs)
  THEN None ELSE fs[Max(Requests(fs))]

PlanShown(fs) ==
  IF PendingReview(fs) = None THEN None ELSE PendingReview(fs).plan.planId

\* the effect that ends submitting mode once another plan (or none) is shown
Unlock(lock, fs) == IF PlanShown(fs) # lock THEN None ELSE lock

IsPostExec(review) == review.gate = "human_verify_gate"
IsExhausted(review) ==
  \/ review.plan.flaw = "block1"
  \/ review.plan.flaw = "dry_run" /\ ~IsPostExec(review)

\* the badge of a gate in the left column
StepStatus(fs, g) ==
  IF /\ \E k \in Requests(fs) : fs[k].gate = g
     /\ \A k \in Decisions(fs) : fs[k].gate # g
  THEN "awaiting" ELSE "running"

-----------------------------------------------------------------------------
(* The reviewer at page p.                                                 *)

Review(p) == PendingReview(View(p))
RequestsShown(p) == Cardinality(Requests(View(p)))

CanDecide(p) ==
  connected[p] /\ Review(p) # None /\ submittedAtPlanId[p] = None
CanTerminate(p) == connected[p] /\ Review(p) # None
AllowEdit(p) ==
  CanDecide(p) /\ ~IsPostExec(Review(p)) /\ Review(p).plan.flaw # "block1"

Enabled(p, verdict) ==
  CASE verdict = "approve" -> CanDecide(p) /\ ~IsExhausted(Review(p))
    [] verdict = "reject" -> CanDecide(p)
    [] verdict = "edit" -> AllowEdit(p)
    [] verdict = "terminate" -> CanTerminate(p)

Decide(p, verdict) ==
  /\ clicks < MaxClicks
  /\ Enabled(p, verdict)
  /\ clicks' = clicks + 1
  /\ outbox' = [outbox EXCEPT ![p] = Append(@,
                  [decision |-> [gate |-> Review(p).gate, decision |-> verdict],
                   shown |-> RequestsShown(p),
                   cancelled |-> cancelledOn[p] = RequestsShown(p)])]
  /\ submittedAtPlanId' = IF verdict = "edit"
                          THEN [submittedAtPlanId EXCEPT ![p] = PlanShown(View(p))]
                          ELSE submittedAtPlanId
  /\ UNCHANGED <<gateVars, runVars, frames, seen, connected, histVars>>

CancelRefine(p) ==
  /\ submittedAtPlanId[p] # None
  /\ submittedAtPlanId' = [submittedAtPlanId EXCEPT ![p] = None]
  /\ cancelledOn' = [cancelledOn EXCEPT ![p] = RequestsShown(p)]
  /\ UNCHANGED <<gateVars, runVars, frames, seen, connected, clickVars,
                 surplus, misread>>

\* Frames arrive in order; React may render once for several of them.
Receive(p) ==
  /\ connected[p]
  /\ \E n \in (seen[p] + 1)..Len(frames) :
       /\ seen' = [seen EXCEPT ![p] = n]
       /\ submittedAtPlanId' =
            [submittedAtPlanId EXCEPT ![p] = Unlock(@, SubSeq(frames, 1, n))]
  /\ UNCHANGED <<gateVars, runVars, frames, connected, clickVars, histVars>>

\* The socket closes; some of what was sent may still get through.  The page
\* stays up and does not reconnect.
Disconnect(p) ==
  /\ connected[p]
  /\ connected' = [connected EXCEPT ![p] = FALSE]
  /\ \E n \in 0..Len(outbox[p]) :
       outbox' = [outbox EXCEPT ![p] = SubSeq(@, 1, n)]
  /\ UNCHANGED <<gateVars, runVars, frames, seen, submittedAtPlanId, clicks, histVars>>

\* A fresh page says hello without resumeSeq and gets the whole backlog.
Reload(p) ==
  /\ ~connected[p]
  /\ connected' = [connected EXCEPT ![p] = TRUE]
  /\ seen' = [seen EXCEPT ![p] = 0]
  /\ submittedAtPlanId' = [submittedAtPlanId EXCEPT ![p] = None]
  /\ cancelledOn' = [cancelledOn EXCEPT ![p] = 0]
  /\ UNCHANGED <<gateVars, runVars, frames, clickVars, surplus, misread>>

-----------------------------------------------------------------------------
(* The agent: a click arrives at its gate; the workflow goes on.           *)

Take(p) == outbox[p] # <<>> /\ outbox' = [outbox EXCEPT ![p] = Tail(@)]

\* the click is the answer the workflow waits for
ArriveInTime(p) ==
  LET click == Head(outbox[p]) IN
  /\ Take(p)
  /\ Gate!Answer(click.decision)
  /\ frames' = Append(frames, Decided(click.decision))
  /\ misread' = (misread \/ (click.cancelled /\ click.shown # Cardinality(Requests(frames))))
  /\ UNCHANGED <<runVars, pageVars, clicks, cancelledOn, surplus>>

\* nobody waits for it: it is kept, and announced all the same
ArriveUnasked(p) ==
  LET click == Head(outbox[p]) IN
  /\ Take(p)
  /\ Gate!KeepEarly(click.decision)
  /\ frames' = Append(frames, Decided(click.decision))
  /\ surplus' = TRUE
  /\ UNCHANGED <<runVars, pageVars, clicks, cancelledOn, misread>>

\* another decision is kept there already
ArriveRefused(p) ==
  LET s == Head(outbox[p]).decision IN
  /\ Take(p)
  /\ ~(question = s.gate /\ answer = None)
  /\ early[s.gate] # None
  /\ UNCHANGED <<gateVars, runVars, frames, pageVars, clicks, histVars>>

Arrive(p) == ArriveInTime(p) \/ ArriveUnasked(p) \/ ArriveRefused(p)

OpenGate ==
  /\ todo \in Gates
  /\ Gate!Ask(todo)
  /\ frames' = Append(frames, Requested)
  /\ UNCHANGED <<runVars, pageVars, clickVars, histVars>>

\* Where the run may go from an answered gate.  "end" stands for the normal
\* end, an exhausted budget and a workflow that throws; a plan terminated
\* during a backtrack leads back to the gate that asked for it.
After(g, verdict) ==
  {"end"} \union
  (CASE g = "review_gate" /\ verdict = "approve" -> {"human_verify_gate"}
     [] g = "review_gate" /\ verdict = "terminate" ->
          (IF rounds["human_verify_gate"] > 0 THEN {"human_verify_gate"} ELSE {})
     [] g = "review_gate" -> {"review_gate"}
     [] OTHER -> IF verdict = "reject" THEN {"review_gate"} ELSE {})

PlansLeft == plan.planId < MaxPlans
SamePlanId == plan.planId
NewPlanId == plan.planId + 1

\* Block 1 runs again for every plan that is reviewed again.
Resume ==
  /\ answer # None
  /\ \E next \in After(question, answer.decision) :
       /\ todo' = next
       /\ IF next = "review_gate"
          THEN /\ PlansLeft
               /\ \E flaw \in Flaws : plan' = [planId |-> NewPlanId, flaw |-> flaw]
          ELSE UNCHANGED plan
  /\ Gate!Continue
  /\ UNCHANGED <<frames, pageVars, clickVars, histVars>>

EndRun ==
  /\ todo = "end"
  /\ question = None
  /\ todo' = "done"
  /\ frames' = Append(frames, Completed)
  /\ UNCHANGED <<gateVars, plan, pageVars, clickVars, histVars>>

Workflow == OpenGate \/ Resume \/ EndRun

-----------------------------------------------------------------------------
Init ==
  /\ Gate!Init
  /\ plan \in [planId : {1}, flaw : Flaws]
  /\ todo = "review_gate"
  /\ frames = <<>>
  /\ seen = [p \in Pages |-> 0]
  /\ connected = [p \in Pages |-> TRUE]
  /\ submittedAtPlanId = [p \in Pages |-> None]
  /\ outbox = [p \in Pages |-> <<>>]
  /\ clicks = 0
  /\ cancelledOn = [p \in Pages |-> 0]
  /\ surplus = FALSE
  /\ misread = FALSE

Next ==
  \/ \E p \in Pages : \/ \E verdict \in Verdicts : Decide(p, verdict)
                      \/ CancelRefine(p) \/ Receive(p) \/ Arrive(p)
                      \/ Disconnect(p) \/ Reload(p)
  \/ Workflow

Spec == Init /\ [][Next]_vars

\* Over an open connection frames and clicks reach the other side, and the
\* workflow goes on from an answered gate.  Nobody has to click or to reload.
FairSpec ==
  /\ Spec
  /\ \A p \in Pages : WF_vars(Receive(p)) /\ WF_vars(Arrive(p))
  /\ WF_vars(Workflow)

-----------------------------------------------------------------------------
(* Properties.                                                             *)

TypeOK ==
  /\ question \in Gates \union {None}
  /\ answer \in Submissions \union {None}
  /\ early \in [Gates -> Submissions \union {None}]
  /\ rounds \in [Gates -> 0..(2 * MaxPlans)]
  /\ plan \in Plans
  /\ todo \in Gates \union {"end", "done"}
  /\ frames \in Seq(Frames)
  /\ seen \in [Pages -> 0..Len(frames)]
  /\ connected \in [Pages -> BOOLEAN]
  /\ submittedAtPlanId \in [Pages -> PlanIds \union {None}]
  /\ \A p \in Pages : \A k \in DOMAIN outbox[p] : outbox[p][k].decision \in Submissions
  /\ clicks \in 0..MaxClicks
  /\ cancelledOn \in [Pages -> 0..(2 * MaxPlans)]
  /\ surplus \in BOOLEAN
  /\ misread \in BOOLEAN

UpToDate(p) == connected[p] /\ seen[p] = Len(frames)
Waiting == question # None /\ answer = None

ShowsTheQuestion(p) ==
  /\ Review(p) # None
  /\ Review(p).gate = question
  /\ Review(p).plan = plan

\* As long as every announced decision answered a request, an up-to-date page
\* shows the very request the workflow waits on, and shows none while an
\* approved plan executes and once the run is over (the pendingReview memo).
PanelIsTruthful ==
  ~surplus =>
    \A p \in Pages : UpToDate(p) =>
      /\ Waiting => ShowsTheQuestion(p)
      /\ (~Waiting /\ todo \in {"human_verify_gate", "done"}) =>
           (question = None => Review(p) = None)

\* "Re-planning" is true: an up-to-date page in submitting mode whose clicks
\* have arrived stands before a workflow that plans anew or is at its end.
LockIsTruthful ==
  ~surplus =>
    \A p \in Pages :
      (UpToDate(p) /\ outbox[p] = <<>> /\ submittedAtPlanId[p] # None) =>
        /\ ~Waiting
        /\ question # None \/ todo \in {"review_gate", "end"}

\* An Edit does not lock its page for good: a new plan or the end of the run
\* unlocks it, unless the connection broke or a surplus decision got in between.
EditUnlocks ==
  \A p \in Pages :
    (submittedAtPlanId[p] # None)
      ~> (submittedAtPlanId[p] = None \/ ~connected[p] \/ surplus)

\* What the memo's comment takes for granted: a page that has all frames shows
\* the panel of the gate the run is suspended on, so somebody can answer it.
PanelFollowsTheGate ==
  \A p \in Pages : (UpToDate(p) /\ Waiting) => ShowsTheQuestion(p)

\* What the Cancel-refine comment says of the time before the fresh request is
\* shown: a click on the bar of an older request is discarded, never acted on.
StaleClickIsDiscarded == ~misread

\* What the status comment says: a gate with an unanswered request is shown
\* as awaiting.
AwaitingIsShown ==
  \A p \in Pages :
    (UpToDate(p) /\ Waiting) => StepStatus(View(p), question) = "awaiting"
=============================================================================
