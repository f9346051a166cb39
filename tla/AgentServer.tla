---------------------------- MODULE AgentServer ----------------------------
(***************************************************************************)
(* The agent process around one run: boot and shutdown (index.ts), the     *)
(* wrapper's end of the run (http/triage.ts), the review API (ReviewApi)   *)
(* and the migrations (Migrations). The database survives the process; the *)
(* gate register, the handlers and the workflow do not, and nothing takes  *)
(* an interrupted run up again.                                            *)
(***************************************************************************)
EXTENDS ReviewApi, Migrations

VARIABLES
  process,    \* "down", "booting", "serving" or "draining"
  workflow,   \* how far the wrapper of the run has come
  runStatus,  \* status of the row of `runs`
  pages       \* open WebSockets

serverVars == <<process, workflow, runStatus, pages>>
allVars == <<vars, apiVars, migrationVars, serverVars>>

\* "closed": the row is updated and the dispose timer runs; "unclosed": the
\* update failed and the timer was never set.
Workflows == {"none", "live", "ended", "closed", "unclosed", "disposed", "lost"}
MaxPages == 1   \* bound

ServerTypeOK ==
  /\ TypeOK /\ ApiTypeOK /\ MigrationTypeOK
  /\ process \in {"down", "booting", "serving", "draining"}
  /\ workflow \in Workflows
  /\ runStatus \in {"absent", "running", "finished"}
  /\ pages \in 0..MaxPages

ServerInit ==
  /\ Init /\ ApiInit /\ MigrationInit
  /\ process = "down"
  /\ workflow = "none"
  /\ runStatus = "absent"
  /\ pages = 0

Running == process \in {"serving", "draining"}

-----------------------------------------------------------------------------
(* The process.                                                            *)

EmptyRegister ==
  /\ committedDecision' = [g \in Gates |-> None]
  /\ waiters' = [g \in Gates |-> 0]
  /\ idempotencyMap' = [g \in Gates |-> EmptyMap]
  /\ slotsResolved' = [g \in Gates |-> 0]

\* The process ends: what it held in memory is gone.
Stop ==
  /\ process' = "down"
  /\ EmptyRegister
  /\ awaiting' = None /\ handed' = None
  /\ handlers' = {}
  /\ inFlight' = [s \in Submissions |-> 0]
  /\ pages' = 0
  /\ workflow' = IF workflow = "none" THEN "none" ELSE "lost"
  /\ runner' = [runner EXCEPT !["agent"] = "idle"]
  /\ known' = [known EXCEPT !["agent"] = {}]
  /\ UNCHANGED <<opened, sends, histVars, reviewRow, answer, tracker, ran,
                 runStatus>>

\* main: the container (re)starts it.
Boot ==
  /\ process = "down"
  /\ process' = "booting"
  /\ StartMigrating("agent")
  /\ UNCHANGED <<vars, apiVars, workflow, runStatus, pages>>

\* The migrations are done: listen.
Serve ==
  /\ process = "booting" /\ runner["agent"] = "done"
  /\ process' = "serving"
  /\ UNCHANGED <<vars, apiVars, migrationVars, workflow, runStatus, pages>>

\* main rejects: exit(1).
BootFails ==
  /\ process = "booting" /\ runner["agent"] = "failed"
  /\ Stop
  /\ UNCHANGED faults

Crash == process # "down" /\ Fault /\ Stop

\* SIGTERM: server.close takes no new connections and waits for the open ones.
Shutdown ==
  /\ process = "serving"
  /\ process' = "draining"
  /\ UNCHANGED <<vars, apiVars, migrationVars, workflow, runStatus, pages>>

Quiet ==
  /\ handlers = {} /\ pages = 0
  /\ \A s \in Posted : inFlight[s] = 0

\* All connections have ended: close the pool and exit, whatever the workflow
\* is doing.
Drained ==
  /\ process = "draining" /\ Quiet
  /\ Stop
  /\ UNCHANGED faults

\* npm run migrate, whenever the operator likes.
RunCli ==
  /\ StartMigrating("cli")
  /\ UNCHANGED <<vars, apiVars, serverVars>>

Migrate(p) ==
  /\ p = "agent" => process = "booting"
  /\ MigrationStep(p)
  /\ UNCHANGED <<vars, apiVars, serverVars>>

-----------------------------------------------------------------------------
(* The run.                                                                *)

\* POST /triage: the row, then the workflow behind the answer.
StartRun ==
  /\ process = "serving" /\ workflow = "none"
  /\ workflow' = "live"
  /\ runStatus' = "running"
  /\ UNCHANGED <<vars, apiVars, migrationVars, process, pages>>

\* The workflow reaches a gate, or its await returns.
WorkflowStep ==
  /\ Running /\ workflow = "live"
  /\ (\E g \in Gates : OpenSlot(g)) \/ Resume
  /\ UNCHANGED <<apiVars, migrationVars, serverVars>>

\* run.completed or run.failed is published; the row is still to be updated.
EndWorkflow ==
  /\ Running /\ workflow = "live" /\ awaiting = None
  /\ workflow' = "ended"
  /\ UNCHANGED <<vars, apiVars, migrationVars, process, runStatus, pages>>

CloseRun ==
  /\ Running /\ workflow = "ended"
  /\ workflow' = "closed"
  /\ runStatus' = "finished"
  /\ UNCHANGED <<vars, apiVars, migrationVars, process, pages>>

\* The update rejects: the wrapper ends before it sets the timer.
CloseFails ==
  /\ Running /\ workflow = "ended"
  /\ Fault
  /\ workflow' = "unclosed"
  /\ UNCHANGED <<vars, apiVars, tracker, ran, runner, known, process, runStatus, pages>>

DisposeInFinally ==    \* mutant: the timer is set whether the update works or not
  /\ Running /\ workflow \in {"closed", "unclosed"}
  /\ workflow' = "disposed"
  /\ EmptyRegister
  /\ UNCHANGED <<flowVars, wireVars, histVars, apiVars, migrationVars, process,
                 runStatus, pages>>

\* The grace window is over.
Dispose ==
  /\ Running /\ workflow = "closed"
  /\ workflow' = "disposed"
  /\ EmptyRegister
  /\ UNCHANGED <<flowVars, wireVars, histVars, apiVars, migrationVars, process,
                 runStatus, pages>>

-----------------------------------------------------------------------------
(* Clients.                                                                *)

OpenPage ==
  /\ process = "serving" /\ workflow # "none" /\ pages < MaxPages
  /\ pages' = pages + 1
  /\ UNCHANGED <<vars, apiVars, migrationVars, process, workflow, runStatus>>

ClosePage ==
  /\ pages > 0
  /\ pages' = pages - 1
  /\ UNCHANGED <<vars, apiVars, migrationVars, process, workflow, runStatus>>

Connected(s) == s \in Posted \/ pages > 0

\* A submission is sent to a server that takes it, or still serves its socket;
\* clients repeat only what carries a key.
SendTo(s) ==
  /\ KeyOf[s] = None => sends[s] = 0
  /\ workflow # "none" /\ Connected(s)
  /\ process = "serving" \/ (process = "draining" /\ s \notin Posted)
  /\ Send(s)
  /\ UNCHANGED <<apiVars, migrationVars, serverVars>>

LoseOnWire(s) ==
  /\ Lose(s) /\ Fault
  /\ UNCHANGED <<apiVars, tracker, ran, runner, known, serverVars>>

ReceiveFrom(s) ==
  /\ Running
  /\ Receive(s)
  /\ UNCHANGED <<migrationVars, serverVars>>

SettleOne ==
  /\ Running
  /\ \E h \in handlers : Settle(h)
  /\ UNCHANGED <<vars, migrationVars, serverVars>>

FailOne ==
  /\ Running /\ Fault
  /\ \E h \in handlers : AnswerError(h)
  /\ UNCHANGED <<vars, tracker, ran, runner, known, serverVars>>

-----------------------------------------------------------------------------
ServerNext ==
  \/ Boot \/ Serve \/ BootFails \/ Crash \/ Shutdown \/ Drained
  \/ RunCli \/ \E p \in Runners : Migrate(p)
  \/ StartRun \/ WorkflowStep \/ EndWorkflow \/ CloseRun \/ CloseFails \/ Dispose
  \/ OpenPage \/ ClosePage
  \/ \E s \in Submissions : SendTo(s) \/ LoseOnWire(s) \/ ReceiveFrom(s)
  \/ SettleOne \/ FailOne

ServerSpec == ServerInit /\ [][ServerNext]_allVars

\* The container is restarted, started work goes on, requests on the wire
\* arrive. Nobody has to close a page, send a signal or decide.
FairServerSpec ==
  /\ ServerSpec
  /\ WF_allVars(Boot) /\ WF_allVars(Serve) /\ WF_allVars(BootFails)
  /\ WF_allVars(Drained) /\ WF_allVars(SettleOne)
  /\ \A p \in Runners : WF_allVars(Migrate(p))
  /\ \A s \in Submissions : WF_allVars(ReceiveFrom(s))

-----------------------------------------------------------------------------
(* Properties.                                                             *)

\* What an answer says is so: an accepted decision is the submission itself or
\* one made with the same key, a replay returns a decision of that key, a
\* refusal names a decision of the same gate; and each was put on the timeline,
\* in whatever order the database served the handlers.
AnswersAreTrue ==
  (answer # None /\ answer.code # "error") =>
    /\ answer.decision \in announced
    /\ answer.code \in {"accepted", "replay"} =>
         \/ answer.decision = answer.post
         \/ KeyOf[answer.post] # None /\ KeyOf[answer.decision] = KeyOf[answer.post]
    /\ answer.code = "conflict" => TargetOf[answer.decision] = TargetOf[answer.post]

\* A client that was told "accepted" finds a review on record, whatever crashed
\* since.
AcceptedIsOnRecord ==
  (answer # None /\ answer.code \in {"accepted", "replay"}) =>
    reviewRow # None /\ reviewRow.decision \in announced

\* Every migration takes effect once and in order, though two runners may have
\* read the same list, and the server listens only behind all of them.
MigratedOnce ==
  /\ \A f \in Files : ran[f] = IF f \in tracker THEN 1 ELSE 0
  /\ \A f \in tracker : 1..f \subseteq tracker
  /\ Running => tracker = Files

\* The state of a run is dropped from a living process only when its end is in
\* the table, and an end in the table is never a workflow that can still act.
DroppedRunIsClosed ==
  /\ workflow = "disposed" => runStatus = "finished"
  /\ runStatus = "finished" => workflow \notin {"none", "live", "ended"} /\ awaiting = None

\* A boot that loses the race for a migration, or is interrupted, is repeated
\* until the agent serves.
BootServes == process = "booting" ~> Running

\* A shutdown ends once no page is connected.
DrainEnds == process = "draining" ~> (process # "draining" \/ pages > 0)

\* runs.ts: "this row is the queryable current state": with nothing under way
\* the row is the decision the workflow took last.
RowIsCurrent ==
  \A g \in Gates :
    (handlers = {} /\ taken[g] # <<>> /\ faults = 0) =>
      reviewRow # None /\ reviewRow.decision = taken[g][Len(taken[g])].decision

\* index.ts: "Graceful shutdown: drain HTTP, close DB pool".
ShutdownEnds == process = "draining" ~> process # "draining"

=============================================================================
