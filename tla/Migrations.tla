----------------------------- MODULE Migrations -----------------------------
(***************************************************************************)
(* The migration runner, db/migrate.ts: at boot of the agent, and from the *)
(* command line beside it. Every runner reads the list of applied files    *)
(* once and then applies the others in order, each in a transaction that   *)
(* also inserts its name, which is a primary key.                          *)
(***************************************************************************)
EXTENDS Integers

CONSTANTS
  LastFile,   \* migration files are 1..LastFile, in lexical order
  MaxFaults   \* bound: failures of the database, a process or a connection

ASSUME FileAssumption == LastFile \in Nat \ {0} /\ MaxFaults \in Nat

Files == 1..LastFile
Runners == {"agent", "cli"}

VARIABLES
  tracker,   \* names in _agent_migrations
  ran,       \* [Files -> Nat] history: committed executions of a file
  runner,    \* [Runners -> RunnerStates]
  known,     \* [Runners -> SUBSET Files] the names it has read or applied
  faults     \* failures so far

migrationVars == <<tracker, ran, runner, known, faults>>

RunnerStates == {"idle", "applying", "done", "failed"}

MigrationTypeOK ==
  /\ tracker \subseteq Files
  /\ ran \in [Files -> Nat]
  /\ runner \in [Runners -> RunnerStates]
  /\ known \in [Runners -> SUBSET Files]
  /\ faults \in 0..MaxFaults

MigrationInit ==
  /\ tracker = {}
  /\ ran = [f \in Files |-> 0]
  /\ runner = [p \in Runners |-> "idle"]
  /\ known = [p \in Runners |-> {}]
  /\ faults = 0

-----------------------------------------------------------------------------
StartBlind(p) ==    \* mutant: a restarted runner does not see what is applied
  /\ runner[p] = "idle"
  /\ runner' = [runner EXCEPT ![p] = "applying"]
  /\ known' = [known EXCEPT ![p] = {}]
  /\ UNCHANGED <<tracker, ran, faults>>

\* CREATE TABLE IF NOT EXISTS, and the names in it.
StartMigrating(p) ==
  /\ runner[p] = "idle"
  /\ runner' = [runner EXCEPT ![p] = "applying"]
  /\ known' = [known EXCEPT ![p] = tracker]
  /\ UNCHANGED <<tracker, ran, faults>>

\* The first file in order that the runner does not know as applied.
IsNext(p, f) ==
  /\ runner[p] = "applying"
  /\ f \notin known[p]
  /\ 1..(f - 1) \subseteq known[p]

NameIsFree(f) == TRUE       \* mutant: the name is not a key
InsertsName(f) == f \notin tracker

\* The transaction commits both its statements and the name, or nothing.
ApplyOne(p) == \E f \in Files :
  /\ IsNext(p, f) /\ InsertsName(f)
  /\ tracker' = tracker \cup {f}
  /\ ran' = [ran EXCEPT ![f] = @ + 1]
  /\ known' = [known EXCEPT ![p] = @ \cup {f}]
  /\ UNCHANGED <<runner, faults>>

Fault == faults < MaxFaults /\ faults' = faults + 1

\* The process of the command line exits, and may be run again.
Finish(p, how) ==
  /\ runner' = [runner EXCEPT ![p] = IF p = "cli" THEN "idle" ELSE how]
  /\ known' = [known EXCEPT ![p] = {}]
  /\ UNCHANGED <<tracker, ran>>

\* The other runner was faster, or the database fails: roll back, give up.
ApplyFails(p) == \E f \in Files :
  /\ IsNext(p, f)
  /\ \/ ~InsertsName(f) /\ UNCHANGED faults
     \/ Fault
  /\ Finish(p, "failed")

Migrated(p) ==
  /\ runner[p] = "applying" /\ known[p] = Files
  /\ Finish(p, "done")
  /\ UNCHANGED faults

MigrationStep(p) == ApplyOne(p) \/ ApplyFails(p) \/ Migrated(p)

=============================================================================
