----------------------------- MODULE RagIngest -----------------------------
(***************************************************************************)
(* Ingestion in the rag service: an uploaded document on its way into      *)
(* Qdrant. controllers/upload_controller.py writes it into a directory     *)
(* that FileQueue (src/util/queue.py) watches; a scan copies it to temp/,  *)
(* queues the copy and removes the original; a pool of cleaners            *)
(* (main.py, document_cleaning_pipline.py) turns it into a directory of    *)
(* clean_docs/ with a finished.txt; CleanDocQueue queues every event of    *)
(* that file; embedding consumers take it from there.                      *)
(*                                                                         *)
(* The queues and the watchers' events live in memory, the files on disk:  *)
(* a restart keeps the files and scans for nothing. The four watched       *)
(* directories are one here. Embedding a document is one step; the pool of *)
(* its consumers, which grows and shrinks as the cleaners' does, is not    *)
(* counted.                                                                *)
(***************************************************************************)
EXTENDS Integers, Sequences, FiniteSets

CONSTANTS
  Files,            \* names under which documents are uploaded
  Watched,          \* names whose extension has a watched directory
  Tagged,           \* names that carry a UUID already
  MaxUploads,       \* uploads (bound)
  MaxCopies,        \* copies made by scans (bound)
  MaxFaults,        \* failures and restarts (bound)
  QueueSize,        \* max_queue_size of both queues
  InitialCleaners, MaxCleaners, QueueThreshold

ASSUME IngestAssumption ==
  /\ Files # {} /\ Tagged \subseteq Files /\ Watched \subseteq Files
  /\ MaxUploads \in Nat /\ MaxCopies \in Nat /\ MaxFaults \in Nat
  /\ QueueSize \in Nat \ {0} /\ QueueThreshold \in Nat
  /\ InitialCleaners \in Nat \ {0} /\ MaxCleaners \in Nat
  /\ InitialCleaners <= MaxCleaners

VARIABLES
  upload,      \* [Uploads -> [file, state]] the upload requests
  source,      \* [Files -> 0..MaxUploads] the upload a watched file holds; 0: no file
  changed,     \* the watcher has a change to report
  scan,        \* the scan that is under way
  copies,      \* [1..MaxCopies -> Copies] copies made by scans, and what became of them
  fileQueue,   \* FileQueue.queue
  cleaning,    \* copies that a cleaner is processing
  cleaners,    \* Len(consumer_threads)
  events,      \* [1..MaxCopies -> Nat] events of a finished.txt not yet seen
  cleanQueue,  \* CleanDocQueue.queue
  configured,  \* shared_config holds the configuration, not {}
  embedded,    \* [Uploads -> Nat] history: times an upload was embedded whole
  spoiled,     \* history: uploads copied before they were whole, or written over
  stalled,     \* history: uploads that a failure, a full queue or a skip stopped
  faults

vars == <<upload, source, changed, scan, copies, fileQueue, cleaning, cleaners, events,
          cleanQueue, configured, embedded, spoiled, stalled, faults>>

Uploads == 1..MaxUploads
CopyIds == 1..MaxCopies
UploadRequests == [file : Files, state : {"none", "writing", "acked", "failed"}]
Copies == [upload : 0..MaxUploads, whole : BOOLEAN,
           at : {"none", "temp", "moved", "opened", "filled"}]
Scans == [at : {"watch", "pick", "put", "remove"}, todo : SUBSET Files, file : Files,
          copy : 0..MaxCopies]

TypeOK ==
  /\ upload \in [Uploads -> UploadRequests]
  /\ source \in [Files -> 0..MaxUploads]
  /\ changed \in BOOLEAN
  /\ scan \in Scans
  /\ copies \in [CopyIds -> Copies]
  /\ fileQueue \in Seq(CopyIds) /\ Len(fileQueue) <= QueueSize
  /\ cleaning \subseteq CopyIds /\ Cardinality(cleaning) <= cleaners
  /\ cleaners \in InitialCleaners..MaxCleaners
  /\ events \in [CopyIds -> 0..2]
  /\ cleanQueue \in Seq(CopyIds) /\ Len(cleanQueue) <= QueueSize
  /\ configured \in BOOLEAN
  /\ embedded \in [Uploads -> Nat]
  /\ spoiled \subseteq Uploads /\ stalled \subseteq Uploads
  /\ faults \in 0..MaxFaults

NoScan == [at |-> "watch", todo |-> {}, file |-> CHOOSE f \in Files : TRUE, copy |-> 0]

Init ==
  /\ upload = [u \in Uploads |-> [file |-> CHOOSE f \in Files : TRUE, state |-> "none"]]
  /\ source = [f \in Files |-> 0]
  /\ changed = FALSE
  /\ scan = NoScan
  /\ copies = [k \in CopyIds |-> [upload |-> 0, whole |-> FALSE, at |-> "none"]]
  /\ fileQueue = <<>> /\ cleanQueue = <<>>
  /\ cleaning = {}
  /\ cleaners = InitialCleaners
  /\ events = [k \in CopyIds |-> 0]
  /\ configured = FALSE
  /\ embedded = [u \in Uploads |-> 0]
  /\ spoiled = {} /\ stalled = {}
  /\ faults = 0

Fault == faults < MaxFaults /\ faults' = faults + 1

\* An upload that is gone, as such; 0 is no upload.
Lost(u) == {u} \ {0}

-----------------------------------------------------------------------------
(* POST /docs/upload/documents *)

\* The file is opened in place, over what may be there under its name.
StartUpload(u, f) ==
  /\ upload[u].state = "none"
  /\ \A v \in 1..(u - 1) : upload[v].state # "none"
  /\ \A v \in Uploads : upload[v].state = "writing" => upload[v].file # f
  /\ upload' = [upload EXCEPT ![u] = [file |-> f, state |-> "writing"]]
  /\ source' = [source EXCEPT ![f] = u]
  /\ spoiled' = spoiled \cup Lost(source[f])
  /\ changed' = (changed \/ f \in Watched)
  /\ UNCHANGED <<scan, copies, fileQueue, cleaning, cleaners, events, cleanQueue,
                 configured, embedded, stalled, faults>>

\* The last chunk is written, to a file that a scan may have removed, and the
\* client is told that its file was uploaded.
FinishUpload(u) ==
  /\ upload[u].state = "writing"
  /\ upload' = [upload EXCEPT ![u].state = "acked"]
  /\ changed' = (changed \/ (source[upload[u].file] = u /\ upload[u].file \in Watched))
  /\ UNCHANGED <<source, scan, copies, fileQueue, cleaning, cleaners, events, cleanQueue,
                 configured, embedded, spoiled, stalled, faults>>

UploadFails(u) ==
  /\ upload[u].state = "writing"
  /\ Fault
  /\ upload' = [upload EXCEPT ![u].state = "failed"]
  /\ UNCHANGED <<source, changed, scan, copies, fileQueue, cleaning, cleaners, events,
                 cleanQueue, configured, embedded, spoiled, stalled>>

-----------------------------------------------------------------------------
(* FileQueue: run, scan_directories *)

\* The changes reported so far belong to this scan; later ones to the next.
StartScan ==
  /\ scan.at = "watch" /\ changed
  /\ changed' = FALSE
  /\ scan' = [scan EXCEPT !.at = "pick", !.todo = {f \in Watched : source[f] # 0}]
  /\ UNCHANGED <<upload, source, copies, fileQueue, cleaning, cleaners, events, cleanQueue,
                 configured, embedded, spoiled, stalled, faults>>

NeverThere(f) == FALSE    \* mutant: an existing copy is written over

\* The name in temp/ is taken. A name without UUID gets a new one for each copy.
TempExists(f) ==
  /\ f \in Tagged
  /\ \E k \in CopyIds : copies[k].at = "temp" /\ upload[copies[k].upload].file = f

\* Removed since the listing, or there already under this name in temp/.
SkipFile(f) ==
  /\ scan.at = "pick" /\ f \in scan.todo
  /\ source[f] = 0 \/ TempExists(f)
  /\ scan' = [scan EXCEPT !.todo = @ \ {f}]
  /\ stalled' = stalled \cup Lost(source[f])
  /\ UNCHANGED <<upload, source, changed, copies, fileQueue, cleaning, cleaners, events,
                 cleanQueue, configured, embedded, spoiled, faults>>

NextCopy == Cardinality({k \in CopyIds : copies[k].at # "none"}) + 1

\* A copy of what is in the file at that moment.
CopyOf(f, whole) ==
  /\ scan.at = "pick" /\ f \in scan.todo
  /\ source[f] # 0 /\ ~TempExists(f)
  /\ NextCopy \in CopyIds
  /\ copies' = [copies EXCEPT ![NextCopy] = [upload |-> source[f], whole |-> whole, at |-> "temp"]]

CopyFile(f) ==
  LET whole == source[f] # 0 /\ upload[source[f]].state = "acked"
  IN  /\ CopyOf(f, whole)
      /\ scan' = [scan EXCEPT !.at = "put", !.todo = @ \ {f}, !.file = f, !.copy = NextCopy]
      /\ spoiled' = IF whole THEN spoiled ELSE spoiled \cup {source[f]}
      /\ UNCHANGED <<upload, source, changed, fileQueue, cleaning, cleaners, events,
                     cleanQueue, configured, embedded, stalled, faults>>

CopyFailsForGood(f) ==    \* mutant: the original is removed after a failed copy too
  /\ CopyOf(f, FALSE)
  /\ Fault
  /\ stalled' = stalled \cup {source[f]}
  /\ scan' = [scan EXCEPT !.at = "remove", !.todo = @ \ {f}, !.file = f, !.copy = NextCopy]
  /\ UNCHANGED <<upload, source, changed, fileQueue, cleaning, cleaners, events, cleanQueue,
                 configured, embedded, spoiled>>

\* The copy breaks off: what there is of it stays in temp/ and is not queued.
CopyFails(f) ==
  /\ CopyOf(f, FALSE)
  /\ Fault
  /\ stalled' = stalled \cup {source[f]}
  /\ scan' = [scan EXCEPT !.todo = @ \ {f}]
  /\ UNCHANGED <<upload, source, changed, fileQueue, cleaning, cleaners, events, cleanQueue,
                 configured, embedded, spoiled>>

\* queue.put blocks while the queue is full, and the scan with it.
PutFile ==
  /\ scan.at = "put" /\ Len(fileQueue) < QueueSize
  /\ fileQueue' = Append(fileQueue, scan.copy)
  /\ scan' = [scan EXCEPT !.at = "remove"]
  /\ UNCHANGED <<upload, source, changed, copies, cleaning, cleaners, events, cleanQueue,
                 configured, embedded, spoiled, stalled, faults>>

\* os.remove takes what is there by now. It is itself a change.
RemoveFile ==
  LET f == scan.file
  IN  /\ scan.at = "remove"
      /\ source' = [source EXCEPT ![f] = 0]
      /\ changed' = (changed \/ source[f] # 0)
      /\ spoiled' = IF source[f] = copies[scan.copy].upload THEN spoiled
                    ELSE spoiled \cup Lost(source[f])
      /\ scan' = [scan EXCEPT !.at = "pick"]
      /\ UNCHANGED <<upload, copies, fileQueue, cleaning, cleaners, events, cleanQueue,
                     configured, embedded, stalled, faults>>

RemoveFails ==
  /\ scan.at = "remove"
  /\ Fault
  /\ scan' = [scan EXCEPT !.at = "pick"]
  /\ UNCHANGED <<upload, source, changed, copies, fileQueue, cleaning, cleaners, events,
                 cleanQueue, configured, embedded, spoiled, stalled>>

EndScanDeaf ==    \* mutant: changes during a scan are taken as seen by it
  /\ scan.at = "pick" /\ scan.todo = {}
  /\ scan' = NoScan
  /\ changed' = FALSE
  /\ UNCHANGED <<upload, source, copies, fileQueue, cleaning, cleaners, events,
                 cleanQueue, configured, embedded, spoiled, stalled, faults>>

EndScan ==
  /\ scan.at = "pick" /\ scan.todo = {}
  /\ scan' = NoScan
  /\ UNCHANGED <<upload, source, changed, copies, fileQueue, cleaning, cleaners, events,
                 cleanQueue, configured, embedded, spoiled, stalled, faults>>

-----------------------------------------------------------------------------
(* consumer_worker, monitor_consumers, process_document_from_queue *)

TakeFile ==
  /\ fileQueue # <<>> /\ Cardinality(cleaning) < cleaners
  /\ cleaning' = cleaning \cup {Head(fileQueue)}
  /\ fileQueue' = Tail(fileQueue)
  /\ UNCHANGED <<upload, source, changed, scan, copies, cleaners, events, cleanQueue,
                 configured, embedded, spoiled, stalled, faults>>

\* Step 7: the copy leaves temp/ for the document's own directory.
MoveOriginal(k) ==
  /\ k \in cleaning /\ copies[k].at = "temp"
  /\ copies' = [copies EXCEPT ![k].at = "moved"]
  /\ UNCHANGED <<upload, source, changed, scan, fileQueue, cleaning, cleaners, events,
                 cleanQueue, configured, embedded, spoiled, stalled, faults>>

\* Step 8: finished.txt is created, and has its text when it is closed.
OpenFinished(k) ==
  /\ k \in cleaning /\ copies[k].at = "moved"
  /\ copies' = [copies EXCEPT ![k].at = "opened"]
  /\ events' = [events EXCEPT ![k] = @ + 1]
  /\ UNCHANGED <<upload, source, changed, scan, fileQueue, cleaning, cleaners, cleanQueue,
                 configured, embedded, spoiled, stalled, faults>>

FillFinished(k) ==
  /\ k \in cleaning /\ copies[k].at = "opened"
  /\ copies' = [copies EXCEPT ![k].at = "filled"]
  /\ events' = [events EXCEPT ![k] = @ + 1]
  /\ cleaning' = cleaning \ {k}
  /\ UNCHANGED <<upload, source, changed, scan, fileQueue, cleaners, cleanQueue,
                 configured, embedded, spoiled, stalled, faults>>

\* The exception is caught and returned as a result that nobody reads.
CleanFails(k) ==
  /\ k \in cleaning
  /\ Fault
  /\ cleaning' = cleaning \ {k}
  /\ stalled' = stalled \cup {copies[k].upload}
  /\ UNCHANGED <<upload, source, changed, scan, copies, fileQueue, cleaners, events,
                 cleanQueue, configured, embedded, spoiled>>

SpawnCleaner ==
  /\ Len(fileQueue) > QueueThreshold /\ cleaners < MaxCleaners
  /\ cleaners' = cleaners + 1
  /\ UNCHANGED <<upload, source, changed, scan, copies, fileQueue, cleaning, events,
                 cleanQueue, configured, embedded, spoiled, stalled, faults>>

MayLeave == cleaners > InitialCleaners

\* Its get timed out.
LeaveIdle ==
  /\ fileQueue = <<>> /\ Cardinality(cleaning) < cleaners
  /\ MayLeave
  /\ cleaners' = cleaners - 1
  /\ UNCHANGED <<upload, source, changed, scan, copies, fileQueue, cleaning, events,
                 cleanQueue, configured, embedded, spoiled, stalled, faults>>

-----------------------------------------------------------------------------
(* CleanDocQueue, embedding_consumer_worker, config_refresher *)

\* An event of a finished.txt. A full queue drops it.
SeeFinished(k) ==
  /\ events[k] > 0
  /\ events' = [events EXCEPT ![k] = @ - 1]
  /\ IF Len(cleanQueue) < QueueSize
     THEN cleanQueue' = Append(cleanQueue, k) /\ UNCHANGED stalled
     ELSE stalled' = stalled \cup {copies[k].upload} /\ UNCHANGED cleanQueue
  /\ UNCHANGED <<upload, source, changed, scan, copies, fileQueue, cleaning, cleaners,
                 configured, embedded, spoiled, faults>>

\* Without a configuration the document is skipped; without text there is
\* nothing to embed; else its passages go to Qdrant under new identifiers.
Embed ==
  LET k == Head(cleanQueue)
      u == copies[k].upload
  IN  /\ cleanQueue # <<>>
      /\ cleanQueue' = Tail(cleanQueue)
      /\ embedded' = IF configured /\ copies[k].at = "filled" /\ copies[k].whole
                     THEN [embedded EXCEPT ![u] = @ + 1] ELSE embedded
      /\ stalled' = IF configured THEN stalled ELSE stalled \cup {u}
      /\ UNCHANGED <<upload, source, changed, scan, copies, fileQueue, cleaning, cleaners,
                     events, configured, spoiled, faults>>

EmbedFails ==
  /\ cleanQueue # <<>>
  /\ Fault
  /\ cleanQueue' = Tail(cleanQueue)
  /\ stalled' = stalled \cup {copies[Head(cleanQueue)].upload}
  /\ UNCHANGED <<upload, source, changed, scan, copies, fileQueue, cleaning, cleaners,
                 events, configured, embedded, spoiled>>

RefreshConfig ==
  /\ ~configured
  /\ configured' = TRUE
  /\ UNCHANGED <<upload, source, changed, scan, copies, fileQueue, cleaning, cleaners,
                 events, cleanQueue, embedded, spoiled, stalled, faults>>

\* load_agent_config answers {} when it cannot read the file, and the
\* refresher puts that in place of what it had.
RefreshFails ==
  /\ configured
  /\ Fault
  /\ configured' = FALSE
  /\ UNCHANGED <<upload, source, changed, scan, copies, fileQueue, cleaning, cleaners,
                 events, cleanQueue, embedded, spoiled, stalled>>

\* The service stops, by a signal or by itself, and starts again.
Restart ==
  /\ Fault
  /\ upload' = [u \in Uploads |-> IF upload[u].state = "writing"
                                  THEN [upload[u] EXCEPT !.state = "failed"] ELSE upload[u]]
  /\ changed' = FALSE /\ scan' = NoScan
  /\ fileQueue' = <<>> /\ cleanQueue' = <<>> /\ cleaning' = {}
  /\ cleaners' = InitialCleaners
  /\ events' = [k \in CopyIds |-> 0]
  /\ configured' = FALSE
  /\ stalled' = stalled \cup {u \in Uploads : upload[u].state # "none"}
  /\ UNCHANGED <<source, copies, embedded, spoiled>>

-----------------------------------------------------------------------------
Scanner ==
  \/ StartScan \/ EndScan \/ PutFile \/ RemoveFile
  \/ \E f \in Files : SkipFile(f) \/ CopyFile(f)

Cleaner ==
  \/ TakeFile
  \/ \E k \in CopyIds : MoveOriginal(k) \/ OpenFinished(k) \/ FillFinished(k)

Next ==
  \/ \E u \in Uploads : \/ \E f \in Files : StartUpload(u, f)
                        \/ FinishUpload(u) \/ UploadFails(u)
  \/ Scanner \/ Cleaner \/ SpawnCleaner \/ LeaveIdle
  \/ \E k \in CopyIds : SeeFinished(k) \/ CleanFails(k)
  \/ Embed \/ RefreshConfig
  \/ \E f \in Files : CopyFails(f)
  \/ RemoveFails \/ EmbedFails \/ RefreshFails \/ Restart

Spec == Init /\ [][Next]_vars

\* The threads of the service run; nothing is assumed of clients and failures.
Fairness ==
  /\ WF_vars(Scanner) /\ WF_vars(Cleaner) /\ WF_vars(Embed)
  /\ WF_vars(\E k \in CopyIds : SeeFinished(k))

FairSpec == Spec /\ Fairness

-----------------------------------------------------------------------------
OnDisk(u) ==
  \/ \E f \in Files : source[f] = u
  \/ \E k \in CopyIds : copies[k].upload = u /\ copies[k].whole /\ copies[k].at # "none"

\* The bound on copies stops the model here, and not the code.
OutOfCopies(u) == source[upload[u].file] = u /\ NextCopy \notin CopyIds

\* Whatever fails and wherever the service is stopped, an acknowledged upload
\* is on disk somewhere: nothing removes a document before it was copied whole.
\* Uploads that a scan met half-written, or that were written over, excepted.
NothingIsDestroyed ==
  \A u \in Uploads : upload[u].state = "acked" /\ u \notin spoiled => OnDisk(u)

\* Two cleaners never work on one file of temp/.
OneCleanerPerPath ==
  \A j, k \in cleaning :
    j # k /\ copies[j].at = "temp" /\ copies[k].at = "temp"
      => \/ upload[copies[j].upload].file # upload[copies[k].upload].file
         \/ upload[copies[j].upload].file \notin Tagged

\* An upload to a watched directory is embedded, with nobody prompting, unless
\* one of the recorded mishaps stops it.
UploadsGoThrough ==
  \A u \in Uploads :
    (upload[u].state = "acked" /\ upload[u].file \in Watched)
      ~> (embedded[u] > 0 \/ u \in spoiled \cup stalled \/ OutOfCopies(u))

-----------------------------------------------------------------------------
(* What the code does not promise *)

\* "File uploaded successfully" (upload_controller.py:74): what was
\* acknowledged is kept. A scan can copy and remove it while it is written.
Replaced(u) == \E v \in Uploads : v > u /\ upload[v].state # "none" /\ upload[v].file = upload[u].file
AckedIsKept ==
  \A u \in Uploads : upload[u].state = "acked" /\ ~Replaced(u) => OnDisk(u)

\* One upload is ingested once. The creation and the change of a finished.txt
\* are two events, and an original that could not be removed is copied again.
EmbeddedOnce == \A u \in Uploads : embedded[u] <= 1

\* Without failures, an upload is embedded. A name that is still in temp/ is
\* skipped and waits for some other change; a full queue drops the document;
\* one taken before the first configuration is skipped.
EveryUploadIsEmbedded ==
  \A u \in Uploads :
    (upload[u].state = "acked" /\ u \notin spoiled)
      ~> (embedded[u] > 0 \/ faults > 0 \/ OutOfCopies(u))

=============================================================================
