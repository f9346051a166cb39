--------------------------- MODULE RagIngest_proofs ---------------------------
(***************************************************************************)
(* Proofs about RagIngest, for any documents, uploads, queue sizes, pools  *)
(* and failures: no acknowledged document is destroyed on its way, and no  *)
(* file of temp/ has two cleaners.                                         *)
(***************************************************************************)
EXTENDS RagIngest, FiniteSetTheorems, TLAPS

USE IngestAssumption

-----------------------------------------------------------------------------
Used == {k \in CopyIds : copies[k].at # "none"}

\* The part of the types the argument needs.
DiskTypeOK ==
  /\ upload \in [Uploads -> UploadRequests]
  /\ source \in [Files -> 0..MaxUploads]
  /\ copies \in [CopyIds -> Copies]
  /\ scan \in Scans
  /\ fileQueue \in Seq(CopyIds)
  /\ cleaning \subseteq CopyIds
  /\ spoiled \subseteq Uploads

\* A file and a copy hold a started upload; a whole copy, an acknowledged one.
FilesHoldUploads ==
  /\ \A f \in Files : source[f] # 0 =>
       /\ source[f] \in Uploads
       /\ upload[source[f]].file = f
       /\ upload[source[f]].state # "none"
  /\ \A k \in Used :
       /\ copies[k].upload \in Uploads
       /\ upload[copies[k].upload].state # "none"
       /\ copies[k].whole => upload[copies[k].upload].state = "acked"

\* Copies get their numbers in order.
CopiesInOrder == \A j, k \in CopyIds : j < k /\ k \in Used => j \in Used

\* What a scan is about to queue and remove was copied whole, or is known not
\* to have been.
ScanHasItsCopy ==
  scan.at \in {"put", "remove"} =>
    /\ scan.copy \in Used
    /\ copies[scan.copy].whole \/ copies[scan.copy].upload \in spoiled

\* While it is written, an upload is where it was opened.
WrittenInPlace ==
  \A u \in Uploads :
    upload[u].state = "writing" /\ u \notin spoiled => source[upload[u].file] = u

\* A name that carries a UUID is in temp/ once.
OncePerName ==
  \A j, k \in CopyIds :
    j # k /\ copies[j].at = "temp" /\ copies[k].at = "temp"
      => \/ upload[copies[j].upload].file # upload[copies[k].upload].file
         \/ upload[copies[j].upload].file \notin Tagged

IngestInv ==
  /\ DiskTypeOK
  /\ FilesHoldUploads
  /\ CopiesInOrder
  /\ ScanHasItsCopy
  /\ WrittenInPlace
  /\ OncePerName
  /\ NothingIsDestroyed

-----------------------------------------------------------------------------
\* The number of the next copy is free.
LEMMA NextCopyIsNew ==
  ASSUME IngestInv, NextCopy \in CopyIds
  PROVE  NextCopy \notin Used /\ \A j \in CopyIds : j < NextCopy => j \in Used
  <1> DEFINE n == Cardinality(Used)
  <1>1. Used \subseteq CopyIds /\ IsFiniteSet(CopyIds) /\ CopyIds \subseteq Nat
    BY FS_Interval DEF Used, CopyIds
  <1>2. IsFiniteSet(Used) /\ n \in Nat
    BY <1>1, FS_Subset, FS_CardinalityType
  <1>3. NextCopy = n + 1
    BY DEF NextCopy, Used
  <1>4. \A j, k \in CopyIds : j < k /\ k \in Used => j \in Used
    BY DEF IngestInv, CopiesInOrder
  <1> HIDE DEF n
  <1>5. NextCopy \notin Used
    <2> SUFFICES ASSUME n + 1 \in Used
                 PROVE  FALSE
      BY <1>3
    <2>1. 1..(n + 1) \subseteq Used
      <3> SUFFICES ASSUME NEW j \in 1..(n + 1)
                   PROVE  j \in Used
        OBVIOUS
      <3>1. j \in CopyIds /\ n + 1 \in CopyIds
        BY <1>1, <1>2 DEF CopyIds
      <3>2. j = n + 1 \/ j < n + 1
        BY <1>2
      <3> QED
        BY <1>4, <3>1, <3>2
    <2>2. Cardinality(1..(n + 1)) = n + 1
      BY <1>2, FS_Interval
    <2>3. Cardinality(1..(n + 1)) <= Cardinality(Used)
      BY <1>2, <2>1, FS_Subset
    <2> QED
      BY <1>2, <2>2, <2>3 DEF n
  <1>6. \A j \in CopyIds : j < n + 1 => j \in Used
    <2> SUFFICES ASSUME \E j \in CopyIds : j < n + 1 /\ j \notin Used
                 PROVE  FALSE
      OBVIOUS
    <2>1. PICK j \in CopyIds : j < n + 1 /\ j \notin Used
      OBVIOUS
    <2>2. Used \subseteq 1..(j - 1)
      BY <1>1, <1>4, <2>1 DEF CopyIds
    <2>3. j - 1 \in Nat /\ j - 1 < n
      BY <1>2, <2>1 DEF CopyIds
    <2>4. IsFiniteSet(1..(j - 1)) /\ Cardinality(1..(j - 1)) = j - 1
      BY <2>3, FS_Interval
    <2>5. n <= j - 1
      BY <2>2, <2>4, FS_Subset DEF n
    <2> QED
      BY <1>2, <2>3, <2>5
  <1> QED
    BY <1>3, <1>5, <1>6

-----------------------------------------------------------------------------
(* Steps that leave the disk as it is.                                     *)

LEMMA NoScanType == NoScan \in Scans /\ NoScan.at = "watch"
  BY DEF NoScan, Scans

LEMMA SameDisk ==
  ASSUME IngestInv, UNCHANGED <<upload, source, copies, spoiled>>,
         DiskTypeOK', ScanHasItsCopy'
  PROVE  IngestInv'
  <1>1. FilesHoldUploads' /\ CopiesInOrder' /\ WrittenInPlace' /\ OncePerName'
    BY DEF IngestInv, FilesHoldUploads, CopiesInOrder, WrittenInPlace, OncePerName, Used
  <1>2. NothingIsDestroyed'
    BY DEF IngestInv, NothingIsDestroyed, OnDisk
  <1> QED
    BY <1>1, <1>2 DEF IngestInv

LEMMA ScanStepKeeps ==
  ASSUME IngestInv,
         \/ StartScan \/ EndScan \/ PutFile \/ RemoveFails
         \/ \E f \in Files : SkipFile(f)
  PROVE  IngestInv'
  <1>1. UNCHANGED <<upload, source, copies, cleaning, spoiled>>
    BY DEF StartScan, EndScan, PutFile, RemoveFails, SkipFile
  <1>2. scan \in Scans
    BY DEF IngestInv, DiskTypeOK
  <1>3. CASE PutFile
    <2>1. /\ scan.at = "put" /\ scan' = [scan EXCEPT !.at = "remove"]
          /\ fileQueue' = Append(fileQueue, scan.copy)
      BY <1>3 DEF PutFile
    <2>2. scan.copy \in CopyIds
      BY <2>1 DEF IngestInv, ScanHasItsCopy, Used
    <2>3. scan' \in Scans /\ scan'.at = "remove" /\ scan'.copy = scan.copy
      BY <1>2, <2>1 DEF Scans
    <2>4. fileQueue' \in Seq(CopyIds)
      BY <2>1, <2>2 DEF IngestInv, DiskTypeOK
    <2>5. DiskTypeOK'
      BY <1>1, <2>3, <2>4 DEF IngestInv, DiskTypeOK
    <2>6. ScanHasItsCopy'
      BY <1>1, <2>1, <2>3 DEF IngestInv, ScanHasItsCopy, Used
    <2> QED
      BY <1>1, <2>5, <2>6, SameDisk
  <1>4. CASE StartScan \/ EndScan \/ RemoveFails \/ \E f \in Files : SkipFile(f)
    <2>1. fileQueue' = fileQueue
      BY <1>4 DEF StartScan, EndScan, RemoveFails, SkipFile
    <2>2. ASSUME StartScan
          PROVE  scan' \in Scans /\ scan'.at \in {"watch", "pick"}
      BY <1>2, <2>2 DEF StartScan, Scans
    <2>3. ASSUME EndScan
          PROVE  scan' \in Scans /\ scan'.at \in {"watch", "pick"}
      BY <2>3, NoScanType DEF EndScan
    <2>4. ASSUME RemoveFails
          PROVE  scan' \in Scans /\ scan'.at \in {"watch", "pick"}
      BY <1>2, <2>4 DEF RemoveFails, Scans
    <2>5. ASSUME \E f \in Files : SkipFile(f)
          PROVE  scan' \in Scans /\ scan'.at \in {"watch", "pick"}
      BY <1>2, <2>5 DEF SkipFile, Scans
    <2>6. scan' \in Scans /\ scan'.at \in {"watch", "pick"}
      BY <1>4, <2>2, <2>3, <2>4, <2>5
    <2>7. DiskTypeOK'
      BY <1>1, <2>1, <2>6 DEF IngestInv, DiskTypeOK
    <2>8. ScanHasItsCopy'
      BY <2>6 DEF ScanHasItsCopy
    <2> QED
      BY <1>1, <2>7, <2>8, SameDisk
  <1> QED
    BY <1>3, <1>4

LEMMA PoolStepKeeps ==
  ASSUME IngestInv,
         \/ TakeFile \/ SpawnCleaner \/ LeaveIdle
         \/ \E k \in CopyIds : SeeFinished(k) \/ CleanFails(k)
         \/ Embed \/ EmbedFails \/ RefreshConfig \/ RefreshFails
         \/ UNCHANGED vars
  PROVE  IngestInv'
  <1>1. UNCHANGED <<upload, source, copies, spoiled, scan>>
    BY DEF TakeFile, SpawnCleaner, LeaveIdle, SeeFinished, CleanFails, Embed, EmbedFails,
           RefreshConfig, RefreshFails, vars
  <1>2. cleaning' \subseteq CopyIds /\ fileQueue' \in Seq(CopyIds)
    <2>1. fileQueue \in Seq(CopyIds) /\ cleaning \subseteq CopyIds
      BY DEF IngestInv, DiskTypeOK
    <2>2. CASE TakeFile
      <3>1. /\ fileQueue # <<>> /\ cleaning' = cleaning \cup {Head(fileQueue)}
            /\ fileQueue' = Tail(fileQueue)
        BY <2>2 DEF TakeFile
      <3> QED
        BY <2>1, <3>1
    <2>3. CASE ~TakeFile
      <3>1. fileQueue' = fileQueue /\ cleaning' \subseteq cleaning
        BY <2>3 DEF SpawnCleaner, LeaveIdle, SeeFinished, CleanFails, Embed, EmbedFails,
                    RefreshConfig, RefreshFails, vars
      <3> QED
        BY <2>1, <3>1
    <2> QED
      BY <2>2, <2>3
  <1>3. DiskTypeOK' /\ ScanHasItsCopy'
    BY <1>1, <1>2 DEF IngestInv, DiskTypeOK, ScanHasItsCopy, Used
  <1> QED
    BY <1>1, <1>3, SameDisk

-----------------------------------------------------------------------------
(* Uploads.                                                                *)

LEMMA StartUploadKeeps ==
  ASSUME IngestInv, NEW u \in Uploads, NEW f \in Files, StartUpload(u, f)
  PROVE  IngestInv'
  <1>1. /\ upload[u].state = "none"
        /\ \A v \in Uploads : upload[v].state = "writing" => upload[v].file # f
        /\ upload' = [upload EXCEPT ![u] = [file |-> f, state |-> "writing"]]
        /\ source' = [source EXCEPT ![f] = u]
        /\ spoiled' = spoiled \cup Lost(source[f])
        /\ UNCHANGED <<scan, copies, fileQueue, cleaning>>
    BY DEF StartUpload
  <1>2. /\ upload \in [Uploads -> UploadRequests] /\ source \in [Files -> 0..MaxUploads]
        /\ copies \in [CopyIds -> Copies] /\ 0 \notin Uploads /\ Uploads \subseteq 0..MaxUploads
    BY DEF IngestInv, DiskTypeOK, Uploads
  <1>3. /\ \A v \in Uploads : v # u => upload'[v] = upload[v]
        /\ upload'[u].file = f /\ upload'[u].state = "writing"
        /\ source'[f] = u /\ \A g \in Files : g # f => source'[g] = source[g]
    BY <1>1, <1>2
  <1>4. \A k \in Used : copies[k].upload \in Uploads /\ copies[k].upload # u
    BY <1>1 DEF IngestInv, FilesHoldUploads
  <1>5. DiskTypeOK'
    <2>1. upload' \in [Uploads -> UploadRequests]
      BY <1>1, <1>2 DEF UploadRequests
    <2>2. source' \in [Files -> 0..MaxUploads]
      BY <1>1, <1>2
    <2>3. Lost(source[f]) \subseteq Uploads
      BY <1>2 DEF Lost, Uploads
    <2>4. spoiled' \subseteq Uploads
      BY <1>1, <2>3 DEF IngestInv, DiskTypeOK
    <2> QED
      BY <1>1, <2>1, <2>2, <2>4 DEF IngestInv, DiskTypeOK
  <1>6. FilesHoldUploads' /\ CopiesInOrder'
    BY <1>1, <1>2, <1>3, <1>4 DEF IngestInv, FilesHoldUploads, CopiesInOrder, Used
  <1>7. ScanHasItsCopy'
    BY <1>1 DEF IngestInv, ScanHasItsCopy, Used
  <1>8. WrittenInPlace'
    BY <1>1, <1>2, <1>3 DEF IngestInv, WrittenInPlace, UploadRequests
  <1>9. OncePerName'
    <2>1. \A k \in CopyIds : copies[k].at = "temp" => k \in Used
      BY DEF Used
    <2> QED
      BY <1>1, <1>3, <1>4, <2>1 DEF IngestInv, OncePerName
  <1>10. NothingIsDestroyed'
    <2> SUFFICES ASSUME NEW v \in Uploads, upload'[v].state = "acked", v \notin spoiled'
                 PROVE  OnDisk(v)'
      BY DEF NothingIsDestroyed
    <2>1. v # u /\ upload[v].state = "acked" /\ v \notin spoiled /\ source[f] # v
      BY <1>1, <1>2, <1>3 DEF Lost
    <2>2. OnDisk(v)
      BY <2>1 DEF IngestInv, NothingIsDestroyed
    <2> QED
      BY <1>1, <1>3, <2>1, <2>2 DEF OnDisk
  <1> QED
    BY <1>5, <1>6, <1>7, <1>8, <1>9, <1>10 DEF IngestInv

\* An upload that ends, well or not, keeps its name.
LEMMA UploadEndsKeeps ==
  ASSUME IngestInv, UNCHANGED <<source, copies, spoiled>>, DiskTypeOK', ScanHasItsCopy',
         \A u \in Uploads :
           /\ upload'[u].file = upload[u].file
           /\ \/ upload'[u].state = upload[u].state
              \/ upload[u].state = "writing" /\ upload'[u].state \in {"acked", "failed"}
  PROVE  IngestInv'
  <1>1. \A f \in Files : source[f] # 0 => source[f] \in Uploads
    BY DEF IngestInv, FilesHoldUploads
  <1>2. \A k \in CopyIds : copies[k].at = "temp" => copies[k].upload \in Uploads
    BY DEF IngestInv, FilesHoldUploads, Used
  <1>3. FilesHoldUploads' /\ CopiesInOrder'
    BY <1>1 DEF IngestInv, FilesHoldUploads, CopiesInOrder, Used
  <1>4. WrittenInPlace'
    BY DEF IngestInv, WrittenInPlace
  <1>5. OncePerName'
    BY <1>2 DEF IngestInv, OncePerName
  <1>6. NothingIsDestroyed'
    <2> SUFFICES ASSUME NEW v \in Uploads, upload'[v].state = "acked", v \notin spoiled
                 PROVE  OnDisk(v)'
      BY DEF NothingIsDestroyed
    <2>1. CASE upload[v].state = "acked"
      BY <2>1 DEF IngestInv, NothingIsDestroyed, OnDisk
    <2>2. CASE upload[v].state = "writing"
      <3>1. source[upload[v].file] = v /\ upload[v].file \in Files
        BY <2>2 DEF IngestInv, WrittenInPlace, DiskTypeOK, UploadRequests
      <3> QED
        BY <3>1 DEF OnDisk
    <2> QED
      BY <2>1, <2>2
  <1> QED
    BY <1>3, <1>4, <1>5, <1>6 DEF IngestInv

LEMMA FinishUploadKeeps ==
  ASSUME IngestInv, NEW u \in Uploads, FinishUpload(u) \/ UploadFails(u)
  PROVE  IngestInv'
  <1>1. /\ upload[u].state = "writing"
        /\ \E end \in {"acked", "failed"} : upload' = [upload EXCEPT ![u].state = end]
        /\ UNCHANGED <<source, copies, spoiled, scan, fileQueue, cleaning>>
    BY DEF FinishUpload, UploadFails
  <1>2. upload \in [Uploads -> UploadRequests]
    BY DEF IngestInv, DiskTypeOK
  <1>3. /\ upload' \in [Uploads -> UploadRequests]
        /\ \A v \in Uploads :
             /\ upload'[v].file = upload[v].file
             /\ \/ upload'[v].state = upload[v].state
                \/ upload[v].state = "writing" /\ upload'[v].state \in {"acked", "failed"}
    BY <1>1, <1>2 DEF UploadRequests
  <1>4. DiskTypeOK' /\ ScanHasItsCopy'
    BY <1>1, <1>3 DEF IngestInv, DiskTypeOK, ScanHasItsCopy, Used
  <1> QED
    BY <1>1, <1>3, <1>4, UploadEndsKeeps

LEMMA RestartKeeps ==
  ASSUME IngestInv, Restart
  PROVE  IngestInv'
  <1>1. /\ upload' = [u \in Uploads |-> IF upload[u].state = "writing"
                                  THEN [upload[u] EXCEPT !.state = "failed"] ELSE upload[u]]
        /\ scan' = NoScan /\ fileQueue' = <<>> /\ cleaning' = {}
        /\ UNCHANGED <<source, copies, spoiled>>
    BY DEF Restart
  <1>2. upload \in [Uploads -> UploadRequests]
    BY DEF IngestInv, DiskTypeOK
  <1>3. /\ upload' \in [Uploads -> UploadRequests]
        /\ \A v \in Uploads :
             /\ upload'[v].file = upload[v].file
             /\ \/ upload'[v].state = upload[v].state
                \/ upload[v].state = "writing" /\ upload'[v].state \in {"acked", "failed"}
    BY <1>1, <1>2 DEF UploadRequests
  <1>4. DiskTypeOK'
    BY <1>1, <1>3, NoScanType DEF IngestInv, DiskTypeOK
  <1>5. ScanHasItsCopy'
    BY <1>1, NoScanType DEF ScanHasItsCopy
  <1> QED
    BY <1>1, <1>3, <1>4, <1>5, UploadEndsKeeps

-----------------------------------------------------------------------------
(* Copies.                                                                 *)

\* A copy takes the next number; it is whole only if the upload was over.
LEMMA CopyMade ==
  ASSUME IngestInv, NEW f \in Files, NEW whole \in BOOLEAN, CopyOf(f, whole),
         whole => upload[source[f]].state = "acked",
         UNCHANGED <<upload, source>>, spoiled \subseteq spoiled', DiskTypeOK', ScanHasItsCopy'
  PROVE  IngestInv'
  <1> DEFINE n == NextCopy
             c == [upload |-> source[f], whole |-> whole, at |-> "temp"]
  <1>1. /\ source[f] # 0 /\ ~TempExists(f) /\ n \in CopyIds
        /\ copies' = [copies EXCEPT ![n] = c]
    BY DEF CopyOf
  <1>2. n \notin Used /\ \A j \in CopyIds : j < n => j \in Used
    BY <1>1, NextCopyIsNew
  <1>3. copies \in [CopyIds -> Copies] /\ CopyIds \subseteq Nat
    BY DEF IngestInv, DiskTypeOK, CopyIds
  <1>4. source[f] \in Uploads /\ upload[source[f]].file = f /\ upload[source[f]].state # "none"
    BY <1>1 DEF IngestInv, FilesHoldUploads
  <1> HIDE DEF n
  <1>5. /\ copies'[n] = c /\ \A k \in CopyIds : k # n => copies'[k] = copies[k]
    BY <1>1, <1>3
  <1>6. Used' = Used \union {n}
    BY <1>1, <1>5 DEF Used
  <1>7. FilesHoldUploads'
    BY <1>2, <1>4, <1>5, <1>6 DEF IngestInv, FilesHoldUploads, Used
  <1>8. CopiesInOrder'
    BY <1>1, <1>2, <1>3, <1>6 DEF IngestInv, CopiesInOrder
  <1>9. WrittenInPlace'
    BY DEF IngestInv, WrittenInPlace
  <1>10. OncePerName'
    <2> SUFFICES ASSUME NEW j \in CopyIds, NEW k \in CopyIds, j # k,
                        copies'[j].at = "temp", copies'[k].at = "temp",
                        upload[copies'[j].upload].file = upload[copies'[k].upload].file,
                        upload[copies'[j].upload].file \in Tagged
                 PROVE  FALSE
      BY DEF OncePerName
    <2>1. CASE j # n /\ k # n
      BY <1>5, <2>1 DEF IngestInv, OncePerName
    <2>2. CASE j = n
      BY <1>1, <1>4, <1>5, <2>2 DEF TempExists
    <2>3. CASE k = n
      BY <1>1, <1>4, <1>5, <2>3 DEF TempExists
    <2> QED
      BY <2>1, <2>2, <2>3
  <1>11. NothingIsDestroyed'
    <2> SUFFICES ASSUME NEW v \in Uploads, upload[v].state = "acked", v \notin spoiled'
                 PROVE  OnDisk(v)'
      BY DEF NothingIsDestroyed
    <2>1. OnDisk(v)
      BY DEF IngestInv, NothingIsDestroyed
    <2>2. CASE \E g \in Files : source[g] = v
      BY <2>2 DEF OnDisk
    <2>3. CASE \E k \in CopyIds : copies[k].upload = v /\ copies[k].whole /\ copies[k].at # "none"
      BY <1>2, <1>5, <2>3 DEF OnDisk, Used
    <2> QED
      BY <2>1, <2>2, <2>3 DEF OnDisk
  <1> QED
    BY <1>7, <1>8, <1>9, <1>10, <1>11 DEF IngestInv

LEMMA CopyTypes ==
  ASSUME IngestInv, NEW f \in Files, NEW whole \in BOOLEAN, CopyOf(f, whole)
  PROVE  /\ copies' \in [CopyIds -> Copies]
         /\ source[f] \in Uploads
         /\ NextCopy \in CopyIds
         /\ copies'[NextCopy] = [upload |-> source[f], whole |-> whole, at |-> "temp"]
         /\ \A k \in Used : copies'[k] = copies[k]
  <1>1. /\ source[f] # 0 /\ NextCopy \in CopyIds
        /\ copies' = [copies EXCEPT ![NextCopy] = [upload |-> source[f], whole |-> whole, at |-> "temp"]]
    BY DEF CopyOf
  <1>2. source[f] \in Uploads /\ source[f] \in 0..MaxUploads
    BY <1>1 DEF IngestInv, FilesHoldUploads, DiskTypeOK
  <1>3. NextCopy \notin Used /\ copies \in [CopyIds -> Copies] /\ Used \subseteq CopyIds
    BY <1>1, NextCopyIsNew DEF IngestInv, DiskTypeOK, Used
  <1>4. [upload |-> source[f], whole |-> whole, at |-> "temp"] \in Copies
    BY <1>2 DEF Copies
  <1> HIDE DEF NextCopy
  <1> QED
    BY <1>1, <1>2, <1>3, <1>4

LEMMA CopyFileKeeps ==
  ASSUME IngestInv, NEW f \in Files, CopyFile(f)
  PROVE  IngestInv'
  <1> DEFINE whole == source[f] # 0 /\ upload[source[f]].state = "acked"
  <1>1. /\ whole \in BOOLEAN /\ CopyOf(f, whole)
        /\ scan' = [scan EXCEPT !.at = "put", !.todo = @ \ {f}, !.file = f, !.copy = NextCopy]
        /\ spoiled' = IF whole THEN spoiled ELSE spoiled \cup {source[f]}
        /\ UNCHANGED <<upload, source, fileQueue, cleaning>>
    BY DEF CopyFile
  <1>2. whole => upload[source[f]].state = "acked"
    OBVIOUS
  <1> HIDE DEF whole
  <1>3. /\ copies' \in [CopyIds -> Copies] /\ source[f] \in Uploads /\ NextCopy \in CopyIds
        /\ copies'[NextCopy] = [upload |-> source[f], whole |-> whole, at |-> "temp"]
    BY <1>1, CopyTypes
  <1>4. scan' \in Scans /\ scan'.copy = NextCopy
    <2>1. scan \in Scans
      BY DEF IngestInv, DiskTypeOK
    <2>2. NextCopy \in 0..MaxCopies
      BY <1>3 DEF CopyIds
    <2> HIDE DEF NextCopy
    <2> QED
      BY <1>1, <2>1, <2>2 DEF Scans
  <1>5. DiskTypeOK'
    BY <1>1, <1>3, <1>4 DEF IngestInv, DiskTypeOK
  <1>6. ScanHasItsCopy'
    BY <1>1, <1>3, <1>4 DEF ScanHasItsCopy, Used
  <1> QED
    BY <1>1, <1>2, <1>5, <1>6, CopyMade

LEMMA CopyFailsKeeps ==
  ASSUME IngestInv, NEW f \in Files, CopyFails(f)
  PROVE  IngestInv'
  <1>1. /\ CopyOf(f, FALSE) /\ scan.at = "pick"
        /\ scan' = [scan EXCEPT !.todo = @ \ {f}]
        /\ UNCHANGED <<upload, source, fileQueue, cleaning, spoiled>>
    BY DEF CopyFails, CopyOf
  <1>2. copies' \in [CopyIds -> Copies]
    BY <1>1, CopyTypes
  <1>3. scan' \in Scans /\ scan'.at = "pick"
    BY <1>1 DEF IngestInv, DiskTypeOK, Scans
  <1>4. DiskTypeOK'
    BY <1>1, <1>2, <1>3 DEF IngestInv, DiskTypeOK
  <1>5. ScanHasItsCopy'
    BY <1>3 DEF ScanHasItsCopy
  <1> QED
    BY <1>1, <1>4, <1>5, CopyMade

\* The original is removed: it was copied whole, or it was written over and
\* another upload goes with it.
LEMMA RemoveFileKeeps ==
  ASSUME IngestInv, RemoveFile
  PROVE  IngestInv'
  <1> DEFINE f == scan.file
             gone == source[f]
             k == scan.copy
  <1>1. /\ scan.at = "remove" /\ scan' = [scan EXCEPT !.at = "pick"]
        /\ source' = [source EXCEPT ![f] = 0]
        /\ spoiled' = IF gone = copies[k].upload THEN spoiled ELSE spoiled \cup Lost(gone)
        /\ UNCHANGED <<upload, copies, fileQueue, cleaning>>
    BY DEF RemoveFile
  <1>2. /\ scan \in Scans /\ source \in [Files -> 0..MaxUploads] /\ spoiled \subseteq Uploads
    BY DEF IngestInv, DiskTypeOK
  <1>3. f \in Files /\ k \in Used /\ (copies[k].whole \/ copies[k].upload \in spoiled)
    BY <1>1, <1>2 DEF Scans, IngestInv, ScanHasItsCopy
  <1>4. scan' \in Scans /\ scan'.at = "pick"
    BY <1>1, <1>2 DEF Scans
  <1> HIDE DEF f, k
  <1>5. /\ source'[f] = 0 /\ \A g \in Files : g # f => source'[g] = source[g]
        /\ source' \in [Files -> 0..MaxUploads] /\ gone \in 0..MaxUploads
    BY <1>1, <1>2, <1>3
  <1>6. spoiled' \subseteq Uploads /\ spoiled \subseteq spoiled'
    <2>1. Lost(gone) \subseteq Uploads
      BY <1>5 DEF Lost, Uploads
    <2> QED
      BY <1>1, <1>2, <2>1
  <1>7. DiskTypeOK'
    BY <1>1, <1>4, <1>5, <1>6 DEF IngestInv, DiskTypeOK
  <1>8. ScanHasItsCopy'
    BY <1>4 DEF ScanHasItsCopy
  <1>9. FilesHoldUploads' /\ CopiesInOrder' /\ OncePerName'
    BY <1>1, <1>5 DEF IngestInv, FilesHoldUploads, CopiesInOrder, OncePerName, Used
  <1>10. ASSUME NEW v \in Uploads, gone = v, v \notin spoiled'
         PROVE  k \in CopyIds /\ copies[k].upload = v /\ copies[k].whole /\ copies[k].at # "none"
    BY <1>1, <1>3, <1>6, <1>10 DEF Lost, Uploads, Used
  <1>11. WrittenInPlace'
    <2> SUFFICES ASSUME NEW v \in Uploads, upload[v].state = "writing", v \notin spoiled'
                 PROVE  source'[upload[v].file] = v
      BY <1>1 DEF WrittenInPlace
    <2>1. source[upload[v].file] = v /\ upload[v].file \in Files
      BY <1>6 DEF IngestInv, WrittenInPlace, DiskTypeOK, UploadRequests
    <2>2. gone # v
      BY <1>3, <1>10 DEF IngestInv, FilesHoldUploads
    <2> QED
      BY <1>5, <2>1, <2>2
  <1>12. NothingIsDestroyed'
    <2> SUFFICES ASSUME NEW v \in Uploads, upload[v].state = "acked", v \notin spoiled'
                 PROVE  OnDisk(v)'
      BY <1>1 DEF NothingIsDestroyed
    <2>1. CASE gone = v
      BY <1>1, <1>10, <2>1 DEF OnDisk
    <2>2. CASE gone # v
      <3>1. OnDisk(v)
        BY <1>6 DEF IngestInv, NothingIsDestroyed
      <3> QED
        BY <1>1, <1>5, <2>2, <3>1 DEF OnDisk
    <2> QED
      BY <2>1, <2>2
  <1> QED
    BY <1>7, <1>8, <1>9, <1>11, <1>12 DEF IngestInv

\* A cleaner moves its copy on; it leaves temp/ and never comes back.
LEMMA CleanerKeeps ==
  ASSUME IngestInv, NEW k \in CopyIds, MoveOriginal(k) \/ OpenFinished(k) \/ FillFinished(k)
  PROVE  IngestInv'
  <1>1. /\ copies[k].at # "none"
        /\ \E at \in {"moved", "opened", "filled"} : copies' = [copies EXCEPT ![k].at = at]
        /\ cleaning' \subseteq cleaning
        /\ UNCHANGED <<upload, source, scan, fileQueue, spoiled>>
    BY DEF MoveOriginal, OpenFinished, FillFinished
  <1>2. copies \in [CopyIds -> Copies]
    BY DEF IngestInv, DiskTypeOK
  <1>3. /\ copies' \in [CopyIds -> Copies]
        /\ \A j \in CopyIds : /\ copies'[j].upload = copies[j].upload
                              /\ copies'[j].whole = copies[j].whole
                              /\ copies'[j].at = "none" <=> copies[j].at = "none"
                              /\ copies'[j].at = "temp" => copies[j].at = "temp"
    <2>1. PICK at \in {"moved", "opened", "filled"} : copies' = [copies EXCEPT ![k].at = at]
      BY <1>1
    <2>2. copies'[k] = [copies[k] EXCEPT !.at = at] /\ copies[k] \in Copies
      BY <1>2, <2>1
    <2>3. /\ copies'[k] \in Copies /\ copies'[k].upload = copies[k].upload
          /\ copies'[k].whole = copies[k].whole /\ copies'[k].at = at
      BY <2>2 DEF Copies
    <2>4. \A j \in CopyIds : j # k => copies'[j] = copies[j]
      BY <1>2, <2>1
    <2>5. copies' \in [CopyIds -> Copies]
      BY <1>2, <2>1, <2>2, <2>3
    <2> QED
      BY <1>1, <2>3, <2>4, <2>5
  <1>4. Used' = Used
    <2>1. \A j \in CopyIds : j \in Used' <=> j \in Used
      BY <1>3 DEF Used
    <2> QED
      BY <2>1 DEF Used
  <1>5. Used \subseteq CopyIds
    BY DEF Used
  <1>6. DiskTypeOK'
    BY <1>1, <1>3 DEF IngestInv, DiskTypeOK
  <1>7. FilesHoldUploads' /\ CopiesInOrder' /\ ScanHasItsCopy' /\ WrittenInPlace'
    BY <1>1, <1>3, <1>4, <1>5
       DEF IngestInv, FilesHoldUploads, CopiesInOrder, ScanHasItsCopy, WrittenInPlace
  <1>8. OncePerName'
    BY <1>1, <1>3 DEF IngestInv, OncePerName
  <1>9. NothingIsDestroyed'
    BY <1>1, <1>3 DEF IngestInv, NothingIsDestroyed, OnDisk
  <1> QED
    BY <1>6, <1>7, <1>8, <1>9 DEF IngestInv

-----------------------------------------------------------------------------
LEMMA IngestInitially == Init => IngestInv
  <1> SUFFICES ASSUME Init
               PROVE  IngestInv
    OBVIOUS
  <1>1. (CHOOSE f \in Files : TRUE) \in Files
    OBVIOUS
  <1>2. DiskTypeOK
    BY <1>1, NoScanType DEF Init, DiskTypeOK, UploadRequests, Copies, Uploads
  <1>3. Used = {}
    BY DEF Init, Used
  <1>4. \A u \in Uploads : upload[u].state = "none"
    BY DEF Init
  <1>5. \A k \in CopyIds : copies[k].at = "none"
    BY DEF Init
  <1>6. \A f \in Files : source[f] = 0
    BY DEF Init
  <1>7. ScanHasItsCopy
    BY NoScanType DEF Init, ScanHasItsCopy
  <1> QED
    BY <1>2, <1>3, <1>4, <1>5, <1>6, <1>7 DEF IngestInv, FilesHoldUploads, CopiesInOrder,
       WrittenInPlace, OncePerName, NothingIsDestroyed

LEMMA IngestInductive == IngestInv /\ [Next]_vars => IngestInv'
  <1> SUFFICES ASSUME IngestInv, [Next]_vars
               PROVE  IngestInv'
    OBVIOUS
  <1>1. ASSUME NEW u \in Uploads,
               (\E f \in Files : StartUpload(u, f)) \/ FinishUpload(u) \/ UploadFails(u)
        PROVE  IngestInv'
    BY <1>1, StartUploadKeeps, FinishUploadKeeps
  <1>2. CASE Scanner \/ RemoveFails \/ \E f \in Files : CopyFails(f)
    BY <1>2, ScanStepKeeps, RemoveFileKeeps, CopyFileKeeps, CopyFailsKeeps DEF Scanner
  <1>3. CASE Cleaner
    BY <1>3, PoolStepKeeps, CleanerKeeps DEF Cleaner
  <1>4. CASE \/ SpawnCleaner \/ LeaveIdle \/ \E k \in CopyIds : SeeFinished(k) \/ CleanFails(k)
             \/ Embed \/ EmbedFails \/ RefreshConfig \/ RefreshFails
             \/ UNCHANGED vars
    BY <1>4, PoolStepKeeps
  <1>5. CASE Restart
    BY <1>5, RestartKeeps
  <1> QED
    BY <1>1, <1>2, <1>3, <1>4, <1>5 DEF Next

LEMMA IngestInvariant == Spec => []IngestInv
  BY IngestInitially, IngestInductive, PTL DEF Spec

\* Whatever fails, and wherever the service is stopped and started again, an
\* acknowledged upload stays on disk, under its name or as a whole copy, unless
\* a scan met it half-written or another upload was written over it.
THEOREM AcknowledgedStaysOnDisk == Spec => []NothingIsDestroyed
  <1>1. IngestInv => NothingIsDestroyed
    BY DEF IngestInv
  <1> QED
    BY <1>1, IngestInvariant, PTL

\* A name that carries a UUID keeps it in temp/, where it is checked before
\* every copy: no two cleaners ever work on one file.
THEOREM CleanersDoNotMeet == Spec => []OneCleanerPerPath
  <1>1. IngestInv => OneCleanerPerPath
    BY DEF IngestInv, DiskTypeOK, OncePerName, OneCleanerPerPath
  <1> QED
    BY <1>1, IngestInvariant, PTL

-----------------------------------------------------------------------------
(* Types: what the queues, the pool and the watchers hold.                 *)

FlagsInv ==
  /\ changed \in BOOLEAN /\ configured \in BOOLEAN
  /\ embedded \in [Uploads -> Nat]
  /\ faults \in 0..MaxFaults

\* What is queued or being cleaned is a copy that was made.
HeldInv ==
  /\ cleaning \subseteq Used
  /\ fileQueue \in Seq(Used) /\ Len(fileQueue) <= QueueSize
  /\ cleanQueue \in Seq(Used) /\ Len(cleanQueue) <= QueueSize

PoolInv ==
  /\ cleaners \in InitialCleaners..MaxCleaners
  /\ Cardinality(cleaning) <= cleaners

\* A finished.txt has one event when it is opened and one when it is filled,
\* and a document gets there once.
EventsInv ==
  /\ events \in [CopyIds -> 0..2]
  /\ \A k \in CopyIds :
       /\ copies[k].at \in {"none", "temp", "moved"} => events[k] = 0
       /\ copies[k].at = "opened" => events[k] <= 1

LEMMA FlagsInductive == FlagsInv /\ [Next]_vars => FlagsInv'
  <1> SUFFICES ASSUME FlagsInv, [Next]_vars
               PROVE  FlagsInv'
    OBVIOUS
  <1>1. Fault => faults' \in 0..MaxFaults
    BY DEF Fault, FlagsInv
  <1>2. ASSUME UNCHANGED <<configured, embedded>>, UNCHANGED faults \/ Fault, changed' \in BOOLEAN
        PROVE  FlagsInv'
    BY <1>1, <1>2 DEF FlagsInv
  <1>3. ASSUME NEW u \in Uploads,
               (\E f \in Files : StartUpload(u, f)) \/ FinishUpload(u) \/ UploadFails(u)
        PROVE  FlagsInv'
    <2>1. changed' \in BOOLEAN
      BY <1>3 DEF StartUpload, FinishUpload, UploadFails, FlagsInv
    <2> QED
      BY <1>2, <1>3, <2>1 DEF StartUpload, FinishUpload, UploadFails
  <1>4. CASE Scanner
    <2>1. changed' \in BOOLEAN
      BY <1>4 DEF Scanner, StartScan, EndScan, PutFile, RemoveFile, SkipFile, CopyFile, FlagsInv
    <2> QED
      BY <1>2, <1>4, <2>1 DEF Scanner, StartScan, EndScan, PutFile, RemoveFile, SkipFile, CopyFile
  <1>5. CASE Cleaner \/ SpawnCleaner \/ LeaveIdle
    BY <1>2, <1>5 DEF Cleaner, TakeFile, MoveOriginal, OpenFinished, FillFinished, SpawnCleaner,
                      LeaveIdle, FlagsInv
  <1>6. CASE \E k \in CopyIds : SeeFinished(k) \/ CleanFails(k)
    BY <1>2, <1>6 DEF SeeFinished, CleanFails, FlagsInv
  <1>7. CASE (\E f \in Files : CopyFails(f)) \/ RemoveFails \/ EmbedFails
    BY <1>2, <1>7 DEF CopyFails, RemoveFails, EmbedFails, FlagsInv
  <1>8. CASE Embed
    <2>1. /\ embedded' = embedded \/ \E u : embedded' = [embedded EXCEPT ![u] = @ + 1]
          /\ UNCHANGED <<changed, configured, faults>>
      BY <1>8 DEF Embed
    <2>2. embedded' \in [Uploads -> Nat]
      BY <2>1 DEF FlagsInv
    <2> QED
      BY <2>1, <2>2 DEF FlagsInv
  <1>9. CASE RefreshConfig \/ RefreshFails \/ Restart
    BY <1>1, <1>9 DEF RefreshConfig, RefreshFails, Restart, FlagsInv
  <1>10. CASE UNCHANGED vars
    BY <1>10 DEF vars, FlagsInv
  <1> QED
    BY <1>3, <1>4, <1>5, <1>6, <1>7, <1>8, <1>9, <1>10 DEF Next

\* No copy is ever unmade: what becomes of one takes it on.
LEMMA CopiesMoveOn ==
  ASSUME IngestInv, [Next]_vars
  PROVE  \/ UNCHANGED copies
         \/ \E k \in CopyIds : /\ k \notin Used
                               /\ \E c \in Copies : c.at = "temp" /\ copies' = [copies EXCEPT ![k] = c]
                               /\ UNCHANGED events
         \/ \E k \in CopyIds : MoveOriginal(k) \/ OpenFinished(k) \/ FillFinished(k)
  <1>1. ASSUME NEW f \in Files, NEW whole \in BOOLEAN, CopyOf(f, whole), UNCHANGED events
        PROVE  \E k \in CopyIds : /\ k \notin Used
                                  /\ \E c \in Copies : c.at = "temp" /\ copies' = [copies EXCEPT ![k] = c]
                                  /\ UNCHANGED events
    <2>1. NextCopy \in CopyIds /\ NextCopy \notin Used
      BY <1>1, NextCopyIsNew DEF CopyOf
    <2>2. source[f] \in 0..MaxUploads
      BY DEF IngestInv, DiskTypeOK
    <2> DEFINE c == [upload |-> source[f], whole |-> whole, at |-> "temp"]
    <2>3. c \in Copies /\ c.at = "temp"
      BY <2>2 DEF Copies
    <2>4. copies' = [copies EXCEPT ![NextCopy] = c]
      BY <1>1 DEF CopyOf
    <2> HIDE DEF c
    <2> QED
      BY <1>1, <2>1, <2>3, <2>4
  <1>2. CASE \E u \in Uploads : \/ \E f \in Files : StartUpload(u, f)
                                \/ FinishUpload(u) \/ UploadFails(u)
    BY <1>2 DEF StartUpload, FinishUpload, UploadFails
  <1>3. ASSUME NEW f \in Files, CopyFile(f)
        PROVE  \E whole \in BOOLEAN : CopyOf(f, whole) /\ UNCHANGED events
    BY <1>3 DEF CopyFile
  <1>4. ASSUME NEW f \in Files, CopyFails(f)
        PROVE  CopyOf(f, FALSE) /\ UNCHANGED events
    BY <1>4 DEF CopyFails
  <1>5. CASE StartScan \/ EndScan \/ PutFile \/ RemoveFile \/ \E f \in Files : SkipFile(f)
    BY <1>5 DEF StartScan, EndScan, PutFile, RemoveFile, SkipFile
  <1>6. CASE TakeFile \/ SpawnCleaner \/ LeaveIdle \/ \E k \in CopyIds : SeeFinished(k) \/ CleanFails(k)
    BY <1>6 DEF TakeFile, SpawnCleaner, LeaveIdle, SeeFinished, CleanFails
  <1>7. CASE Embed \/ RefreshConfig \/ RemoveFails \/ EmbedFails \/ RefreshFails \/ Restart
             \/ UNCHANGED vars
    BY <1>7 DEF Embed, RefreshConfig, RemoveFails, EmbedFails, RefreshFails, Restart, vars
  <1> QED
    BY <1>1, <1>2, <1>3, <1>4, <1>5, <1>6, <1>7 DEF Next, Scanner, Cleaner

LEMMA UsedGrows ==
  ASSUME IngestInv, [Next]_vars
  PROVE  Used \subseteq Used'
  <1>1. copies \in [CopyIds -> Copies]
    BY DEF IngestInv, DiskTypeOK
  <1>2. CASE UNCHANGED copies
    BY <1>2 DEF Used
  <1>3. ASSUME NEW k \in CopyIds, NEW c \in Copies, c.at = "temp", copies' = [copies EXCEPT ![k] = c]
        PROVE  Used \subseteq Used'
    BY <1>1, <1>3 DEF Used
  <1>4. ASSUME NEW k \in CopyIds, MoveOriginal(k) \/ OpenFinished(k) \/ FillFinished(k)
        PROVE  Used \subseteq Used'
    <2>1. PICK at \in {"moved", "opened", "filled"} : copies' = [copies EXCEPT ![k].at = at]
      BY <1>4 DEF MoveOriginal, OpenFinished, FillFinished
    <2>2. copies'[k].at = at /\ \A j \in CopyIds : j # k => copies'[j] = copies[j]
      BY <1>1, <2>1 DEF Copies
    <2> QED
      BY <2>2 DEF Used
  <1> QED
    BY <1>2, <1>3, <1>4, CopiesMoveOn

LEMMA QueueGrows ==
  ASSUME NEW S, NEW T, S \subseteq T, NEW q \in Seq(S)
  PROVE  q \in Seq(T)
  OBVIOUS

\* A queue takes what it is given while it has room, and gives its first.
LEMMA QueueSteps ==
  ASSUME NEW S, NEW q \in Seq(S), Len(q) <= QueueSize
  PROVE  /\ \A k \in S : Len(q) < QueueSize =>
              Append(q, k) \in Seq(S) /\ Len(Append(q, k)) <= QueueSize
         /\ q # <<>> => Head(q) \in S /\ Tail(q) \in Seq(S) /\ Len(Tail(q)) <= QueueSize
         /\ <<>> \in Seq(S) /\ Len(<<>>) <= QueueSize
  OBVIOUS

LEMMA HeldInductive ==
  ASSUME IngestInv, HeldInv, EventsInv, [Next]_vars
  PROVE  HeldInv'
  <1>1. Used \subseteq Used'
    BY UsedGrows
  <1>2. ASSUME cleaning' \subseteq Used, fileQueue' \in Seq(Used), cleanQueue' \in Seq(Used),
               Len(fileQueue') <= QueueSize, Len(cleanQueue') <= QueueSize
        PROVE  HeldInv'
    <2>1. fileQueue' \in Seq(Used') /\ cleanQueue' \in Seq(Used')
      BY <1>1, <1>2, QueueGrows
    <2> QED
      BY <1>1, <1>2, <2>1 DEF HeldInv
  <1>3. ASSUME UNCHANGED <<fileQueue, cleanQueue>>, cleaning' \subseteq cleaning
        PROVE  HeldInv'
    BY <1>2, <1>3 DEF HeldInv
  <1>4. CASE \E u \in Uploads : \/ \E f \in Files : StartUpload(u, f)
                                \/ FinishUpload(u) \/ UploadFails(u)
    BY <1>3, <1>4 DEF StartUpload, FinishUpload, UploadFails
  <1>5. CASE \/ StartScan \/ EndScan \/ RemoveFile \/ RemoveFails
             \/ \E f \in Files : SkipFile(f) \/ CopyFile(f) \/ CopyFails(f)
    BY <1>3, <1>5 DEF StartScan, EndScan, RemoveFile, RemoveFails, SkipFile, CopyFile, CopyFails
  <1>6. CASE PutFile
    <2>1. scan.copy \in Used
      BY <1>6 DEF PutFile, IngestInv, ScanHasItsCopy
    <2>2. fileQueue' \in Seq(Used) /\ Len(fileQueue') <= QueueSize
      BY <1>6, <2>1, QueueSteps DEF PutFile, HeldInv
    <2> QED
      BY <1>2, <1>6, <2>2 DEF PutFile, HeldInv
  <1>7. CASE TakeFile
    <2>1. /\ Head(fileQueue) \in Used /\ fileQueue' \in Seq(Used)
          /\ Len(fileQueue') <= QueueSize
      BY <1>7, QueueSteps DEF TakeFile, HeldInv
    <2> QED
      BY <1>2, <1>7, <2>1 DEF TakeFile, HeldInv
  <1>8. CASE \/ \E k \in CopyIds : MoveOriginal(k) \/ OpenFinished(k) \/ FillFinished(k) \/ CleanFails(k)
             \/ SpawnCleaner \/ LeaveIdle \/ RefreshConfig \/ RefreshFails
    BY <1>3, <1>8 DEF MoveOriginal, OpenFinished, FillFinished, CleanFails, SpawnCleaner, LeaveIdle,
                      RefreshConfig, RefreshFails
  <1>9. ASSUME NEW k \in CopyIds, SeeFinished(k)
        PROVE  HeldInv'
    <2>1. k \in Used
      <3>1. copies[k] \in Copies /\ events[k] > 0
        BY <1>9 DEF IngestInv, DiskTypeOK, SeeFinished
      <3> QED
        BY <3>1 DEF EventsInv, Used
    <2>2. cleanQueue' \in Seq(Used) /\ Len(cleanQueue') <= QueueSize
      <3>1. CASE Len(cleanQueue) < QueueSize
        BY <1>9, <2>1, <3>1, QueueSteps DEF SeeFinished, HeldInv
      <3>2. CASE ~(Len(cleanQueue) < QueueSize)
        BY <1>9, <3>2 DEF SeeFinished, HeldInv
      <3> QED
        BY <3>1, <3>2
    <2> QED
      BY <1>2, <1>9, <2>2 DEF SeeFinished, HeldInv
  <1>10. CASE Embed \/ EmbedFails
    <2>1. cleanQueue' \in Seq(Used) /\ Len(cleanQueue') <= QueueSize
      BY <1>10, QueueSteps DEF Embed, EmbedFails, HeldInv
    <2> QED
      BY <1>2, <1>10, <2>1 DEF Embed, EmbedFails, HeldInv
  <1>11. CASE Restart
    <2>1. cleaning' = {} /\ fileQueue' = <<>> /\ cleanQueue' = <<>>
      BY <1>11 DEF Restart
    <2> QED
      BY <1>2, <2>1, QueueSteps DEF HeldInv
  <1>12. CASE UNCHANGED vars
    BY <1>3, <1>12 DEF vars
  <1> QED
    BY <1>4, <1>5, <1>6, <1>7, <1>8, <1>9, <1>10, <1>11, <1>12 DEF Next, Scanner, Cleaner

\* A cleaner takes a file only when it is idle, and leaves only when it is.
LEMMA PoolInductive ==
  ASSUME IngestInv, PoolInv, [Next]_vars
  PROVE  PoolInv'
  <1>1. IsFiniteSet(cleaning) /\ Cardinality(cleaning) \in Nat
    <2>1. cleaning \subseteq CopyIds /\ IsFiniteSet(CopyIds)
      BY FS_Interval DEF IngestInv, DiskTypeOK, CopyIds
    <2> QED
      BY <2>1, FS_Subset, FS_CardinalityType
  <1>2. ASSUME UNCHANGED cleaners, cleaning' \subseteq cleaning
        PROVE  PoolInv'
    <2>1. IsFiniteSet(cleaning') /\ Cardinality(cleaning') <= Cardinality(cleaning)
      BY <1>1, <1>2, FS_Subset
    <2>2. Cardinality(cleaning') \in Nat
      BY <2>1, FS_CardinalityType
    <2> QED
      BY <1>1, <1>2, <2>1, <2>2 DEF PoolInv
  <1>3. CASE \E u \in Uploads : \/ \E f \in Files : StartUpload(u, f)
                                \/ FinishUpload(u) \/ UploadFails(u)
    BY <1>2, <1>3 DEF StartUpload, FinishUpload, UploadFails
  <1>4. CASE \/ StartScan \/ EndScan \/ PutFile \/ RemoveFile \/ RemoveFails
             \/ \E f \in Files : SkipFile(f) \/ CopyFile(f) \/ CopyFails(f)
    BY <1>2, <1>4 DEF StartScan, EndScan, PutFile, RemoveFile, RemoveFails, SkipFile, CopyFile,
                      CopyFails
  <1>5. CASE TakeFile
    <2>1. /\ cleaning' = cleaning \cup {Head(fileQueue)} /\ Cardinality(cleaning) < cleaners
          /\ UNCHANGED cleaners
      BY <1>5 DEF TakeFile
    <2>2. Cardinality(cleaning') \in {Cardinality(cleaning), Cardinality(cleaning) + 1}
      BY <1>1, <2>1, FS_AddElement
    <2> QED
      BY <1>1, <2>1, <2>2 DEF PoolInv
  <1>6. CASE \E k \in CopyIds : \/ MoveOriginal(k) \/ OpenFinished(k) \/ FillFinished(k)
                                \/ CleanFails(k) \/ SeeFinished(k)
    BY <1>2, <1>6 DEF MoveOriginal, OpenFinished, FillFinished, CleanFails, SeeFinished
  <1>7. CASE SpawnCleaner \/ LeaveIdle
    BY <1>1, <1>7 DEF SpawnCleaner, LeaveIdle, MayLeave, PoolInv
  <1>8. CASE Embed \/ EmbedFails \/ RefreshConfig \/ RefreshFails
    BY <1>2, <1>8 DEF Embed, EmbedFails, RefreshConfig, RefreshFails
  <1>9. CASE Restart
    <2>1. cleaning' = {} /\ cleaners' = InitialCleaners
      BY <1>9 DEF Restart
    <2> QED
      BY <2>1, FS_EmptySet DEF PoolInv
  <1>10. CASE UNCHANGED vars
    BY <1>2, <1>10 DEF vars
  <1> QED
    BY <1>3, <1>4, <1>5, <1>6, <1>7, <1>8, <1>9, <1>10 DEF Next, Scanner, Cleaner

LEMMA EventsInductive ==
  ASSUME IngestInv, EventsInv, [Next]_vars
  PROVE  EventsInv'
  <1>1. copies \in [CopyIds -> Copies] /\ events \in [CopyIds -> 0..2]
    BY DEF IngestInv, DiskTypeOK, EventsInv
  <1>2. ASSUME NEW k \in CopyIds, NEW c \in Copies, k \notin Used, c.at = "temp",
               copies' = [copies EXCEPT ![k] = c], UNCHANGED events
        PROVE  EventsInv'
    <2>1. events[k] = 0
      BY <1>2 DEF EventsInv, Used
    <2>2. \A j \in CopyIds : copies'[j] = IF j = k THEN c ELSE copies[j]
      BY <1>1, <1>2
    <2> QED
      BY <1>2, <2>1, <2>2 DEF EventsInv
  <1>3. ASSUME NEW k \in CopyIds, MoveOriginal(k) \/ OpenFinished(k) \/ FillFinished(k)
        PROVE  EventsInv'
    <2>1. PICK at \in {"moved", "opened", "filled"} :
            /\ copies' = [copies EXCEPT ![k].at = at]
            /\ at = "moved" => copies[k].at = "temp" /\ UNCHANGED events
            /\ at # "moved" => events' = [events EXCEPT ![k] = @ + 1]
            /\ at = "opened" => copies[k].at = "moved"
            /\ at = "filled" => copies[k].at = "opened"
      BY <1>3 DEF MoveOriginal, OpenFinished, FillFinished
    <2>2. copies'[k].at = at /\ \A j \in CopyIds : j # k => copies'[j] = copies[j]
      BY <1>1, <2>1 DEF Copies
    <2>3. CASE at = "moved"
      BY <2>1, <2>2, <2>3 DEF EventsInv
    <2>4. CASE at # "moved"
      <3>1. events[k] <= 1 /\ (at = "opened" => events[k] = 0)
        BY <2>1, <2>4 DEF EventsInv
      <3>2. \A j \in CopyIds : events'[j] = IF j = k THEN events[k] + 1 ELSE events[j]
        BY <1>1, <2>1, <2>4
      <3>3. events' \in [CopyIds -> 0..2]
        BY <1>1, <2>1, <2>4, <3>1
      <3> QED
        BY <2>2, <2>4, <3>1, <3>2, <3>3 DEF EventsInv
    <2> QED
      BY <2>3, <2>4
  <1>4. CASE UNCHANGED copies /\ ~\E k \in CopyIds : MoveOriginal(k) \/ OpenFinished(k) \/ FillFinished(k)
    <2>1. ASSUME events' \in [CopyIds -> 0..2], \A k \in CopyIds : events'[k] <= events[k]
          PROVE  EventsInv'
      BY <1>1, <1>4, <2>1 DEF EventsInv
    <2>2. ASSUME UNCHANGED events
          PROVE  EventsInv'
      BY <1>4, <2>2 DEF EventsInv
    <2>3. ASSUME NEW k \in CopyIds, SeeFinished(k)
          PROVE  EventsInv'
      <3>1. events' = [events EXCEPT ![k] = @ - 1] /\ events[k] > 0
        BY <2>3 DEF SeeFinished
      <3>2. events' \in [CopyIds -> 0..2] /\ \A j \in CopyIds : events'[j] <= events[j]
        BY <1>1, <3>1
      <3> QED
        BY <2>1, <3>2
    <2>4. CASE Restart
      <3>1. events' = [k \in CopyIds |-> 0]
        BY <2>4 DEF Restart
      <3>2. events' \in [CopyIds -> 0..2] /\ \A j \in CopyIds : events'[j] <= events[j]
        BY <1>1, <3>1
      <3> QED
        BY <2>1, <3>2
    <2>5. CASE \E u \in Uploads : \/ \E f \in Files : StartUpload(u, f)
                                  \/ FinishUpload(u) \/ UploadFails(u)
      BY <2>2, <2>5 DEF StartUpload, FinishUpload, UploadFails
    <2>6. CASE \/ StartScan \/ EndScan \/ PutFile \/ RemoveFile \/ RemoveFails
               \/ \E f \in Files : SkipFile(f) \/ CopyFile(f) \/ CopyFails(f)
      BY <2>2, <2>6 DEF StartScan, EndScan, PutFile, RemoveFile, RemoveFails, SkipFile, CopyFile,
                        CopyFails
    <2>7. CASE TakeFile \/ SpawnCleaner \/ LeaveIdle \/ \E k \in CopyIds : CleanFails(k)
      BY <2>2, <2>7 DEF TakeFile, SpawnCleaner, LeaveIdle, CleanFails
    <2>8. CASE Embed \/ EmbedFails \/ RefreshConfig \/ RefreshFails \/ UNCHANGED vars
      BY <2>2, <2>8 DEF Embed, EmbedFails, RefreshConfig, RefreshFails, vars
    <2> QED
      BY <1>4, <2>3, <2>4, <2>5, <2>6, <2>7, <2>8 DEF Next, Scanner, Cleaner
  <1> QED
    BY <1>2, <1>3, <1>4, CopiesMoveOn

\* What is recorded as stopped are uploads: those of files and of copies made.
LEMMA StalledInductive ==
  ASSUME IngestInv, HeldInv, EventsInv, stalled \subseteq Uploads, [Next]_vars
  PROVE  stalled' \subseteq Uploads
  <1>1. \A k \in Used : copies[k].upload \in Uploads
    BY DEF IngestInv, FilesHoldUploads
  <1>2. \A f \in Files : source[f] # 0 => source[f] \in Uploads
    BY DEF IngestInv, FilesHoldUploads
  <1>3. CASE UNCHANGED stalled
    BY <1>3
  <1>4. ASSUME NEW f \in Files, SkipFile(f) \/ CopyFails(f)
        PROVE  stalled' \subseteq Uploads
    BY <1>2, <1>4 DEF SkipFile, CopyFails, CopyOf, Lost
  <1>5. ASSUME NEW k \in CopyIds, SeeFinished(k) \/ CleanFails(k)
        PROVE  stalled' \subseteq Uploads
    <2>1. k \in Used
      <3>1. CASE CleanFails(k)
        BY <3>1 DEF CleanFails, HeldInv
      <3>2. CASE SeeFinished(k)
        <4>1. copies[k] \in Copies /\ events[k] > 0
          BY <3>2 DEF IngestInv, DiskTypeOK, SeeFinished
        <4> QED
          BY <4>1 DEF EventsInv, Used
      <3> QED
        BY <1>5, <3>1, <3>2
    <2> QED
      BY <1>1, <1>5, <2>1 DEF SeeFinished, CleanFails
  <1>6. CASE Embed \/ EmbedFails
    <2>1. Head(cleanQueue) \in Used
      BY <1>6, QueueSteps DEF Embed, EmbedFails, HeldInv
    <2> QED
      BY <1>1, <1>6, <2>1 DEF Embed, EmbedFails
  <1>7. CASE Restart
    BY <1>7 DEF Restart
  <1>8. CASE \E u \in Uploads : \/ \E f \in Files : StartUpload(u, f)
                                \/ FinishUpload(u) \/ UploadFails(u)
    BY <1>3, <1>8 DEF StartUpload, FinishUpload, UploadFails
  <1>9. CASE \/ StartScan \/ EndScan \/ PutFile \/ RemoveFile \/ RemoveFails
             \/ \E f \in Files : CopyFile(f)
    BY <1>3, <1>9 DEF StartScan, EndScan, PutFile, RemoveFile, RemoveFails, CopyFile
  <1>10. CASE \/ \E k \in CopyIds : MoveOriginal(k) \/ OpenFinished(k) \/ FillFinished(k)
              \/ TakeFile \/ SpawnCleaner \/ LeaveIdle \/ RefreshConfig \/ RefreshFails
              \/ UNCHANGED vars
    BY <1>3, <1>10 DEF MoveOriginal, OpenFinished, FillFinished, TakeFile, SpawnCleaner, LeaveIdle,
                       RefreshConfig, RefreshFails, vars
  <1> QED
    BY <1>4, <1>5, <1>6, <1>7, <1>8, <1>9, <1>10 DEF Next, Scanner, Cleaner

IngestTypes ==
  FlagsInv /\ HeldInv /\ PoolInv /\ EventsInv /\ stalled \subseteq Uploads

\* The queues keep their size and hold copies that were made, the pool stays
\* between its limits with no more files than cleaners, and a document has at
\* most the two events of its finished.txt.
THEOREM IngestTypeCorrect == Spec => []TypeOK
  <1>1. Init => IngestTypes
    <2> SUFFICES ASSUME Init
                 PROVE  IngestTypes
      OBVIOUS
    <2>1. FlagsInv
      <3>1. embedded \in [Uploads -> Nat] /\ faults \in 0..MaxFaults
        BY DEF Init
      <3>2. changed = FALSE /\ configured = FALSE
        BY DEF Init
      <3> QED
        BY <3>1, <3>2 DEF FlagsInv
    <2>2. HeldInv
      <3>1. <<>> \in Seq(Used) /\ Len(<<>>) = 0
        OBVIOUS
      <3>2. fileQueue = <<>> /\ cleanQueue = <<>> /\ cleaning = {}
        BY DEF Init
      <3> QED
        BY <3>1, <3>2 DEF HeldInv
    <2>3. PoolInv
      BY FS_EmptySet DEF Init, PoolInv
    <2>4. EventsInv
      BY DEF Init, EventsInv
    <2> QED
      BY <2>1, <2>2, <2>3, <2>4 DEF Init, IngestTypes
  <1>2. IngestInv /\ IngestTypes /\ [Next]_vars => IngestTypes'
    BY FlagsInductive, HeldInductive, PoolInductive, EventsInductive, StalledInductive
       DEF IngestTypes
  <1>3. IngestInv /\ IngestTypes => TypeOK
    <2> SUFFICES ASSUME IngestInv, IngestTypes
                 PROVE  TypeOK
      OBVIOUS
    <2>1. Used \subseteq CopyIds
      BY DEF Used
    <2>2. fileQueue \in Seq(CopyIds) /\ cleanQueue \in Seq(CopyIds)
      BY <2>1, QueueGrows DEF IngestTypes, HeldInv
    <2> QED
      BY <2>2 DEF IngestInv, DiskTypeOK, IngestTypes, FlagsInv, HeldInv, PoolInv, EventsInv, TypeOK
  <1> QED
    BY <1>1, <1>2, <1>3, IngestInvariant, PTL DEF Spec
=============================================================================
