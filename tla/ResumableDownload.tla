------------------------- MODULE ResumableDownload -------------------------
(***************************************************************************)
(* Resumable downloads: one large file that is downloaded over HTTP by a   *)
(* job which can be killed, cancelled or fail, and be resumed by a new     *)
(* process.  ste/xfer-remoteToLocal-file.go keeps the data in a temporary  *)
(* file, written at random places by common/randomAccessFileWriter.go, and *)
(* the state of each chunk in a memory-mapped progress file,               *)
(* ste/chunkProgressFile.go; ste/downloader-http.go makes the requests.    *)
(*                                                                         *)
(* What is on the disk outlives a process, what a process keeps in memory  *)
(* does not.  A killed process leaves all it wrote; a power failure may    *)
(* take back what was never synchronised.                                  *)
(*                                                                         *)
(* The content of a chunk is the version of the source it was read from,   *)
(* and so is its hash.  The progress file also keeps the size, the time    *)
(* and the hash of the source, but compares them on resume with those of   *)
(* the same plan file: they never differ, and a change of the source goes  *)
(* unnoticed.  The requests of one process carry the entity tag of its     *)
(* first one and all see the same version.                                 *)
(***************************************************************************)
EXTENDS Integers, FiniteSets

CONSTANTS Chunks,          \* their numbers, from 0
          Versions,        \* versions of the source
          MaxRuns,         \* bound: processes that work at the job
          NoFile,          \* a file that is not there
          TornMarks        \* a process may die inside MarkChunkComplete

Hole == "hole"             \* what a chunk holds before it is written
NoMd5 == "zero"

Contents == [Chunks -> Versions \cup {Hole}]
Marks == [Chunks -> [done : BOOLEAN, md5 : Versions \cup {NoMd5}]]

ASSUME ResumableAssumption ==
    /\ MaxRuns \in Nat \ {0}
    /\ IsFiniteSet(Chunks) /\ Chunks # {} /\ Chunks = 0 .. Cardinality(Chunks) - 1
    /\ Versions # {} /\ Hole \notin Versions /\ NoMd5 \notin Versions
    /\ NoFile \notin Contents \cup Marks
    /\ TornMarks \in BOOLEAN

VARIABLES
    sourceHasMd5, \* the plan knows the hash of the source; never changes
    source,       \* the version that is in the source now
    runs,         \* processes so far
    status,       \* the transfer's status in the plan file
    temp,         \* the temporary file: the content of each chunk
    final,        \* the file at the destination
    progress,     \* the progress file: status and hash of each chunk
    synced,       \* the progress file as last synchronised
    pc,           \* where the transfer is
    mode,         \* whether useResumableDownload
    ctxDone,      \* the transfer's context is cancelled
    pending,      \* pendingChunks; empty stands for nil
    nextChunk,    \* chunkIndex of the scheduling loop
    chunk,        \* where each chunk of this process is
    reports       \* calls of ReportTransferDone in this process

diskVars == <<temp, final, progress, synced>>
planVars == <<sourceHasMd5, source, runs, status>>
rdVars == <<sourceHasMd5, source, runs, status, temp, final, progress, synced,
          pc, mode, ctxDone, pending, nextChunk, chunk, reports>>

ChunkCount == Cardinality(Chunks)
NewEntry == [done |-> FALSE, md5 |-> NoMd5]
NewProgress == [c \in Chunks |-> NewEntry]
Empty == [c \in Chunks |-> Hole]
Whole(v) == [c \in Chunks |-> v]

(* The version that was there when the plan was written. *)
PlanVersion == CHOOSE v \in Versions : TRUE

RDInit ==
    /\ sourceHasMd5 \in BOOLEAN /\ source = PlanVersion /\ runs = 0 /\ status = "Started"
    /\ temp = NoFile /\ final = NoFile /\ progress = NoFile /\ synced = NoFile
    /\ pc = "down" /\ mode = "standard" /\ ctxDone = FALSE
    /\ pending = {} /\ nextChunk = 0 /\ reports = 0
    /\ chunk = [c \in Chunks |-> "idle"]

-----------------------------------------------------------------------------
(* Status, as in the transfer manager. *)
Dead == ctxDone \/ status \in {"Failed", "Cancelled"}

(* SetStatus does not replace a final status. *)
SetStatus(st) == status' = IF status = "Started" THEN st ELSE status

FailActiveDownload ==
    /\ IF Dead THEN UNCHANGED status ELSE SetStatus("Failed")
    /\ ctxDone' = TRUE

ChunksDone == Cardinality({c \in Chunks : chunk[c] = "done"})

-----------------------------------------------------------------------------
(* A process, the first or one of jobs resume, starts the transfer; what   *)
(* failed or was cancelled is marked as started again.                     *)
StartProcess ==
    /\ pc \in {"down", "over"}
    /\ status # "Success" /\ runs < MaxRuns
    /\ runs' = runs + 1
    /\ status' = "Started"
    /\ source' \in Versions
    /\ pc' = "create" /\ mode' = "standard" /\ ctxDone' = FALSE
    /\ pending' = {} /\ nextChunk' = 0 /\ reports' = 0
    /\ chunk' = [c \in Chunks |-> "idle"]
    /\ UNCHANGED <<sourceHasMd5, diskVars>>

(* createDestinationFile creates the file or truncates the one that is     *)
(* there, before anything looks at the progress.                           *)
CreateDestinationFile ==
    /\ pc = "create"
    /\ \/ temp' = Empty /\ pc' = "prologue" /\ UNCHANGED status
       \/ SetStatus("Failed") /\ pc' = "complete" /\ UNCHANGED temp
    /\ UNCHANGED <<sourceHasMd5, source, runs, final, progress, synced, mode, ctxDone, pending, nextChunk,
                   chunk, reports>>

(* The prologue asks for the capabilities of the server.  When it cannot   *)
(* get them, or the length is wrong, it reports the transfer, and the      *)
(* transfer goes on all the same; a reported transfer is cancelled.        *)
Prologue ==
    /\ pc = "prologue"
    /\ mode' \in {"standard", "resumable"}
    /\ \/ UNCHANGED <<status, ctxDone, reports>>
       \/ /\ SetStatus("Failed") /\ ctxDone' = TRUE /\ reports' = reports + 1
    /\ pc' = IF mode' = "standard" THEN "schedule" ELSE "open"
    /\ UNCHANGED <<sourceHasMd5, source, runs, diskVars, pending, nextChunk, chunk>>

GetPendingChunks == {c \in Chunks : ~progress[c].done}

(* A progress file that cannot be opened, or locked in time, counts as     *)
(* none.                                                                   *)
OpenChunkProgressFile ==
    /\ pc = "open"
    /\ \/ /\ progress # NoFile
          /\ pending' = GetPendingChunks
          /\ synced' = progress
          /\ pc' = "reopen"
       \/ pc' = "fresh" /\ UNCHANGED <<pending, synced>>
    /\ UNCHANGED <<planVars, temp, final, progress, mode, ctxDone, nextChunk, chunk, reports>>

MutVerify ==  \* forgets to add what does not match
    /\ pc = "reopen"
    /\ \/ pc' = "schedule" /\ UNCHANGED <<pending, mode>>
       \/ mode' = "standard" /\ pc' = "schedule" /\ UNCHANGED pending
    /\ UNCHANGED <<planVars, diskVars, ctxDone, nextChunk, chunk, reports>>

(* A mark that has no hash is believed. *)
VerifyChunkIntegrity(c) == progress[c].md5 \in {NoMd5, temp[c]}

(* The chunks that are marked and hold other data than was marked will be  *)
(* downloaded again.  When the file cannot be opened the progress file is  *)
(* closed, not deleted, and the standard mode takes over.                  *)
VerifyCompletedChunks ==
    /\ pc = "reopen"
    /\ \/ /\ pending' = pending \cup {c \in Chunks : progress[c].done /\ ~VerifyChunkIntegrity(c)}
          /\ UNCHANGED mode
       \/ mode' = "standard" /\ UNCHANGED pending
    /\ pc' = "schedule"
    /\ UNCHANGED <<planVars, diskVars, ctxDone, nextChunk, chunk, reports>>

(* Creates, or truncates, the progress file and the temporary file.  A     *)
(* progress file that was truncated but could not be locked or mapped      *)
(* stays, with no chunk done.                                              *)
CreateChunkProgressFile ==
    /\ pc = "fresh"
    /\ \/ /\ progress' = NewProgress /\ temp' = Empty
          /\ UNCHANGED mode
       \/ /\ mode' = "standard" /\ progress' \in {progress, NewProgress, NoFile}
          /\ UNCHANGED temp
    /\ synced' = NoFile
    /\ pc' = "schedule"
    /\ UNCHANGED <<planVars, final, ctxDone, pending, nextChunk, chunk, reports>>

(* A chunk that needs no download is counted by the scheduling goroutine;  *)
(* when it is the last one, the epilogue runs there too.                   *)
ScheduleChunk ==
    LET skip == mode = "resumable" /\ pending # {} /\ nextChunk \notin pending
    IN  /\ pc = "schedule"
        /\ chunk' = [chunk EXCEPT ![nextChunk] = IF skip THEN "done" ELSE "queued"]
        /\ nextChunk' = nextChunk + 1
        /\ pc' = IF nextChunk + 1 < ChunkCount THEN "schedule"
                 ELSE IF skip /\ ChunksDone = ChunkCount - 1 THEN "epilogue" ELSE "chunks"
        /\ UNCHANGED <<planVars, diskVars, mode, ctxDone, pending, reports>>

-----------------------------------------------------------------------------
(* Chunk workers. *)
MoveChunk(c, where) == chunk' = [chunk EXCEPT ![c] = where]

(* The request, the body and, when the transfer lives, WriteChunk; a       *)
(* request that keeps failing after its retries fails the transfer.        *)
DownloadChunk(c) ==
    /\ chunk[c] = "queued"
    /\ \/ /\ ~ctxDone
          /\ temp' = [temp EXCEPT ![c] = source]
          /\ MoveChunk(c, IF mode = "resumable" THEN "mark" ELSE "count")
          /\ UNCHANGED <<status, ctxDone>>
       \/ /\ IF ctxDone THEN UNCHANGED <<status, ctxDone>> ELSE FailActiveDownload
          /\ MoveChunk(c, "count")
          /\ UNCHANGED temp
    /\ UNCHANGED <<sourceHasMd5, source, runs, final, progress, synced, pc, mode, pending,
                   nextChunk, reports>>

(* MarkChunkComplete stores the status before it copies the hash. *)
MarkStatus(c) ==
    /\ chunk[c] = "mark"
    /\ progress' = [progress EXCEPT ![c].done = TRUE]
    /\ MoveChunk(c, "markMd5")
    /\ UNCHANGED <<planVars, temp, final, synced, pc, mode, ctxDone, pending, nextChunk,
                   reports>>

MarkMd5(c) ==
    /\ chunk[c] = "markMd5"
    /\ progress' = [progress EXCEPT ![c].md5 = temp[c]]
    /\ MoveChunk(c, "count")
    /\ UNCHANGED <<planVars, temp, final, synced, pc, mode, ctxDone, pending, nextChunk,
                   reports>>

MutReportChunkDone(c) ==  \* counts the others only
    /\ chunk[c] = "count"
    /\ MoveChunk(c, "done")
    /\ pc' = IF ChunksDone = ChunkCount THEN "epilogue" ELSE pc
    /\ UNCHANGED <<planVars, diskVars, mode, ctxDone, pending, nextChunk, reports>>

ReportChunkDone(c) ==
    /\ chunk[c] = "count"
    /\ MoveChunk(c, "done")
    /\ pc' = IF ChunksDone = ChunkCount - 1 THEN "epilogue" ELSE pc
    /\ UNCHANGED <<planVars, diskVars, mode, ctxDone, pending, nextChunk, reports>>

-----------------------------------------------------------------------------
(* The epilogues, which differ in how they close the file. *)
EpilogueFrame == <<sourceHasMd5, source, runs, mode, pending, nextChunk, chunk>>

EnterEpilogue ==
    /\ pc = "epilogue"
    /\ IF ctxDone THEN SetStatus("Cancelled") ELSE UNCHANGED status
    /\ pc' = "finalize"
    /\ UNCHANGED <<EpilogueFrame, diskVars, ctxDone, reports>>

(* Hashes, synchronises and closes the file, even of a transfer that has   *)
(* failed, and compares the hash of a live one with the plan's.            *)
FinalizeFile ==
    /\ pc = "finalize"
    /\ \/ FailActiveDownload
       \/ /\ ~Dead /\ sourceHasMd5 => temp = Whole(PlanVersion)
          /\ UNCHANGED <<status, ctxDone>>
    /\ pc' = IF Dead \/ ctxDone' THEN "complete" ELSE "rename"
    /\ UNCHANGED <<EpilogueFrame, diskVars, reports>>

Rename ==
    /\ pc = "rename"
    /\ \/ /\ final' = temp /\ temp' = NoFile
          /\ pc' = "delete"
          /\ UNCHANGED <<status, ctxDone>>
       \/ FailActiveDownload /\ pc' = "complete" /\ UNCHANGED <<temp, final>>
       \/ Dead /\ pc' = "complete" /\ UNCHANGED <<temp, final, status, ctxDone>>
    /\ UNCHANGED <<EpilogueFrame, progress, synced, reports>>

(* After the rename of the resumable mode. *)
DeleteProgress ==
    /\ pc = "delete"
    /\ progress' = IF mode = "resumable" THEN NoFile ELSE progress
    /\ pc' = "complete"
    /\ UNCHANGED <<EpilogueFrame, status, ctxDone, temp, final, synced, reports>>

MutComplete ==  \* deletes the data of every transfer that is dead
    /\ pc = "complete"
    /\ IF Dead THEN /\ temp' = NoFile
                    /\ UNCHANGED status
               ELSE status' = "Success" /\ UNCHANGED temp
    /\ pc' = "report"
    /\ UNCHANGED <<EpilogueFrame, ctxDone, final, progress, synced, reports>>

(* commonDownloaderCompletion: a dead transfer loses its data unless a     *)
(* progress file is there.                                                 *)
Complete ==
    /\ pc = "complete"
    /\ IF Dead
       THEN /\ temp' = IF progress = NoFile THEN NoFile ELSE temp
            /\ UNCHANGED status
       ELSE status' = "Success" /\ UNCHANGED temp
    /\ pc' = "report"
    /\ UNCHANGED <<EpilogueFrame, ctxDone, final, progress, synced, reports>>

(* ReportTransferDone panics when the transfer was reported before. *)
Report ==
    /\ pc = "report"
    /\ pc' = IF reports = 0 THEN "over" ELSE "down"
    /\ ctxDone' = TRUE
    /\ reports' = reports + 1
    /\ synced' = progress
    /\ UNCHANGED <<EpilogueFrame, status, temp, final, progress>>

-----------------------------------------------------------------------------
Cancel ==
    /\ pc \notin {"down", "over"} /\ ~ctxDone
    /\ ctxDone' = TRUE
    /\ UNCHANGED <<planVars, diskVars, pc, mode, pending, nextChunk, chunk, reports>>

MayDie ==
    /\ pc \notin {"down", "over"}
    /\ TornMarks \/ \A c \in Chunks : chunk[c] # "markMd5"

Dies ==
    /\ pc' = "down"
    /\ nextChunk' = 0 /\ chunk' = [c \in Chunks |-> "idle"]

(* The process is killed: what it wrote is kept. *)
Kill ==
    /\ MayDie
    /\ Dies
    /\ UNCHANGED <<planVars, diskVars, mode, ctxDone, pending, reports>>

(* The machine goes down in the resumable mode: what FinalizeFile has not  *)
(* synchronised may be lost, and each entry of the progress file is an old *)
(* or a new one.                                                           *)
PowerFailure ==
    /\ MayDie /\ mode = "resumable"
    /\ Dies
    /\ temp' \in IF temp = NoFile THEN {temp}
                ELSE {[c \in Chunks |-> IF c \in lost THEN Hole ELSE temp[c]] : lost \in SUBSET Chunks}
    /\ progress' \in
         IF progress = NoFile \/ pc \in {"complete", "report"} THEN {progress}
         ELSE LET old == IF synced = NoFile THEN NewProgress ELSE synced
              IN  {[c \in Chunks |-> IF c \in lost THEN old[c] ELSE progress[c]] : lost \in SUBSET Chunks}
                  \cup (IF synced = NoFile THEN {NoFile} ELSE {})
    /\ UNCHANGED <<planVars, final, synced, mode, ctxDone, pending, reports>>

-----------------------------------------------------------------------------
ChunkStep == \E c \in Chunks : DownloadChunk(c) \/ MarkStatus(c) \/ MarkMd5(c) \/ ReportChunkDone(c)

DownloadStep ==
    \/ CreateDestinationFile \/ Prologue \/ OpenChunkProgressFile \/ VerifyCompletedChunks
    \/ CreateChunkProgressFile \/ ScheduleChunk
    \/ EnterEpilogue \/ FinalizeFile \/ Rename \/ DeleteProgress \/ Complete \/ Report

RDNext == StartProcess \/ DownloadStep \/ ChunkStep \/ Cancel \/ Kill \/ PowerFailure

(* The goroutine that runs the transfer and the chunk workers keep going;  *)
(* nobody has to resume, to cancel or to kill.                             *)
RDSpec == RDInit /\ [][RDNext]_rdVars /\ WF_rdVars(DownloadStep) /\ WF_rdVars(ChunkStep)

-----------------------------------------------------------------------------
RDTypeOK ==
    /\ sourceHasMd5 \in BOOLEAN /\ source \in Versions /\ runs \in 0 .. MaxRuns
    /\ status \in {"Started", "Success", "Failed", "Cancelled"}
    /\ temp \in Contents \cup {NoFile} /\ final \in Contents \cup {NoFile}
    /\ progress \in Marks \cup {NoFile} /\ synced \in Marks \cup {NoFile}
    /\ pc \in {"down", "over", "create", "prologue", "open", "reopen", "fresh", "schedule",
               "chunks", "epilogue", "finalize", "rename", "delete", "complete", "report"}
    /\ mode \in {"standard", "resumable"} /\ ctxDone \in BOOLEAN
    /\ pending \subseteq Chunks /\ nextChunk \in 0 .. ChunkCount /\ reports \in 0 .. 2
    /\ chunk \in [Chunks -> {"idle", "queued", "mark", "markMd5", "count", "done"}]
    /\ nextChunk = Cardinality({c \in Chunks : chunk[c] # "idle"})

(* What gets the name of the destination is the whole of one version of    *)
(* the source, though chunks that are marked are not downloaded again, the *)
(* source may change between two processes, and each of them may die at    *)
(* any step.                                                               *)
FinalFilesAreWhole == final # NoFile => \E v \in Versions : final = Whole(v)

(* A success means that the file is there and is the version that the      *)
(* process which reports it has found: no chunk of an earlier process with *)
(* another version has survived.                                           *)
SuccessMeansDelivered == status = "Success" => final = Whole(source)

(* When the plan knows the hash of the source, success means that version, *)
(* however many processes have put it together.                            *)
PlanHashIsHonoured == status = "Success" /\ sourceHasMd5 => final = Whole(PlanVersion)

(* A process that ends in its regular way leaves no partial file that no   *)
(* later one could take up: not when it fails or is cancelled, and not     *)
(* after a success, which has used up the progress too.                    *)
NoOrphans ==
    pc = "over" =>
        /\ temp # NoFile => status # "Success" /\ progress # NoFile
        /\ status = "Success" /\ mode = "resumable" => progress = NoFile

(* The data of a download that has progress to go on from is given up in   *)
(* no other way than by becoming the file at the destination.              *)
PartialIsKept ==
    [][temp # NoFile /\ temp' = NoFile => final' = temp \/ progress = NoFile]_rdVars

(* Every process that starts the transfer comes to its end, or dies: the   *)
(* chunks that are skipped, that fail and that come too late are all       *)
(* counted.                                                                *)
EveryStartEnds == []<>(pc \in {"over", "down"})

(* Whatever happens to the processes that work on a download, what is      *)
(* delivered is whole and new, and nothing is left that no later process   *)
(* could take up.                                                          *)
DownloadInv ==
    /\ RDTypeOK
    /\ FinalFilesAreWhole
    /\ SuccessMeansDelivered
    /\ PlanHashIsHonoured
    /\ NoOrphans
=============================================================================
