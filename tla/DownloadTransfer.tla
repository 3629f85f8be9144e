-------------------------- MODULE DownloadTransfer --------------------------
(***************************************************************************)
(* Downloads of files, ste/xfer-remoteToLocal-file.go, in the standard     *)
(* mode: a file is written under a temporary name and renamed when it is   *)
(* complete and has been verified.                                         *)
(*                                                                         *)
(* A transfer is started by a transfer worker, which makes the initial     *)
(* checks, takes a place among the open files and the lock of the          *)
(* destination, creates the file and its writer, and schedules every       *)
(* chunk.  Chunk workers download the chunks and hand them to the writer.  *)
(* The last chunk runs the epilogue.  A transfer that cannot create its    *)
(* file runs the epilogue from the transfer worker.                        *)
(***************************************************************************)
EXTENDS ChunkedFileWriter

CONSTANTS FaultyStarts,   \* transfers whose initial checks or file creation may fail
          FaultyReads,    \* chunks whose request or body may fail
          FaultyEnds,     \* transfers whose epilogue may find a fault
          NoClobber,      \* transfers that do not overwrite what exists
          FileLimit,      \* limit of the file count limiter
          NumWorkers,     \* chunk workers
          JobMayBeCancelled

ASSUME DownloadAssumption ==
    /\ FileLimit \in Nat \ {0} /\ NumWorkers \in Nat \ {0}
    /\ JobMayBeCancelled \in BOOLEAN

VARIABLES
    xpc,        \* where each transfer is
    nextChunk,  \* chunkIndex of its scheduling loop
    chunk,      \* where each chunk is
    openFiles,  \* the file count limiter's value
    final       \* the file at each destination: its chunks

vars == <<jptmVars, writerVars, xpc, nextChunk, chunk, openFiles, final>>

Init ==
    /\ JptmInit
    /\ WriterInit
    /\ xpc = [t \in Transfers |-> "start"]
    /\ nextChunk = [t \in Transfers |-> 0]
    /\ chunk = [c \in AllChunks |-> "unscheduled"]
    /\ openFiles = 0
    /\ final = [d \in Destinations |-> NoFile]

GoTo(t, pc) == xpc' = [xpc EXCEPT ![t] = pc]
MoveChunk(c, pc) == chunk' = [chunk EXCEPT ![c] = pc]

-----------------------------------------------------------------------------
(* The starting goroutine. *)
EndsEarly(t, st) ==
    /\ SetStatus(t, st)
    /\ GoTo(t, "report")
    /\ UNCHANGED destModified

(* Until the destination is marked as modified, a transfer that cannot go  *)
(* on is reported at once.                                                 *)
InitialChecks(t) ==
    /\ xpc[t] = "start"
    /\ \/ t \in FaultyStarts /\ EndsEarly(t, "Failed")
       \/ ctxDone[t] /\ EndsEarly(t, "Cancelled")
       \/ /\ ~ctxDone[t]
          /\ t \in NoClobber /\ final[Destination[t]] # NoFile
          /\ EndsEarly(t, "Skipped")
       \/ /\ ~ctxDone[t]
          /\ t \in NoClobber => final[Destination[t]] = NoFile
          /\ destModified' = [destModified EXCEPT ![t] = TRUE]
          /\ GoTo(t, "lock")
          /\ UNCHANGED status
    /\ UNCHANGED <<ctxDone, chunksDone, timesReported, lockVars, byteVars, writerVars, nextChunk,
                   chunk, openFiles, final>>

(* WaitUntilLockDestination waits for a place among the open files, and    *)
(* gives it back when the name is taken.                                   *)
WaitUntilLockDestination(t) ==
    /\ xpc[t] = "lock"
    /\ \/ /\ openFiles < FileLimit
          /\ LockDestination(t)
          /\ openFiles' = openFiles + 1
          /\ GoTo(t, "create")
          /\ UNCHANGED status
       \/ /\ \/ openFiles < FileLimit /\ Destination[t] \in lockedDestinations
             \/ ctxDone[t]
          /\ SetStatus(t, "Failed")
          /\ GoTo(t, "epilogue")
          /\ UNCHANGED <<lockVars, openFiles>>
    /\ UNCHANGED <<ctxDone, destModified, chunksDone, timesReported, byteVars, writerVars,
                   nextChunk, chunk, final>>

(* Creates or truncates the file at the temporary name and starts its      *)
(* writer.                                                                 *)
CreateFile(t) ==
    /\ xpc[t] = "create"
    /\ \/ /\ temp' = [temp EXCEPT ![Destination[t]] = <<>>]
          /\ WorkerGoesTo(t, "select")
          /\ GoTo(t, "schedule")
          /\ UNCHANGED status
       \/ /\ t \in FaultyStarts
          /\ SetStatus(t, "Failed")
          /\ GoTo(t, "epilogue")
          /\ UNCHANGED <<wpc, temp>>
    /\ UNCHANGED <<ctxDone, destModified, chunksDone, timesReported, lockVars, byteVars,
                   channelVars, orderVars, capacityVars, nextChunk, chunk, openFiles, final>>

(* Waits for the RAM of the next chunk, and schedules the chunk even when  *)
(* the wait was cancelled.                                                 *)
ScheduleChunk(t) ==
    LET c == <<t, nextChunk[t]>>
    IN  /\ xpc[t] = "schedule"
        /\ Reserve(t) \/ (ctxDone[t] /\ UNCHANGED capacityVars)
        /\ MoveChunk(c, "queued")
        /\ nextChunk' = [nextChunk EXCEPT ![t] = @ + 1]
        /\ GoTo(t, IF nextChunk[t] + 1 = NumChunks[t] THEN "chunks" ELSE "schedule")
        /\ UNCHANGED <<jptmVars, wpc, channelVars, orderVars, temp, openFiles, final>>

-----------------------------------------------------------------------------
(* Chunk workers.  The last chunk's worker runs the epilogue. *)
InEpilogue == {"epilogue", "flush", "flushing", "flushed", "flushFailed", "verify", "checkLength",
               "rename", "complete", "succeed", "unlock", "report"}

BusyWorkers ==
    Cardinality({c \in AllChunks : chunk[c] \in {"downloading", "enqueue", "reportBytes", "count"}})
    + Cardinality({t \in Transfers : xpc[t] \in InEpilogue /\ chunksDone[t] > 0})

ChunkFrame == <<chunksDone, timesReported, lockVars, byteVars, xpc, nextChunk, openFiles, final>>

(* The prefix of every chunk function, createChunkFunc. *)
StartChunk(c) ==
    /\ chunk[c] = "queued"
    /\ BusyWorkers < NumWorkers
    /\ MoveChunk(c, IF ctxDone[c[1]] THEN "reportBytes" ELSE "downloading")
    /\ UNCHANGED <<status, ctxDone, destModified, ChunkFrame, writerVars>>

(* The request has failed; the chunk's RAM is left for Flush. *)
RequestFails(c) ==
    /\ chunk[c] = "downloading"
    /\ ctxDone[c[1]] \/ c \in FaultyReads
    /\ FailActive(c[1])
    /\ MoveChunk(c, "reportBytes")
    /\ UNCHANGED <<destModified, ChunkFrame, writerVars>>

(* EnqueueChunk reads the body... *)
ReadBody(c) ==
    /\ chunk[c] = "downloading"
    /\ \/ /\ MoveChunk(c, "enqueue")
          /\ UNCHANGED <<status, ctxDone, capacityVars>>
       \/ /\ ctxDone[c[1]] \/ c \in FaultyReads
          /\ Release(c[1], 1)
          /\ FailActive(c[1])
          /\ MoveChunk(c, "reportBytes")
    /\ UNCHANGED <<destModified, ChunkFrame, wpc, channelVars, orderVars, temp>>

(* ...and sends the chunk to the worker, unless that has stopped; when it  *)
(* can do both the select takes either.                                    *)
EnqueueChunk(c) ==
    LET t == c[1]
    IN  /\ chunk[c] = "enqueue"
        /\ \/ /\ ChannelHasRoom(t)
              /\ Enqueue(t, c[2])
              /\ UNCHANGED <<status, ctxDone, capacityVars>>
           \/ /\ WriterDone(t)
              /\ Release(t, 1)
              /\ FailActive(t)
              /\ UNCHANGED queue
        /\ MoveChunk(c, "reportBytes")
        /\ UNCHANGED <<destModified, ChunkFrame, wpc, closed, orderVars, temp>>

ReportChunkBytes(c) ==
    /\ chunk[c] = "reportBytes"
    /\ AddChunkBytes(c[1])
    /\ MoveChunk(c, "count")
    /\ UNCHANGED <<status, ctxDone, destModified, chunksDone, timesReported, lockVars, writerVars,
                   xpc, nextChunk, openFiles, final>>

ReportChunkDone(c) ==
    LET t == c[1]
    IN  /\ chunk[c] = "count"
        /\ CountChunk(t)
        /\ MoveChunk(c, "done")
        /\ IF IsLastChunk(t) THEN GoTo(t, "epilogue") ELSE UNCHANGED xpc
        /\ UNCHANGED <<status, ctxDone, destModified, timesReported, lockVars, byteVars,
                       writerVars, nextChunk, openFiles, final>>

-----------------------------------------------------------------------------
(* epilogueWithCleanupDownload. *)
EpilogueFrame == <<destModified, chunksDone, timesReported, byteVars, nextChunk, chunk>>

EnterEpilogue(t) ==
    /\ xpc[t] = "epilogue"
    /\ IF ctxDone[t] THEN SetStatus(t, "Cancelled") ELSE UNCHANGED status
    /\ GoTo(t, IF wpc[t] = "none" THEN "complete" ELSE "flush")
    /\ UNCHANGED <<ctxDone, EpilogueFrame, lockVars, writerVars, openFiles, final>>

Flush(t) ==
    /\ xpc[t] = "flush"
    /\ CloseChannel(t)
    /\ GoTo(t, "flushing")
    /\ UNCHANGED <<status, ctxDone, EpilogueFrame, lockVars, wpc, queue, orderVars,
                   capacityVars, temp, openFiles, final>>

(* Flush meets the worker at successMd5, or finds that it has stopped. *)
FlushReturns(t) ==
    /\ xpc[t] = "flushing"
    /\ \/ wpc[t] = "sendMd5" /\ WorkerGoesTo(t, "cleanup") /\ GoTo(t, "flushed")
       \/ WriterDone(t) /\ GoTo(t, "flushFailed") /\ UNCHANGED wpc
    /\ UNCHANGED <<status, ctxDone, EpilogueFrame, lockVars, channelVars, orderVars,
                   capacityVars, temp, openFiles, final>>

(* The rest of Flush, and closing the file. *)
CloseFile(t) ==
    /\ xpc[t] \in {"flushed", "flushFailed"}
    /\ ReleaseCapacity(t)
    /\ \/ /\ xpc[t] = "flushFailed" \/ t \in FaultyEnds
          /\ FailActive(t)
       \/ /\ xpc[t] = "flushed"
          /\ UNCHANGED <<status, ctxDone>>
    /\ GoTo(t, "verify")
    /\ UNCHANGED <<EpilogueFrame, lockVars, wpc, channelVars, orderVars, temp, openFiles, final>>

VerifyFrame == <<EpilogueFrame, lockVars, wpc, channelVars, orderVars, capacityVars, openFiles>>

(* Once live here, a transfer whose hash is right is renamed, even when it *)
(* is cancelled meanwhile or its length could not be checked.              *)
CheckMd5(t) ==
    /\ xpc[t] = "verify"
    /\ \/ IsDead(t) /\ GoTo(t, "complete") /\ UNCHANGED <<status, ctxDone>>
       \/ ~IsDead(t) /\ t \in FaultyEnds /\ FailActive(t) /\ GoTo(t, "complete")
       \/ ~IsDead(t) /\ GoTo(t, "checkLength") /\ UNCHANGED <<status, ctxDone>>
    /\ UNCHANGED <<VerifyFrame, temp, final>>

CheckLength(t) ==
    /\ xpc[t] = "checkLength"
    /\ (t \in FaultyEnds /\ FailActive(t)) \/ UNCHANGED <<status, ctxDone>>
    /\ GoTo(t, "rename")
    /\ UNCHANGED <<VerifyFrame, temp, final>>

MutRename(t) ==  \* goes on when it could not rename
    LET d == Destination[t]
    IN  /\ xpc[t] = "rename"
        /\ \/ /\ final' = [final EXCEPT ![d] = temp[d]]
              /\ temp' = [temp EXCEPT ![d] = NoFile]
           \/ /\ t \in FaultyEnds
              /\ UNCHANGED <<temp, final>>
        /\ GoTo(t, "complete")
        /\ UNCHANGED <<status, ctxDone, VerifyFrame>>

Rename(t) ==
    LET d == Destination[t]
    IN  /\ xpc[t] = "rename"
        /\ \/ /\ temp[d] # NoFile
              /\ final' = [final EXCEPT ![d] = temp[d]]
              /\ temp' = [temp EXCEPT ![d] = NoFile]
              /\ UNCHANGED <<status, ctxDone>>
           \/ /\ temp[d] = NoFile \/ t \in FaultyEnds
              /\ FailActive(t)
              /\ UNCHANGED <<temp, final>>
        /\ GoTo(t, "complete")
        /\ UNCHANGED VerifyFrame

MutComplete(t) ==  \* deletes whether or not the lock is held
    /\ xpc[t] = "complete"
    /\ IF IsDead(t)
       THEN /\ temp' = [temp EXCEPT ![Destination[t]] = IF destModified[t] THEN NoFile ELSE @]
            /\ GoTo(t, "unlock")
       ELSE GoTo(t, "succeed") /\ UNCHANGED temp
    /\ UNCHANGED <<status, ctxDone, VerifyFrame, final>>

(* commonDownloaderCompletion: a dead transfer deletes its temporary file  *)
(* if it has the lock...                                                   *)
Complete(t) ==
    /\ xpc[t] = "complete"
    /\ IF IsDead(t)
       THEN /\ temp' = IF IsDeadInflight(t) /\ lockHeld[t]
                       THEN [temp EXCEPT ![Destination[t]] = NoFile]
                       ELSE temp
            /\ GoTo(t, "unlock")
       ELSE GoTo(t, "succeed") /\ UNCHANGED temp
    /\ UNCHANGED <<status, ctxDone, VerifyFrame, final>>

(* ...and one that is not dead has succeeded.  Whether it is dead is       *)
(* looked at again, and the process panics if it is.                       *)
Succeed(t) ==
    /\ xpc[t] = "succeed"
    /\ IF IsDead(t) THEN GoTo(t, "panicked") /\ UNCHANGED status
                    ELSE GoTo(t, "unlock") /\ SetStatus(t, "Success")
    /\ UNCHANGED <<ctxDone, VerifyFrame, temp, final>>

MutUnlockKeepsPlace(t) ==  \* among the open files
    /\ xpc[t] = "unlock"
    /\ EnsureDestinationUnlocked(t)
    /\ GoTo(t, "report")
    /\ UNCHANGED <<status, ctxDone, EpilogueFrame, writerVars, openFiles, final>>

Unlock(t) ==
    /\ xpc[t] = "unlock"
    /\ EnsureDestinationUnlocked(t)
    /\ openFiles' = IF lockHeld[t] THEN openFiles - 1 ELSE openFiles
    /\ GoTo(t, "report")
    /\ UNCHANGED <<status, ctxDone, EpilogueFrame, writerVars, final>>

Report(t) ==
    /\ xpc[t] = "report"
    /\ ReportTransferDone(t)
    /\ SubtractBytes(t)
    /\ GoTo(t, "done")
    /\ UNCHANGED <<status, destModified, chunksDone, lockVars, successfulBytes, writerVars,
                   nextChunk, chunk, openFiles, final>>

CancelJob ==
    /\ JobMayBeCancelled
    /\ \E t \in Transfers : ~ctxDone[t]
    /\ CancelContexts
    /\ UNCHANGED <<status, EpilogueFrame, lockVars, writerVars, xpc, openFiles, final>>

-----------------------------------------------------------------------------
TransferStep(t) ==
    \/ InitialChecks(t) \/ WaitUntilLockDestination(t) \/ CreateFile(t) \/ ScheduleChunk(t)
    \/ EnterEpilogue(t) \/ Flush(t) \/ FlushReturns(t) \/ CloseFile(t) \/ CheckMd5(t)
    \/ CheckLength(t) \/ Rename(t) \/ Complete(t) \/ Succeed(t) \/ Unlock(t) \/ Report(t)

ChunkStep(c) ==
    \/ StartChunk(c) \/ RequestFails(c) \/ ReadBody(c) \/ EnqueueChunk(c)
    \/ ReportChunkBytes(c) \/ ReportChunkDone(c)

WriterStep(t) ==
    /\ WorkerStep(t)
    /\ UNCHANGED <<jptmVars, xpc, nextChunk, chunk, openFiles, final>>

Panicked == \E t \in Transfers : xpc[t] = "panicked"

Next ==
    /\ ~Panicked
    /\ \/ \E t \in Transfers : TransferStep(t) \/ WriterStep(t)
       \/ \E c \in AllChunks : ChunkStep(c)
       \/ CancelJob

(* Every goroutine goes on, and a request is answered in the end.  Nobody  *)
(* has to cancel.                                                          *)
Fairness ==
    /\ \A t \in Transfers : WF_vars(~Panicked /\ TransferStep(t))
                            /\ WF_vars(~Panicked /\ WriterStep(t))
    /\ \A c \in AllChunks : WF_vars(~Panicked /\ ChunkStep(c))

Spec == Init /\ [][Next]_vars /\ Fairness

-----------------------------------------------------------------------------
TypeOK ==
    /\ status \in [Transfers -> Unsettled \cup {"Success", "Failed", "Cancelled", "Skipped"}]
    /\ ctxDone \in [Transfers -> BOOLEAN] /\ destModified \in [Transfers -> BOOLEAN]
    /\ lockHeld \in [Transfers -> BOOLEAN] /\ lockedDestinations \subseteq Destinations
    /\ chunksDone \in [Transfers -> Nat] /\ successfulBytes \in [Transfers -> Nat]
    /\ timesReported \in [Transfers -> Nat] /\ bytesInActiveFiles \in Int
    /\ wpc \in [Transfers -> {"none", "select", "process", "save", "sendMd5", "cleanup", "exited"}]
    /\ \A t \in Transfers : queue[t] \in Seq(Chunk(t)) /\ unsaved[t] \subseteq Chunk(t)
    /\ closed \in [Transfers -> BOOLEAN] /\ nextToSave \in [Transfers -> Nat]
    /\ reserved \in [Transfers -> Int] /\ ram \in Int /\ ram <= RamLimit
    /\ temp \in [Destinations -> Seq(AllChunks) \cup {NoFile}]
    /\ final \in [Destinations -> Seq(AllChunks) \cup {NoFile}]
    /\ xpc \in [Transfers -> {"start", "lock", "create", "schedule", "chunks", "done", "panicked"}
                              \cup InEpilogue]
    /\ nextChunk \in [Transfers -> Nat]
    /\ chunk \in [AllChunks -> {"unscheduled", "queued", "downloading", "enqueue", "reportBytes",
                                 "count", "done"}]
    /\ openFiles \in 0..FileLimit

AllDone == \A t \in Transfers : xpc[t] = "done"
IsOneOf(f, ts) == \E t \in ts : f = [i \in 1..NumChunks[t] |-> <<t, i - 1>>]
WritersTo(d) == {t \in Transfers : Destination[t] = d}

(* A file under its final name is the whole of one source, its chunks in   *)
(* order: however the chunks arrived, nothing incomplete is renamed, and   *)
(* transfers to one name are never "MIXED TOGETHER in the one file"        *)
(* (WaitUntilLockDestination).                                             *)
FinalFilesAreWhole ==
    \A d \in Destinations : final[d] # NoFile => IsOneOf(final[d], WritersTo(d))

(* A transfer is only reported as successful when its file is there, or    *)
(* that of another one to the same name.                                   *)
SuccessMeansDelivered ==
    \A t \in Transfers :
        status[t] = "Success" => IsOneOf(final[Destination[t]], WritersTo(Destination[t]))

(* The files of a destination change only while a transfer holds its lock: *)
(* the losers of the lock run the same epilogue and must not delete the    *)
(* winner's file.                                                          *)
FilesChangeUnderTheirLock ==
    [][\A d \in Destinations :
          (temp[d] # NoFile /\ temp'[d] = NoFile) \/ final'[d] # final[d] =>
              \E t \in WritersTo(d) : lockHeld[t] /\ xpc'[t] # xpc[t]]_vars

(* When all transfers are over no temporary file, lock, open-file place or *)
(* reserved RAM is left, wherever each of them failed or was cancelled.    *)
NothingIsLeftBehind ==
    /\ TypeOK
    /\ AllDone =>
         /\ \A d \in Destinations : temp[d] = NoFile
         /\ lockedDestinations = {} /\ openFiles = 0
         /\ (\A t \in Transfers : wpc[t] \in {"none", "exited"}) => ram <= 0

(* The RAM taken from the limiter is that of the chunks that are scheduled *)
(* and not yet saved, as long as nothing fails or is cancelled.            *)
IsSaved(c) ==
    LET t == c[1] IN IF wpc[t] = "save" THEN c[2] < nextToSave[t] - 1 ELSE c[2] < nextToSave[t]

RamIsOfUnsavedChunks ==
    ram = Cardinality({c \in AllChunks : chunk[c] # "unscheduled" /\ ~IsSaved(c)})

(* Every transfer is reported in the end: the writer never waits for RAM   *)
(* that only its own later chunks can give back, a place among the open    *)
(* files comes free, and Flush always finds the worker.                    *)
EveryDownloadIsReported == <>AllDone
=============================================================================
