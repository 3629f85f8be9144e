---------------------------- MODULE SendTransfer ----------------------------
(***************************************************************************)
(* Uploads and service-to-service copies of files,                         *)
(* ste/xfer-anyToRemote-file.go, to block blobs.                           *)
(*                                                                         *)
(* A transfer is started by a transfer worker, which makes the initial     *)
(* checks, locks the destination, and schedules every chunk, even when one *)
(* has already failed, because the last chunk that reports runs the        *)
(* epilogue.  For a local source the starting goroutine reads each chunk   *)
(* into RAM before it is scheduled (common/singleChunkReader.go); the      *)
(* limiter all transfers share makes it wait.  Chunk workers then send the *)
(* chunks, in any order.                                                   *)
(*                                                                         *)
(* The service is external: a blob has a committed content and uncommitted *)
(* blocks, and a commit discards the blocks it does not name.              *)
(***************************************************************************)
EXTENDS TransferManager

CONSTANTS LocalSources,   \* transfers that are uploads
          DeletesFirst,   \* transfers that delete a destination with uncommitted blocks
          FaultyStarts,   \* transfers whose initial checks may fail
          FaultyReads,    \* chunks whose prefetch may fail
          FaultySends,    \* chunks whose request may fail
          FaultyEnds,     \* transfers whose epilogue may find a fault
          NoClobber,      \* transfers that do not overwrite what exists
          NumWorkers,     \* chunk workers
          RamLimit,       \* limit of the cache limiter, in chunks
          MaxRetries,     \* bound: retries of one request by the SDK
          JobMayBeCancelled,
          NoOne           \* content of a destination no transfer wrote

ASSUME SendAssumption ==
    /\ LocalSources \subseteq Transfers
    /\ NumWorkers \in Nat \ {0} /\ RamLimit \in Nat \ {0} /\ MaxRetries \in Nat
    /\ (RamLimit * 3) \div 4 > 0
    /\ JobMayBeCancelled \in BOOLEAN
    /\ NoOne \notin Transfers

VARIABLES
    xpc,          \* where each transfer is
    nextChunk,    \* chunkIDCount of its scheduling loop
    prefetchErr,  \* its prefetchErr # nil
    lastReader,   \* the chunk of its chunkReader, -1 while it has none
    chunk,        \* where each chunk is
    buffer,       \* its reader holds the data in RAM
    retries,      \* retries of its request so far
    ram,          \* the cache limiter's value
    \* the sender of each transfer
    completedBlocks,  \* completedBlockList: blocks found uncommitted at a restart
    blockIds,         \* chunks whose block has been named
    chunksWritten,    \* atomicChunksWritten
    \* the service
    blocks,           \* uncommitted blocks at each destination
    content,          \* who wrote the committed content of each destination
    commits           \* transfers whose content has been committed

schedVars == <<nextChunk, prefetchErr, lastReader>>
ramVars == <<buffer, ram>>
senderVars == <<completedBlocks, blockIds, chunksWritten>>
serviceVars == <<blocks, content, commits>>
remoteVars == <<senderVars, serviceVars>>
vars == <<jptmVars, xpc, schedVars, chunk, ramVars, retries, remoteVars>>

StrictLimit == (RamLimit * 3) \div 4

Init ==
    /\ JptmInit
    /\ xpc = [t \in Transfers |-> "start"]
    /\ nextChunk = [t \in Transfers |-> 0]
    /\ prefetchErr = [t \in Transfers |-> FALSE]
    /\ lastReader = [t \in Transfers |-> -1]
    /\ chunk = [c \in AllChunks |-> "unscheduled"]
    /\ buffer = [c \in AllChunks |-> FALSE]
    /\ retries = [c \in AllChunks |-> 0]
    /\ ram = 0
    /\ completedBlocks = [t \in Transfers |-> {}]
    /\ blockIds = [t \in Transfers |-> {}]
    /\ chunksWritten = [t \in Transfers |-> 0]
    /\ \E left \in SUBSET {c \in AllChunks : c[1] \in Restarted} :
           blocks = [d \in Destinations |-> {c \in left : Destination[c[1]] = d}]
    /\ content = [d \in Destinations |-> NoOne]
    /\ commits = {}

GoTo(t, pc) == xpc' = [xpc EXCEPT ![t] = pc]
MoveChunk(c, pc) == chunk' = [chunk EXCEPT ![c] = pc]

(* The reader gives its buffer back, if it has one. *)
CloseBuffer(c) ==
    /\ buffer' = [buffer EXCEPT ![c] = FALSE]
    /\ ram' = IF buffer[c] THEN ram - 1 ELSE ram

-----------------------------------------------------------------------------
(* The starting goroutine.  Before the destination is locked a transfer    *)
(* that cannot go on is reported at once.                                  *)
EndsEarly(t, st) ==
    /\ SetStatus(t, st)
    /\ GoTo(t, "report")
    /\ UNCHANGED <<ctxDone, destModified, chunksDone, timesReported, lockVars, byteVars>>

InitialChecks(t) ==
    /\ xpc[t] = "start"
    /\ \/ /\ ctxDone[t]
          /\ EndsEarly(t, "Cancelled")
       \/ /\ ~ctxDone[t]
          /\ \/ /\ t \in FaultyStarts
                /\ EndsEarly(t, "Failed")
             \/ /\ t \in NoClobber /\ content[Destination[t]] # NoOne
                /\ EndsEarly(t, "Skipped")
             \/ /\ t \in NoClobber => content[Destination[t]] = NoOne
                /\ GoTo(t, "lock")
                /\ UNCHANGED jptmVars
    /\ UNCHANGED <<schedVars, chunk, ramVars, retries, remoteVars>>

MutWaitUntilLockDestination(t) ==  \* goes on when the name is taken
    /\ xpc[t] = "lock"
    /\ lockedDestinations' = lockedDestinations \cup {Destination[t]}
    /\ lockHeld' = [lockHeld EXCEPT ![t] = TRUE]
    /\ GoTo(t, "schedule")
    /\ UNCHANGED <<status, ctxDone, destModified, chunksDone, timesReported, byteVars>>
    /\ UNCHANGED <<schedVars, chunk, ramVars, retries, remoteVars>>

WaitUntilLockDestination(t) ==
    /\ xpc[t] = "lock"
    /\ \/ /\ LockDestination(t)
          /\ GoTo(t, "schedule")
          /\ UNCHANGED <<status, ctxDone, destModified, chunksDone, timesReported, byteVars>>
       \/ /\ Destination[t] \in lockedDestinations
          /\ EndsEarly(t, "Failed")
    /\ UNCHANGED <<schedVars, chunk, ramVars, retries, remoteVars>>

(* The loop of scheduleSendChunks, at the chunk nextChunk.  The chunk of a *)
(* local source is read ahead unless an earlier one could not be.          *)
PrepareChunk(t) ==
    LET c == <<t, nextChunk[t]>>
    IN  /\ xpc[t] = "schedule" /\ nextChunk[t] < NumChunks[t]
        /\ IF t \in LocalSources /\ ~ctxDone[t] /\ ~prefetchErr[t]
           THEN /\ lastReader' = [lastReader EXCEPT ![t] = nextChunk[t]]
                /\ MoveChunk(c, "waitForRam")
                /\ GoTo(t, "prefetch")
                /\ UNCHANGED prefetchErr
           ELSE /\ prefetchErr' = [prefetchErr EXCEPT ![t] = @ \/ (t \in LocalSources /\ ctxDone[t])]
                /\ GoTo(t, "dispatch")
                /\ UNCHANGED <<lastReader, chunk>>
        /\ UNCHANGED <<jptmVars, nextChunk, ramVars, retries, remoteVars>>

(* blockingPrefetch: RAM under the strict limit, then the disk. *)
PrefetchGetsRam(t) ==
    LET c == <<t, nextChunk[t]>>
    IN  /\ xpc[t] = "prefetch" /\ chunk[c] = "waitForRam"
        /\ ram + 1 <= StrictLimit
        /\ ram' = ram + 1
        /\ MoveChunk(c, "readDisk")
        /\ UNCHANGED <<jptmVars, xpc, schedVars, buffer, retries, remoteVars>>

PrefetchCancelled(t) ==
    LET c == <<t, nextChunk[t]>>
    IN  /\ xpc[t] = "prefetch" /\ chunk[c] = "waitForRam"
        /\ ctxDone[t]
        /\ prefetchErr' = [prefetchErr EXCEPT ![t] = TRUE]
        /\ GoTo(t, "dispatch")
        /\ UNCHANGED <<jptmVars, nextChunk, lastReader, chunk, ramVars, retries, remoteVars>>

PrefetchReads(t) ==
    LET c == <<t, nextChunk[t]>>
    IN  /\ xpc[t] = "prefetch" /\ chunk[c] = "readDisk"
        /\ \/ /\ ~ctxDone[t]
              /\ buffer' = [buffer EXCEPT ![c] = TRUE]
              /\ UNCHANGED <<ram, prefetchErr>>
           \/ /\ ctxDone[t] \/ c \in FaultyReads
              /\ ram' = ram - 1
              /\ prefetchErr' = [prefetchErr EXCEPT ![t] = TRUE]
              /\ UNCHANGED buffer
        /\ GoTo(t, "dispatch")
        /\ UNCHANGED <<jptmVars, nextChunk, lastReader, chunk, retries, remoteVars>>

(* The prologue of a block blob runs before the first chunk is scheduled.  *)
(* A restarted transfer looks for the blocks an earlier run left; it takes *)
(* them only when there are no others.                                     *)
Prologue(t) ==
    LET found == blocks[Destination[t]]
        own == {c \in AllChunks : c[1] = t}
    IN  /\ completedBlocks' = IF status[t] = "Restarted" /\ found \subseteq own
                              THEN [completedBlocks EXCEPT ![t] = found]
                              ELSE completedBlocks
        /\ IF t \in DeletesFirst /\ ~ctxDone[t] /\ found # {}
           THEN /\ blocks' = [blocks EXCEPT ![Destination[t]] = {}]
                /\ content' = [content EXCEPT ![Destination[t]] = NoOne]
           ELSE UNCHANGED <<blocks, content>>

(* A chunk that could not be read is scheduled all the same, as one that   *)
(* fails, and the reader in chunkReader, which may be an earlier chunk's,  *)
(* is closed.                                                              *)
DispatchChunk(t) ==
    LET c == <<t, nextChunk[t]>>
    IN  /\ xpc[t] = "dispatch"
        /\ IF nextChunk[t] = 0 THEN Prologue(t) ELSE UNCHANGED <<completedBlocks, blocks, content>>
        /\ IF prefetchErr[t]
           THEN /\ MoveChunk(c, "queuedToFail")
                /\ IF lastReader[t] >= 0 THEN CloseBuffer(<<t, lastReader[t]>>)
                                         ELSE UNCHANGED ramVars
           ELSE MoveChunk(c, "queued") /\ UNCHANGED ramVars
        /\ nextChunk' = [nextChunk EXCEPT ![t] = @ + 1]
        /\ GoTo(t, IF nextChunk[t] + 1 = NumChunks[t] THEN "chunks" ELSE "schedule")
        /\ UNCHANGED <<jptmVars, prefetchErr, lastReader, retries, blockIds, chunksWritten,
                       commits>>

-----------------------------------------------------------------------------
(* Chunk workers.  A worker is taken from the start of a chunk until the   *)
(* chunk is counted, and by the last chunk until the transfer is over.     *)
InEpilogue == {"epilogue", "commit", "checkLength", "cleanup", "unlock", "complete", "report"}

BusyWorkers ==
    Cardinality({c \in AllChunks : chunk[c] \in {"sending", "retrying", "reportBytes", "count"}})
    + Cardinality({t \in Transfers : xpc[t] \in InEpilogue /\ chunksDone[t] > 0})

(* The answer is no, whether the list is nil or not: a list that is not    *)
(* nil is not looked at.                                                   *)
ChunkAlreadyTransferred(c) ==
    completedBlocks[c[1]] = {} /\ c \in completedBlocks[c[1]]

MutStartChunk(c) ==  \* ends a cancelled transfer at once
    LET t == c[1]
    IN  /\ chunk[c] = "queued"
        /\ BusyWorkers < NumWorkers
        /\ IF ctxDone[t]
           THEN /\ MoveChunk(c, "done")
                /\ GoTo(t, "epilogue")
                /\ UNCHANGED <<destModified, blockIds>>
           ELSE /\ destModified' = [destModified EXCEPT ![t] = TRUE]
                /\ blockIds' = [blockIds EXCEPT ![t] = @ \cup {c}]
                /\ MoveChunk(c, "sending")
                /\ UNCHANGED xpc
        /\ UNCHANGED <<status, ctxDone, completedBlocks, chunksWritten>>
        /\ UNCHANGED <<chunksDone, timesReported, lockVars, byteVars, schedVars, ramVars,
                       retries, serviceVars>>

(* The prefix of every chunk function, createChunkFunc: the body of a      *)
(* cancelled transfer's chunk is not run.                                  *)
StartChunk(c) ==
    LET t == c[1]
    IN  /\ chunk[c] \in {"queued", "queuedToFail"}
        /\ BusyWorkers < NumWorkers
        /\ IF ctxDone[t]
           THEN /\ MoveChunk(c, "reportBytes")
                /\ UNCHANGED <<status, ctxDone, destModified, senderVars>>
           ELSE /\ destModified' = [destModified EXCEPT ![t] = TRUE]
                /\ IF chunk[c] = "queuedToFail"
                   THEN FailActive(t) /\ MoveChunk(c, "reportBytes") /\ UNCHANGED senderVars
                   ELSE IF ChunkAlreadyTransferred(c)
                   THEN /\ chunksWritten' = [chunksWritten EXCEPT ![t] = @ + 1]
                        /\ MoveChunk(c, "reportBytes")
                        /\ UNCHANGED <<status, ctxDone, completedBlocks, blockIds>>
                   ELSE /\ blockIds' = [blockIds EXCEPT ![t] = @ \cup {c}]
                        /\ MoveChunk(c, "sending")
                        /\ UNCHANGED <<status, ctxDone, completedBlocks, chunksWritten>>
        /\ UNCHANGED <<chunksDone, timesReported, lockVars, byteVars, xpc, schedVars, ramVars,
                       retries, serviceVars>>

(* The service takes a chunk: a single one is put as a whole blob, others  *)
(* are staged as blocks.                                                   *)
ServiceTakes(c) ==
    LET t == c[1]
        d == Destination[t]
    IN  IF NumChunks[t] = 1
        THEN /\ content' = [content EXCEPT ![d] = t]
             /\ blocks' = [blocks EXCEPT ![d] = {}]
             /\ commits' = commits \cup {t}
        ELSE /\ blocks' = [blocks EXCEPT ![d] = @ \cup {c}]
             /\ UNCHANGED <<content, commits>>

MutSendSucceeds(c) ==  \* keeps the buffer
    /\ chunk[c] = "sending"
    /\ ServiceTakes(c)
    /\ chunksWritten' = [chunksWritten EXCEPT ![c[1]] = @ + 1]
    /\ MoveChunk(c, "reportBytes")
    /\ UNCHANGED <<jptmVars, xpc, schedVars, ramVars, retries, completedBlocks, blockIds>>

(* The body has been read to its end, so its buffer is given back. *)
SendSucceeds(c) ==
    /\ chunk[c] = "sending"
    /\ ServiceTakes(c)
    /\ chunksWritten' = [chunksWritten EXCEPT ![c[1]] = @ + 1]
    /\ CloseBuffer(c)
    /\ MoveChunk(c, "reportBytes")
    /\ UNCHANGED <<jptmVars, xpc, schedVars, retries, completedBlocks, blockIds>>

(* The request is to be repeated, whether the service took it or not: the  *)
(* body has been read and has to be read from disk again.                  *)
SendMustRetry(c) ==
    /\ chunk[c] = "sending" /\ retries[c] < MaxRetries
    /\ ServiceTakes(c) \/ UNCHANGED serviceVars
    /\ retries' = [retries EXCEPT ![c] = @ + 1]
    /\ CloseBuffer(c)
    /\ MoveChunk(c, IF c[1] \in LocalSources THEN "retrying" ELSE "sending")
    /\ UNCHANGED <<jptmVars, xpc, schedVars, senderVars>>

MutRetryPrefetch(c) ==  \* waits under the strict limit
    /\ chunk[c] = "retrying"
    /\ ram + 1 <= StrictLimit
    /\ ram' = ram + 1
    /\ buffer' = [buffer EXCEPT ![c] = TRUE]
    /\ MoveChunk(c, "sending")
    /\ UNCHANGED <<jptmVars, xpc, schedVars, retries, remoteVars>>

(* Its RAM is taken under the relaxed limit. *)
RetryPrefetch(c) ==
    /\ chunk[c] = "retrying"
    /\ ram + 1 <= RamLimit
    /\ ram' = ram + 1
    /\ buffer' = [buffer EXCEPT ![c] = TRUE]
    /\ MoveChunk(c, "sending")
    /\ UNCHANGED <<jptmVars, xpc, schedVars, retries, remoteVars>>

MutSendFails(c) ==  \* reports the chunk without failing the transfer
    /\ chunk[c] \in {"sending", "retrying"}
    /\ ctxDone[c[1]] \/ c \in FaultySends
    /\ CloseBuffer(c)
    /\ MoveChunk(c, "reportBytes")
    /\ UNCHANGED <<jptmVars, xpc, schedVars, retries, remoteVars>>

(* The request fails for good, or its context is done; its body is closed. *)
(* A request that was on its way may have been taken by the service.       *)
SendFails(c) ==
    /\ chunk[c] \in {"sending", "retrying"}
    /\ ctxDone[c[1]] \/ c \in FaultySends
    /\ (chunk[c] = "sending" /\ ServiceTakes(c)) \/ UNCHANGED serviceVars
    /\ FailActive(c[1])
    /\ CloseBuffer(c)
    /\ MoveChunk(c, "reportBytes")
    /\ UNCHANGED <<destModified, chunksDone, timesReported, lockVars, byteVars, xpc,
                   schedVars, retries, senderVars>>

(* ReportChunkDone.  The last chunk goes on with the epilogue. *)
ReportChunkBytes(c) ==
    /\ chunk[c] = "reportBytes"
    /\ AddChunkBytes(c[1])
    /\ MoveChunk(c, "count")
    /\ UNCHANGED <<status, ctxDone, destModified, chunksDone, timesReported, lockVars, xpc,
                   schedVars, ramVars, retries, remoteVars>>

ReportChunkDone(c) ==
    LET t == c[1]
    IN  /\ chunk[c] = "count"
        /\ CountChunk(t)
        /\ MoveChunk(c, "done")
        /\ IF IsLastChunk(t) THEN GoTo(t, "epilogue") ELSE UNCHANGED xpc
        /\ UNCHANGED <<status, ctxDone, destModified, timesReported, lockVars, byteVars,
                       schedVars, ramVars, retries, remoteVars>>

-----------------------------------------------------------------------------
(* epilogueWithCleanupSendToRemote. *)

NotCancelled == <<destModified, chunksDone, timesReported, lockVars, byteVars>>
EpilogueFrame == <<schedVars, chunk, ramVars, retries, senderVars>>

MutCheckSource(t) ==  \* unlocks the destination first
    /\ xpc[t] = "epilogue"
    /\ IF ctxDone[t]
       THEN SetStatus(t, "Cancelled") /\ UNCHANGED ctxDone
       ELSE (t \in FaultyEnds /\ FailActive(t)) \/ UNCHANGED <<status, ctxDone>>
    /\ EnsureDestinationUnlocked(t)
    /\ GoTo(t, "commit")
    /\ UNCHANGED <<destModified, chunksDone, timesReported, byteVars, EpilogueFrame, serviceVars>>

(* A cancelled transfer gets its status; the source of a live one must not *)
(* have changed.                                                           *)
CheckSource(t) ==
    /\ xpc[t] = "epilogue"
    /\ IF ctxDone[t]
       THEN SetStatus(t, "Cancelled") /\ UNCHANGED ctxDone
       ELSE (t \in FaultyEnds /\ FailActive(t)) \/ UNCHANGED <<status, ctxDone>>
    /\ GoTo(t, "commit")
    /\ UNCHANGED <<NotCancelled, EpilogueFrame, serviceVars>>

(* The blocks of every chunk are there to be committed. *)
HasAllBlocks(t) ==
    LET own == {c \in AllChunks : c[1] = t}
    IN  blockIds[t] = own /\ own \subseteq blocks[Destination[t]]

(* The service refuses a list with a block it does not have. *)
CommitBlockList(t) ==
    /\ xpc[t] = "commit"
    /\ IF IsDead(t) \/ NumChunks[t] = 1
       THEN UNCHANGED <<status, ctxDone, serviceVars>>
       ELSE \/ /\ HasAllBlocks(t)
               /\ content' = [content EXCEPT ![Destination[t]] = t]
               /\ blocks' = [blocks EXCEPT ![Destination[t]] = {}]
               /\ commits' = commits \cup {t}
               /\ UNCHANGED <<status, ctxDone>>
            \/ /\ ~HasAllBlocks(t) \/ t \in FaultyEnds
               /\ FailActive(t)
               /\ UNCHANGED serviceVars
    /\ GoTo(t, "checkLength")
    /\ UNCHANGED <<NotCancelled, EpilogueFrame>>

CheckLength(t) ==
    /\ xpc[t] = "checkLength"
    /\ \/ ~IsDead(t) /\ t \in FaultyEnds /\ FailActive(t)
       \/ UNCHANGED <<status, ctxDone>>
    /\ GoTo(t, "cleanup")
    /\ UNCHANGED <<NotCancelled, EpilogueFrame, serviceVars>>

(* Cleanup of a transfer that died after it had written: when cancelled it *)
(* deletes the blob unless it has content, else it deletes it in any case. *)
Cleanup(t) ==
    LET d == Destination[t]
        delete == /\ lockHeld[t] /\ IsDeadInflight(t) /\ chunksWritten[t] # 0
                  /\ ctxDone[t] => content[d] = NoOne
    IN  /\ xpc[t] = "cleanup"
        /\ IF delete
           THEN /\ blocks' = [blocks EXCEPT ![d] = {}]
                /\ content' = [content EXCEPT ![d] = NoOne]
           ELSE UNCHANGED <<blocks, content>>
        /\ GoTo(t, "unlock")
        /\ UNCHANGED <<jptmVars, EpilogueFrame, commits>>

Unlock(t) ==
    /\ xpc[t] = "unlock"
    /\ EnsureDestinationUnlocked(t)
    /\ GoTo(t, "complete")
    /\ UNCHANGED <<status, ctxDone, destModified, chunksDone, timesReported, byteVars,
                   EpilogueFrame, serviceVars>>

Complete(t) ==
    /\ xpc[t] = "complete"
    /\ IF IsDead(t) THEN UNCHANGED status ELSE SetStatus(t, "Success")
    /\ GoTo(t, "report")
    /\ UNCHANGED <<ctxDone, NotCancelled, EpilogueFrame, serviceVars>>

(* The bytes are subtracted when the epilogue has returned; a transfer     *)
(* that ended early has none.                                              *)
Report(t) ==
    /\ xpc[t] = "report"
    /\ ReportTransferDone(t)
    /\ SubtractBytes(t)
    /\ GoTo(t, "done")
    /\ UNCHANGED <<status, destModified, chunksDone, lockVars, successfulBytes,
                   EpilogueFrame, serviceVars>>

CancelJob ==
    /\ JobMayBeCancelled
    /\ \E t \in Transfers : ~ctxDone[t]
    /\ CancelContexts
    /\ UNCHANGED <<status, NotCancelled, xpc, EpilogueFrame, serviceVars>>

-----------------------------------------------------------------------------
TransferStep(t) ==
    \/ InitialChecks(t) \/ WaitUntilLockDestination(t)
    \/ PrepareChunk(t) \/ PrefetchGetsRam(t) \/ PrefetchCancelled(t)
    \/ PrefetchReads(t) \/ DispatchChunk(t)
    \/ CheckSource(t) \/ CommitBlockList(t) \/ CheckLength(t) \/ Cleanup(t)
    \/ Unlock(t) \/ Complete(t) \/ Report(t)

ChunkStep(c) ==
    \/ StartChunk(c) \/ SendSucceeds(c) \/ SendMustRetry(c) \/ RetryPrefetch(c)
    \/ SendFails(c) \/ ReportChunkBytes(c) \/ ReportChunkDone(c)

Next ==
    \/ \E t \in Transfers : TransferStep(t)
    \/ \E c \in AllChunks : ChunkStep(c)
    \/ CancelJob

(* Every goroutine goes on, and a request is answered in the end.  Nobody  *)
(* has to cancel.                                                          *)
Fairness ==
    /\ \A t \in Transfers : WF_vars(TransferStep(t))
    /\ \A c \in AllChunks : WF_vars(ChunkStep(c))

Spec == Init /\ [][Next]_vars /\ Fairness

-----------------------------------------------------------------------------
TypeOK ==
    /\ status \in [Transfers -> Unsettled \cup {"Success", "Failed", "Cancelled", "Skipped"}]
    /\ ctxDone \in [Transfers -> BOOLEAN] /\ destModified \in [Transfers -> BOOLEAN]
    /\ lockHeld \in [Transfers -> BOOLEAN] /\ lockedDestinations \subseteq Destinations
    /\ chunksDone \in [Transfers -> Nat] /\ successfulBytes \in [Transfers -> Nat]
    /\ timesReported \in [Transfers -> Nat] /\ bytesInActiveFiles \in Int
    /\ xpc \in [Transfers -> {"start", "lock", "schedule", "prefetch", "dispatch", "chunks", "done"}
                              \cup InEpilogue]
    /\ nextChunk \in [Transfers -> Nat] /\ lastReader \in [Transfers -> Int]
    /\ prefetchErr \in [Transfers -> BOOLEAN]
    /\ chunk \in [AllChunks -> {"unscheduled", "waitForRam", "readDisk", "queued", "queuedToFail",
                                 "sending", "retrying", "reportBytes", "count", "done"}]
    /\ buffer \in [AllChunks -> BOOLEAN] /\ retries \in [AllChunks -> 0..MaxRetries]
    /\ ram \in Int /\ chunksWritten \in [Transfers -> Nat]
    /\ completedBlocks \in [Transfers -> SUBSET AllChunks]
    /\ blockIds \in [Transfers -> SUBSET AllChunks]
    /\ blocks \in [Destinations -> SUBSET AllChunks]
    /\ content \in [Destinations -> Transfers \cup {NoOne}]
    /\ commits \subseteq Transfers

AllDone == \A t \in Transfers : xpc[t] = "done"

(* A transfer is only reported as successful when each of its chunks was   *)
(* written and its content committed: a chunk that fails, in any order     *)
(* with the others and with a cancellation, is never forgotten on the way  *)
(* to commonSenderCompletion.                                              *)
SuccessMeansCommitted ==
    \A t \in Transfers :
        status[t] = "Success" => t \in commits /\ chunksWritten[t] = NumChunks[t]

(* When the block list of a live transfer is to be committed, every block  *)
(* is still there, whatever other transfers to the same name have deleted, *)
(* committed or cleaned up: the destination lock spans all of it.          *)
CommitFindsItsBlocks ==
    \A t \in Transfers :
        xpc[t] = "commit" /\ ~IsDead(t) /\ NumChunks[t] > 1 => HasAllBlocks(t)

(* ReportTransferDone comes once and last: no chunk of the transfer is     *)
(* still queued or running, and its destination is no longer locked.       *)
ReportIsOnceAndLast ==
    \A t \in Transfers :
        /\ timesReported[t] <= 1
        /\ timesReported[t] = 1 =>
               /\ ~lockHeld[t]
               /\ \A i \in Chunk(t) : chunk[<<t, i>>] \in {"unscheduled", "done"}

(* The bytes of active files, which the job's progress is computed from,   *)
(* are never negative and are all taken back in the end, although chunks   *)
(* add theirs only while the transfer is live.                             *)
ActiveBytesAreTakenBack ==
    /\ TypeOK
    /\ bytesInActiveFiles >= 0
    /\ AllDone => bytesInActiveFiles = 0

(* What is stored under a name changes only while a transfer to that name  *)
(* holds its lock: no late chunk and no clean-up runs after the unlocking. *)
DestinationChangesUnderItsLock ==
    [][\A d \in Destinations :
          blocks'[d] # blocks[d] \/ content'[d] # content[d] =>
              \E t \in Transfers : lockHeld[t] /\ Destination[t] = d]_vars

(* The RAM counted is what readers hold or are being filled with, within   *)
(* the limit, and none of it belongs to a transfer that is over.  That is  *)
(* so as long as no transfer fails or is cancelled; the comment at Close   *)
(* in singleChunkReader.go wants it to be so when something fails, too.    *)
RamIsGivenBack ==
    /\ ram <= RamLimit
    /\ ram = Cardinality({c \in AllChunks :
                             \/ buffer[c]
                             \/ chunk[c] = "readDisk" /\ xpc[c[1]] = "prefetch"})
    /\ \A c \in AllChunks : buffer[c] => xpc[c[1]] # "done"

(* Every transfer is reported in the end: prefetching never takes the RAM  *)
(* a retry needs, with all workers waiting for RAM.                        *)
EveryTransferIsReported == \A t \in Transfers : <>(xpc[t] = "done")

(* ChangeLog.md: an interrupted upload of a blob is resumed in the middle, *)
(* so a chunk that is in the list of blocks found is not sent again.       *)
FoundBlocksAreNotSentAgain ==
    \A c \in AllChunks : chunk[c] = "sending" => c \notin completedBlocks[c[1]]
=============================================================================
