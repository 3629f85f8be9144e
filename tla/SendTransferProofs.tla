------------------------- MODULE SendTransferProofs -------------------------
(***************************************************************************)
(* Proofs about SendTransfer, for any set of transfers, any destinations   *)
(* they share, any number of chunks and workers, and all faults: what is   *)
(* reported as a success has been committed, a commit finds its blocks,    *)
(* a transfer is reported once and last, a destination changes only under  *)
(* its lock, and the bytes of active files are taken back.  The RAM of the *)
(* readers is counted exactly as long as no chunk fails.                   *)
(***************************************************************************)
EXTENDS SendTransfer, FiniteSetTheorems, TLAPS

Own(t) == {c \in AllChunks : c[1] = t}
DoneOf(t) == {c \in Own(t) : chunk[c] = "done"}
WrittenOf(t) == {c \in Own(t) : chunk[c] \in {"reportBytes", "count", "done"}}

BeforeChunks == {"start", "lock"}
Scheduling == {"schedule", "prefetch", "dispatch"}
AfterChunks == {"epilogue", "commit", "checkLength", "cleanup", "unlock", "complete"}
Locked == Scheduling \cup {"chunks", "epilogue", "commit", "checkLength", "cleanup", "unlock"}

(* The parts of TypeOK. *)
StatusType ==
    /\ status \in [Transfers -> Unsettled \cup {"Success", "Failed", "Cancelled", "Skipped"}]
    /\ ctxDone \in [Transfers -> BOOLEAN] /\ destModified \in [Transfers -> BOOLEAN]
LockType ==
    /\ lockHeld \in [Transfers -> BOOLEAN] /\ lockedDestinations \subseteq Destinations
    /\ timesReported \in [Transfers -> Nat]
PlaceType ==
    /\ xpc \in [Transfers -> {"start", "lock", "schedule", "prefetch", "dispatch", "chunks", "done"}
                              \cup InEpilogue]
    /\ nextChunk \in [Transfers -> Nat]
ChunkType ==
    /\ chunk \in [AllChunks -> {"unscheduled", "waitForRam", "readDisk", "queued", "queuedToFail",
                                 "sending", "retrying", "reportBytes", "count", "done"}]
    /\ chunksDone \in [Transfers -> Nat]
SenderType ==
    /\ chunksWritten \in [Transfers -> Nat] /\ blockIds \in [Transfers -> SUBSET AllChunks]
    /\ blocks \in [Destinations -> SUBSET AllChunks] /\ commits \subseteq Transfers
ReaderType ==
    /\ lastReader \in [Transfers -> Int] /\ prefetchErr \in [Transfers -> BOOLEAN]
    /\ buffer \in [AllChunks -> BOOLEAN] /\ retries \in [AllChunks -> 0..MaxRetries]
    /\ ram \in Int
BytesType ==
    /\ successfulBytes \in [Transfers -> Nat] /\ bytesInActiveFiles \in Int
FoundType ==
    /\ completedBlocks \in [Transfers -> SUBSET AllChunks]
    /\ blocks \in [Destinations -> SUBSET AllChunks]
    /\ content \in [Destinations -> Transfers \cup {NoOne}]

(* Chunks are scheduled in their order, by the goroutine that starts the   *)
(* transfer, and the epilogue begins when all are done.                    *)
ChunksOf(t) ==
    /\ xpc[t] \in BeforeChunks => nextChunk[t] = 0
    /\ xpc[t] \in Scheduling => nextChunk[t] < NumChunks[t]
    /\ xpc[t] \in {"chunks"} \cup AfterChunks => nextChunk[t] = NumChunks[t]
    /\ xpc[t] \in {"report", "done"} => nextChunk[t] \in {0, NumChunks[t]}
    /\ xpc[t] \in AfterChunks \cup {"report", "done"} =>
           \A c \in Own(t) : c[2] < nextChunk[t] => chunk[c] = "done"
    /\ \A c \in Own(t) :
         /\ c[2] < nextChunk[t] => chunk[c] \notin {"unscheduled", "waitForRam", "readDisk"}
         /\ c[2] = nextChunk[t] => chunk[c] \in {"unscheduled", "waitForRam", "readDisk"}
         /\ c[2] > nextChunk[t] => chunk[c] = "unscheduled"
         /\ chunk[c] \in {"waitForRam", "readDisk"} => xpc[t] \in {"prefetch", "dispatch"}

(* The counter says how many chunks are done. *)
CountOf(t) == chunksDone[t] = Cardinality(DoneOf(t))

(* A transfer has its lock from when it schedules its first chunk until    *)
(* after the clean-up, and is reported at its end.                         *)
LockOf(t) ==
    /\ lockHeld[t] <=> xpc[t] \in Locked
    /\ timesReported[t] = IF xpc[t] = "done" THEN 1 ELSE 0

(* One transfer at a time has the lock of a name. *)
OneHolder ==
    /\ \A t \in Transfers : lockHeld[t] => Destination[t] \in lockedDestinations
    /\ \A t, u \in Transfers :
         lockHeld[t] /\ lockHeld[u] /\ Destination[t] = Destination[u] => t = u

(* The chunks of a transfer that nothing has happened to have been named,  *)
(* staged and counted, and then the transfer is committed.                 *)
BlocksOf(t) ==
    /\ blockIds[t] \subseteq Own(t)
    /\ ~ctxDone[t] =>
         /\ chunksWritten[t] = Cardinality(WrittenOf(t))
         /\ \A c \in Own(t) :
              /\ chunk[c] \in {"sending", "retrying", "reportBytes", "count", "done"} =>
                     c \in blockIds[t]
              /\ chunk[c] \in {"reportBytes", "count", "done"} /\ NumChunks[t] = 1 =>
                     t \in commits
              /\ /\ chunk[c] \in {"reportBytes", "count", "done"} /\ NumChunks[t] # 1
                 /\ xpc[t] \in Scheduling \cup {"chunks", "epilogue", "commit"}
                 => c \in blocks[Destination[t]]
         /\ xpc[t] \in {"checkLength", "cleanup", "unlock", "complete"} => t \in commits

(* The status of a live transfer is settled at its end. *)
SettledOf(t) ==
    /\ ~ctxDone[t] /\ xpc[t] \notin {"report", "done"} => status[t] \in Unsettled
    /\ status[t] = "Success" =>
           /\ t \in commits /\ chunksWritten[t] = NumChunks[t]
           /\ xpc[t] \in {"report", "done"}

TransferInv(t) == ChunksOf(t) /\ CountOf(t) /\ LockOf(t) /\ BlocksOf(t) /\ SettledOf(t)

SendInv == TypeOK /\ OneHolder /\ \A t \in Transfers : TransferInv(t)

-----------------------------------------------------------------------------
(* Transfers and their chunks.                                             *)

(* A chunk is a pair of its transfer and its index. *)
LEMMA ChunkShape ==
    ASSUME NEW c \in AllChunks
    PROVE  /\ c[1] \in Transfers /\ c[2] \in Chunk(c[1]) /\ c = <<c[1], c[2]>>
           /\ c \in Own(c[1])
<1>1. PICK t \in Transfers : c \in {t} \X Chunk(t)
  BY DEF AllChunks
<1> QED BY <1>1 DEF Own

(* The chunks of a transfer are as many as it has.                         *)
LEMMA OwnShape ==
    ASSUME NEW t \in Transfers
    PROVE  /\ \A i \in Chunk(t) : <<t, i>> \in Own(t)
           /\ \A c \in Own(t) : /\ c \in AllChunks /\ c[1] = t /\ c[2] \in Chunk(t)
                                /\ c = <<t, c[2]>>
           /\ IsFiniteSet(Own(t)) /\ Cardinality(Own(t)) = NumChunks[t]
<1>1. NumChunks[t] \in Nat
  BY TransferAssumption
<1>2. IsFiniteSet(Chunk(t)) /\ Cardinality(Chunk(t)) = NumChunks[t]
  BY SMTT(30), <1>1, FS_Interval DEF Chunk
<1>3. IsFiniteSet({t}) /\ Cardinality({t}) = 1
  BY FS_Singleton
<1>4. IsFiniteSet({t} \X Chunk(t)) /\ Cardinality({t} \X Chunk(t)) = 1 * NumChunks[t]
  BY <1>2, <1>3, FS_Product
<1>5. {t} \X Chunk(t) \subseteq AllChunks
  BY DEF AllChunks
<1>6. Own(t) = {t} \X Chunk(t)
  <2>1. \A c \in Own(t) : c \in {t} \X Chunk(t)
    BY ChunkShape DEF Own
  <2> QED BY <1>5, <2>1 DEF Own
<1>7. \A i \in Chunk(t) : <<t, i>> \in Own(t)
  BY <1>6
<1>8. \A c \in Own(t) : c \in AllChunks /\ c[1] = t /\ c[2] \in Chunk(t) /\ c = <<t, c[2]>>
  BY ChunkShape DEF Own
<1> QED BY <1>1, <1>4, <1>6, <1>7, <1>8

(* A set of a transfer's chunks that is as large as all of them is all.    *)
LEMMA WholeOwn ==
    ASSUME NEW t \in Transfers, NEW S, S \subseteq Own(t)
    PROVE  /\ IsFiniteSet(S) /\ Cardinality(S) \in Nat /\ Cardinality(S) <= NumChunks[t]
           /\ Cardinality(S) = NumChunks[t] => S = Own(t)
BY OwnShape, FS_Subset, FS_CardinalityType

-----------------------------------------------------------------------------
(* The types.                                                              *)
LEMMA StatusTypeStep ==
    ASSUME StatusType, [Next]_vars
    PROVE  StatusType'
<1> USE TransferAssumption DEF StatusType, Unsettled, NotCancelled, EpilogueFrame, vars,
        jptmVars, lockVars, byteVars, schedVars, ramVars,
        remoteVars, senderVars, serviceVars
<1>1. ASSUME NEW t \in Transfers, InitialChecks(t) PROVE StatusType'
  BY <1>1 DEF InitialChecks, EndsEarly, SetStatus, GoTo
<1>2. ASSUME NEW t \in Transfers, WaitUntilLockDestination(t) PROVE StatusType'
  BY <1>2 DEF WaitUntilLockDestination, EndsEarly, LockDestination, SetStatus, GoTo
<1>3. ASSUME NEW c \in AllChunks, StartChunk(c) PROVE StatusType'
  BY <1>3, ChunkShape DEF StartChunk, FailActive, SetStatus, MoveChunk, ChunkAlreadyTransferred
<1>4. ASSUME NEW c \in AllChunks, SendFails(c) PROVE StatusType'
  BY <1>4, ChunkShape DEF SendFails, ServiceTakes, FailActive, SetStatus, CloseBuffer,
     MoveChunk
<1>5. ASSUME NEW t \in Transfers, CheckSource(t) PROVE StatusType'
  BY <1>5 DEF CheckSource, SetStatus, FailActive, GoTo
<1>6. ASSUME NEW t \in Transfers, CommitBlockList(t) PROVE StatusType'
  BY <1>6 DEF CommitBlockList, FailActive, SetStatus, GoTo, HasAllBlocks
<1>7. ASSUME NEW t \in Transfers, CheckLength(t) PROVE StatusType'
  BY <1>7 DEF CheckLength, FailActive, SetStatus, GoTo
<1>8. ASSUME NEW t \in Transfers, Complete(t) PROVE StatusType'
  BY <1>8 DEF Complete, SetStatus, GoTo
<1>9. ASSUME NEW t \in Transfers, Report(t) PROVE StatusType'
  BY <1>9 DEF Report, ReportTransferDone, SubtractBytes, GoTo
<1>10. ASSUME CancelJob PROVE StatusType'
  BY <1>10 DEF CancelJob, CancelContexts
<1>11. ASSUME NEW t \in Transfers,
              PrepareChunk(t) \/ PrefetchGetsRam(t) \/ PrefetchCancelled(t) \/
              PrefetchReads(t) \/ DispatchChunk(t) \/ Cleanup(t) \/ Unlock(t)
      PROVE  StatusType'
  BY <1>11 DEF PrepareChunk, PrefetchGetsRam, PrefetchCancelled, PrefetchReads,
     DispatchChunk, Cleanup, Unlock
<1>12. ASSUME NEW c \in AllChunks,
              SendSucceeds(c) \/ SendMustRetry(c) \/ RetryPrefetch(c) \/
              ReportChunkBytes(c) \/ ReportChunkDone(c)
      PROVE  StatusType'
  BY <1>12 DEF SendSucceeds, SendMustRetry, RetryPrefetch, ReportChunkBytes, ReportChunkDone
<1>13. CASE UNCHANGED vars
  BY <1>13
<1> QED
  BY <1>1, <1>2, <1>3, <1>4, <1>5, <1>6, <1>7, <1>8, <1>9, <1>10, <1>11, <1>12, <1>13 DEF
     Next, TransferStep, ChunkStep

(* A step keeps the type of the locks.                                     *)
LEMMA LockTypeStep ==
    ASSUME LockType, [Next]_vars
    PROVE  LockType'
<1> USE TransferAssumption DEF LockType, NotCancelled, EpilogueFrame, vars, jptmVars,
        lockVars, byteVars, schedVars, ramVars,
        remoteVars, senderVars, serviceVars
<1>1. ASSUME NEW t \in Transfers, WaitUntilLockDestination(t) PROVE LockType'
  <2>1. CASE LockDestination(t)
    <3>1. Destination[t] \in Destinations
      OBVIOUS
    <3>2. timesReported' = timesReported
      BY <1>1 DEF WaitUntilLockDestination, EndsEarly
    <3> QED BY <2>1, <3>1, <3>2 DEF LockDestination
  <2>2. CASE UNCHANGED <<lockVars, timesReported>>
    BY <2>2
  <2> QED BY <1>1, <2>1, <2>2 DEF WaitUntilLockDestination, EndsEarly
<1>2. ASSUME NEW t \in Transfers, Unlock(t) PROVE LockType'
  BY <1>2 DEF Unlock, EnsureDestinationUnlocked
<1>3. ASSUME NEW t \in Transfers, Report(t) PROVE LockType'
  BY <1>3 DEF Report, ReportTransferDone, SubtractBytes
<1>4. ASSUME NEW t \in Transfers,
             InitialChecks(t) \/ PrepareChunk(t) \/ PrefetchGetsRam(t) \/
             PrefetchCancelled(t) \/ PrefetchReads(t)
      PROVE  LockType'
  BY <1>4 DEF InitialChecks, PrepareChunk, PrefetchGetsRam, PrefetchCancelled,
     PrefetchReads, EndsEarly
<1>5. ASSUME NEW t \in Transfers,
             DispatchChunk(t) \/ CheckSource(t) \/ CommitBlockList(t) \/
             CheckLength(t) \/ Cleanup(t) \/ Complete(t)
      PROVE  LockType'
  BY <1>5 DEF DispatchChunk, CheckSource, CommitBlockList, CheckLength, Cleanup, Complete
<1>6. ASSUME NEW c \in AllChunks,
             StartChunk(c) \/ SendSucceeds(c) \/ SendMustRetry(c) \/
             RetryPrefetch(c) \/ SendFails(c) \/ ReportChunkBytes(c) \/
             ReportChunkDone(c)
      PROVE  LockType'
  BY <1>6 DEF StartChunk, SendSucceeds, SendMustRetry, RetryPrefetch, SendFails,
     ReportChunkBytes, ReportChunkDone
<1>7. CASE UNCHANGED vars \/ CancelJob
  BY <1>7 DEF CancelJob
<1> QED
  BY <1>1, <1>2, <1>3, <1>4, <1>5, <1>6, <1>7 DEF Next, TransferStep, ChunkStep

(* A step keeps the types of the places that transfers and chunks are in.  *)
LEMMA PlaceTypeStep ==
    ASSUME PlaceType, [Next]_vars
    PROVE  PlaceType'
<1> USE TransferAssumption DEF PlaceType, InEpilogue, NotCancelled, EpilogueFrame, vars,
        jptmVars, lockVars, byteVars, schedVars, ramVars,
        remoteVars, senderVars, serviceVars
<1>1. ASSUME NEW t \in Transfers, InitialChecks(t) PROVE PlaceType'
  BY <1>1 DEF InitialChecks, EndsEarly, SetStatus, GoTo
<1>2. ASSUME NEW t \in Transfers, WaitUntilLockDestination(t) PROVE PlaceType'
  BY <1>2 DEF WaitUntilLockDestination, EndsEarly, LockDestination, SetStatus, GoTo
<1>3. ASSUME NEW t \in Transfers, PrepareChunk(t) PROVE PlaceType'
  BY <1>3 DEF PrepareChunk, MoveChunk, GoTo
<1>4. ASSUME NEW t \in Transfers, PrefetchCancelled(t) PROVE PlaceType'
  BY <1>4 DEF PrefetchCancelled, GoTo
<1>5. ASSUME NEW t \in Transfers, PrefetchReads(t) PROVE PlaceType'
  BY <1>5 DEF PrefetchReads, GoTo
<1>6. ASSUME NEW t \in Transfers, DispatchChunk(t) PROVE PlaceType'
  BY <1>6 DEF DispatchChunk, Prologue, MoveChunk, GoTo, CloseBuffer
<1>7. ASSUME NEW t \in Transfers, CheckSource(t) PROVE PlaceType'
  BY <1>7 DEF CheckSource, SetStatus, FailActive, GoTo
<1>8. ASSUME NEW t \in Transfers, CommitBlockList(t) PROVE PlaceType'
  BY <1>8 DEF CommitBlockList, FailActive, SetStatus, GoTo, HasAllBlocks
<1>9. ASSUME NEW t \in Transfers, CheckLength(t) PROVE PlaceType'
  BY <1>9 DEF CheckLength, FailActive, SetStatus, GoTo
<1>10. ASSUME NEW t \in Transfers, Cleanup(t) PROVE PlaceType'
  BY <1>10 DEF Cleanup, GoTo
<1>11. ASSUME NEW t \in Transfers, Unlock(t) PROVE PlaceType'
  BY <1>11 DEF Unlock, EnsureDestinationUnlocked, GoTo
<1>12. ASSUME NEW t \in Transfers, Complete(t) PROVE PlaceType'
  BY <1>12 DEF Complete, SetStatus, GoTo
<1>13. ASSUME NEW t \in Transfers, Report(t) PROVE PlaceType'
  BY <1>13 DEF Report, ReportTransferDone, SubtractBytes, GoTo
<1>14. ASSUME NEW c \in AllChunks, ReportChunkDone(c) PROVE PlaceType'
  BY <1>14, ChunkShape DEF ReportChunkDone, CountChunk, IsLastChunk, MoveChunk, GoTo
<1>15. ASSUME NEW t \in Transfers, PrefetchGetsRam(t)
      PROVE  PlaceType'
  BY <1>15 DEF PrefetchGetsRam
<1>16. ASSUME NEW c \in AllChunks,
              StartChunk(c) \/ SendSucceeds(c) \/ SendMustRetry(c) \/
              RetryPrefetch(c) \/ SendFails(c) \/ ReportChunkBytes(c)
      PROVE  PlaceType'
  BY <1>16 DEF StartChunk, SendSucceeds, SendMustRetry, RetryPrefetch, SendFails,
     ReportChunkBytes
<1>17. CASE UNCHANGED vars \/ CancelJob
  BY <1>17 DEF CancelJob
<1> QED
  BY <1>1, <1>2, <1>3, <1>4, <1>5, <1>6, <1>7, <1>8, <1>9, <1>10, <1>11, <1>12, <1>13,
     <1>14, <1>15, <1>16, <1>17 DEF Next, TransferStep, ChunkStep

(* A step keeps the types of the chunks' counts.                           *)
LEMMA ChunkTypeStep ==
    ASSUME ChunkType, [Next]_vars
    PROVE  ChunkType'
<1> USE TransferAssumption DEF ChunkType, NotCancelled, EpilogueFrame, vars, jptmVars,
        lockVars, byteVars, schedVars, ramVars,
        remoteVars, senderVars, serviceVars
<1>1. ASSUME NEW t \in Transfers, PrepareChunk(t) PROVE ChunkType'
  BY <1>1 DEF PrepareChunk, MoveChunk, GoTo
<1>2. ASSUME NEW t \in Transfers, PrefetchGetsRam(t) PROVE ChunkType'
  BY <1>2 DEF PrefetchGetsRam, MoveChunk
<1>3. ASSUME NEW t \in Transfers, DispatchChunk(t) PROVE ChunkType'
  BY <1>3 DEF DispatchChunk, Prologue, MoveChunk, GoTo, CloseBuffer
<1>4. ASSUME NEW c \in AllChunks, StartChunk(c) PROVE ChunkType'
  BY <1>4, ChunkShape DEF StartChunk, FailActive, SetStatus, MoveChunk, ChunkAlreadyTransferred
<1>5. ASSUME NEW c \in AllChunks, SendSucceeds(c) PROVE ChunkType'
  BY <1>5, ChunkShape DEF SendSucceeds, ServiceTakes, CloseBuffer, MoveChunk
<1>6. ASSUME NEW c \in AllChunks, SendMustRetry(c) PROVE ChunkType'
  BY <1>6, ChunkShape DEF SendMustRetry, ServiceTakes, CloseBuffer, MoveChunk
<1>7. ASSUME NEW c \in AllChunks, RetryPrefetch(c) PROVE ChunkType'
  BY <1>7, ChunkShape DEF RetryPrefetch, MoveChunk
<1>8. ASSUME NEW c \in AllChunks, SendFails(c) PROVE ChunkType'
  BY <1>8, ChunkShape DEF SendFails, ServiceTakes, FailActive, SetStatus, CloseBuffer,
     MoveChunk
<1>9. ASSUME NEW c \in AllChunks, ReportChunkBytes(c) PROVE ChunkType'
  BY <1>9, ChunkShape DEF ReportChunkBytes, AddChunkBytes, MoveChunk
<1>10. ASSUME NEW c \in AllChunks, ReportChunkDone(c) PROVE ChunkType'
  BY <1>10, ChunkShape DEF ReportChunkDone, CountChunk, IsLastChunk, MoveChunk, GoTo
<1>11. ASSUME NEW t \in Transfers,
              InitialChecks(t) \/ WaitUntilLockDestination(t) \/
              PrefetchCancelled(t) \/ PrefetchReads(t) \/ CheckSource(t)
      PROVE  ChunkType'
  BY <1>11 DEF InitialChecks, WaitUntilLockDestination, PrefetchCancelled, PrefetchReads,
     CheckSource, EndsEarly
<1>12. ASSUME NEW t \in Transfers,
              CommitBlockList(t) \/ CheckLength(t) \/ Cleanup(t) \/ Unlock(t) \/
              Complete(t) \/ Report(t)
      PROVE  ChunkType'
  BY <1>12 DEF CommitBlockList, CheckLength, Cleanup, Unlock, Complete, Report
<1>13. CASE UNCHANGED vars \/ CancelJob
  BY <1>13 DEF CancelJob
<1> QED
  BY <1>1, <1>2, <1>3, <1>4, <1>5, <1>6, <1>7, <1>8, <1>9, <1>10, <1>11, <1>12, <1>13 DEF
     Next, TransferStep, ChunkStep

(* A step keeps the types of what the senders have.                        *)
LEMMA SenderTypeStep ==
    ASSUME SenderType, [Next]_vars
    PROVE  SenderType'
<1> USE TransferAssumption DEF SenderType, NotCancelled, EpilogueFrame, vars, jptmVars,
        lockVars, byteVars, schedVars, ramVars,
        remoteVars, senderVars, serviceVars
<1>1. ASSUME NEW t \in Transfers, DispatchChunk(t) PROVE SenderType'
  BY <1>1 DEF DispatchChunk, Prologue, MoveChunk, GoTo, CloseBuffer
<1>2. ASSUME NEW c \in AllChunks, StartChunk(c) PROVE SenderType'
  BY <1>2, ChunkShape DEF StartChunk, FailActive, SetStatus, MoveChunk, ChunkAlreadyTransferred
<1>3. ASSUME NEW c \in AllChunks, SendSucceeds(c) PROVE SenderType'
  BY <1>3, ChunkShape DEF SendSucceeds, ServiceTakes, CloseBuffer, MoveChunk
<1>4. ASSUME NEW c \in AllChunks, SendMustRetry(c) PROVE SenderType'
  BY <1>4, ChunkShape DEF SendMustRetry, ServiceTakes, CloseBuffer, MoveChunk
<1>5. ASSUME NEW c \in AllChunks, SendFails(c) PROVE SenderType'
  BY <1>5, ChunkShape DEF SendFails, ServiceTakes, FailActive, SetStatus, CloseBuffer,
     MoveChunk
<1>6. ASSUME NEW t \in Transfers, CommitBlockList(t) PROVE SenderType'
  BY <1>6 DEF CommitBlockList, FailActive, SetStatus, GoTo, HasAllBlocks
<1>7. ASSUME NEW t \in Transfers, Cleanup(t) PROVE SenderType'
  BY <1>7 DEF Cleanup, GoTo
<1>8. ASSUME NEW t \in Transfers,
             InitialChecks(t) \/ WaitUntilLockDestination(t) \/ PrepareChunk(t) \/
             PrefetchGetsRam(t) \/ PrefetchCancelled(t)
      PROVE  SenderType'
  BY <1>8 DEF InitialChecks, WaitUntilLockDestination, PrepareChunk, PrefetchGetsRam,
     PrefetchCancelled, EndsEarly
<1>9. ASSUME NEW t \in Transfers,
             PrefetchReads(t) \/ CheckSource(t) \/ CheckLength(t) \/ Unlock(t) \/
             Complete(t) \/ Report(t)
      PROVE  SenderType'
  BY <1>9 DEF PrefetchReads, CheckSource, CheckLength, Unlock, Complete, Report
<1>10. ASSUME NEW c \in AllChunks,
              RetryPrefetch(c) \/ ReportChunkBytes(c) \/ ReportChunkDone(c)
      PROVE  SenderType'
  BY <1>10 DEF RetryPrefetch, ReportChunkBytes, ReportChunkDone
<1>11. CASE UNCHANGED vars \/ CancelJob
  BY <1>11 DEF CancelJob
<1> QED
  BY <1>1, <1>2, <1>3, <1>4, <1>5, <1>6, <1>7, <1>8, <1>9, <1>10, <1>11 DEF Next,
     TransferStep, ChunkStep

(* A step keeps the types of what the chunk readers have.                  *)
LEMMA ReaderTypeStep ==
    ASSUME ReaderType, PlaceType, [Next]_vars
    PROVE  ReaderType'
<1> USE TransferAssumption DEF ReaderType, NotCancelled, EpilogueFrame, vars, jptmVars,
        lockVars, byteVars, schedVars, ramVars,
        remoteVars, senderVars, serviceVars
<1>1. ASSUME NEW t \in Transfers, PrepareChunk(t) PROVE ReaderType'
  <2>1. (prefetchErr[t] \/ (t \in LocalSources /\ ctxDone[t])) \in BOOLEAN
    OBVIOUS
  <2>2. lastReader' \in [Transfers -> Int]
    BY <1>1 DEF PrepareChunk, PlaceType
  <2>3. prefetchErr' \in [Transfers -> BOOLEAN]
    BY <1>1, <2>1 DEF PrepareChunk
  <2>4. UNCHANGED <<buffer, retries, ram>>
    BY <1>1 DEF PrepareChunk
  <2> QED BY <2>2, <2>3, <2>4
<1>2. ASSUME NEW t \in Transfers, PrefetchGetsRam(t) PROVE ReaderType'
  BY <1>2 DEF PrefetchGetsRam, MoveChunk
<1>3. ASSUME NEW t \in Transfers, PrefetchCancelled(t) PROVE ReaderType'
  BY <1>3 DEF PrefetchCancelled
<1>4. ASSUME NEW t \in Transfers, PrefetchReads(t) PROVE ReaderType'
  <2> DEFINE c == <<t, nextChunk[t]>>
  <2>3. /\ buffer' \in {buffer, [buffer EXCEPT ![c] = TRUE]}
        /\ ram' \in {ram, ram - 1}
    BY <1>4 DEF PrefetchReads
  <2> HIDE DEF c
  <2>4. buffer' = buffer => buffer' \in [AllChunks -> BOOLEAN]
    OBVIOUS
  <2>5. buffer' = [buffer EXCEPT ![c] = TRUE] => buffer' \in [AllChunks -> BOOLEAN]
    OBVIOUS
  <2>1. buffer' \in [AllChunks -> BOOLEAN] /\ ram' \in Int
    BY <2>3, <2>4, <2>5
  <2>2. prefetchErr' \in [Transfers -> BOOLEAN]
    BY <1>4 DEF PrefetchReads
  <2> QED BY <1>4, <2>1, <2>2 DEF PrefetchReads
<1>5. ASSUME NEW t \in Transfers, DispatchChunk(t) PROVE ReaderType'
  <2> DEFINE c == <<t, lastReader[t]>>
  <2>2. /\ buffer' \in {buffer, [buffer EXCEPT ![c] = FALSE]}
        /\ ram' \in {ram, ram - 1}
    BY <1>5 DEF DispatchChunk, CloseBuffer
  <2> HIDE DEF c
  <2>4. buffer' = buffer => buffer' \in [AllChunks -> BOOLEAN]
    OBVIOUS
  <2>5. buffer' = [buffer EXCEPT ![c] = FALSE] => buffer' \in [AllChunks -> BOOLEAN]
    OBVIOUS
  <2>1. buffer' \in [AllChunks -> BOOLEAN] /\ ram' \in Int
    BY <2>2, <2>4, <2>5
  <2> QED BY <1>5, <2>1 DEF DispatchChunk
<1>6. ASSUME NEW c \in AllChunks, SendSucceeds(c) PROVE ReaderType'
  BY <1>6, ChunkShape DEF SendSucceeds, ServiceTakes, CloseBuffer, MoveChunk
<1>7. ASSUME NEW c \in AllChunks, SendMustRetry(c) PROVE ReaderType'
  <2>1. retries' \in [AllChunks -> 0..MaxRetries]
    BY <1>7, SendAssumption DEF SendMustRetry
  <2> QED BY <1>7, <2>1 DEF SendMustRetry, CloseBuffer
<1>8. ASSUME NEW c \in AllChunks, RetryPrefetch(c) PROVE ReaderType'
  BY <1>8, ChunkShape DEF RetryPrefetch, MoveChunk
<1>9. ASSUME NEW c \in AllChunks, SendFails(c) PROVE ReaderType'
  BY <1>9, ChunkShape DEF SendFails, ServiceTakes, FailActive, SetStatus, CloseBuffer,
     MoveChunk
<1>10. ASSUME NEW t \in Transfers,
              InitialChecks(t) \/ WaitUntilLockDestination(t) \/ CheckSource(t) \/
              CommitBlockList(t)
      PROVE  ReaderType'
  BY <1>10 DEF InitialChecks, WaitUntilLockDestination, CheckSource, CommitBlockList, EndsEarly
<1>11. ASSUME NEW t \in Transfers,
              CheckLength(t) \/ Cleanup(t) \/ Unlock(t) \/ Complete(t) \/ Report(t)
      PROVE  ReaderType'
  BY <1>11 DEF CheckLength, Cleanup, Unlock, Complete, Report
<1>12. ASSUME NEW c \in AllChunks, StartChunk(c) \/ ReportChunkBytes(c) \/ ReportChunkDone(c)
      PROVE  ReaderType'
  BY <1>12 DEF StartChunk, ReportChunkBytes, ReportChunkDone
<1>13. CASE UNCHANGED vars \/ CancelJob
  BY <1>13 DEF CancelJob
<1> QED
  BY <1>1, <1>2, <1>3, <1>4, <1>5, <1>6, <1>7, <1>8, <1>9, <1>10, <1>11, <1>12, <1>13 DEF
     Next, TransferStep, ChunkStep

(* A step keeps the types of the counts of bytes.                          *)
LEMMA BytesTypeStep ==
    ASSUME BytesType, [Next]_vars
    PROVE  BytesType'
<1> USE TransferAssumption DEF BytesType, NotCancelled, EpilogueFrame, vars, jptmVars,
        lockVars, byteVars, schedVars, ramVars,
        remoteVars, senderVars, serviceVars
<1>1. ASSUME NEW c \in AllChunks, ReportChunkBytes(c) PROVE BytesType'
  BY <1>1, ChunkShape DEF ReportChunkBytes, AddChunkBytes, MoveChunk
<1>2. ASSUME NEW t \in Transfers, Report(t) PROVE BytesType'
  BY <1>2 DEF Report, ReportTransferDone, SubtractBytes, GoTo
<1>3. ASSUME NEW t \in Transfers,
             InitialChecks(t) \/ WaitUntilLockDestination(t) \/ PrepareChunk(t) \/
             PrefetchGetsRam(t) \/ PrefetchCancelled(t) \/ PrefetchReads(t)
      PROVE  BytesType'
  BY <1>3 DEF InitialChecks, WaitUntilLockDestination, PrepareChunk, PrefetchGetsRam,
     PrefetchCancelled, PrefetchReads, EndsEarly
<1>4. ASSUME NEW t \in Transfers,
             DispatchChunk(t) \/ CheckSource(t) \/ CommitBlockList(t) \/
             CheckLength(t) \/ Cleanup(t) \/ Unlock(t) \/ Complete(t)
      PROVE  BytesType'
  BY <1>4 DEF DispatchChunk, CheckSource, CommitBlockList, CheckLength, Cleanup, Unlock,
     Complete
<1>5. ASSUME NEW c \in AllChunks,
             StartChunk(c) \/ SendSucceeds(c) \/ SendMustRetry(c) \/
             RetryPrefetch(c) \/ SendFails(c) \/ ReportChunkDone(c)
      PROVE  BytesType'
  BY <1>5 DEF StartChunk, SendSucceeds, SendMustRetry, RetryPrefetch, SendFails,
     ReportChunkDone
<1>6. CASE UNCHANGED vars \/ CancelJob
  BY <1>6 DEF CancelJob
<1> QED
  BY <1>1, <1>2, <1>3, <1>4, <1>5, <1>6 DEF Next, TransferStep, ChunkStep

(* A step keeps the type of what was found at the destination.             *)
LEMMA FoundTypeStep ==
    ASSUME FoundType, [Next]_vars
    PROVE  FoundType'
<1> USE TransferAssumption DEF FoundType, NotCancelled, EpilogueFrame, vars, jptmVars,
        lockVars, byteVars, schedVars, ramVars,
        remoteVars, senderVars, serviceVars
<1>1. ASSUME NEW t \in Transfers, DispatchChunk(t) PROVE FoundType'
  BY <1>1 DEF DispatchChunk, Prologue, MoveChunk, GoTo, CloseBuffer
<1>2. ASSUME NEW c \in AllChunks, SendSucceeds(c) PROVE FoundType'
  BY <1>2, ChunkShape DEF SendSucceeds, ServiceTakes, CloseBuffer, MoveChunk
<1>3. ASSUME NEW c \in AllChunks, SendMustRetry(c) PROVE FoundType'
  BY <1>3, ChunkShape DEF SendMustRetry, ServiceTakes, CloseBuffer, MoveChunk
<1>4. ASSUME NEW c \in AllChunks, SendFails(c) PROVE FoundType'
  BY <1>4, ChunkShape DEF SendFails, ServiceTakes, FailActive, SetStatus, CloseBuffer,
     MoveChunk
<1>5. ASSUME NEW t \in Transfers, CommitBlockList(t) PROVE FoundType'
  BY <1>5 DEF CommitBlockList, FailActive, SetStatus, GoTo, HasAllBlocks
<1>6. ASSUME NEW t \in Transfers, Cleanup(t) PROVE FoundType'
  BY <1>6 DEF Cleanup, GoTo
<1>7. ASSUME NEW t \in Transfers,
             InitialChecks(t) \/ WaitUntilLockDestination(t) \/ PrepareChunk(t) \/
             PrefetchGetsRam(t) \/ PrefetchCancelled(t)
      PROVE  FoundType'
  BY <1>7 DEF InitialChecks, WaitUntilLockDestination, PrepareChunk, PrefetchGetsRam,
     PrefetchCancelled, EndsEarly
<1>8. ASSUME NEW t \in Transfers,
             PrefetchReads(t) \/ CheckSource(t) \/ CheckLength(t) \/ Unlock(t) \/
             Complete(t) \/ Report(t)
      PROVE  FoundType'
  BY <1>8 DEF PrefetchReads, CheckSource, CheckLength, Unlock, Complete, Report
<1>9. ASSUME NEW c \in AllChunks,
             StartChunk(c) \/ RetryPrefetch(c) \/ ReportChunkBytes(c) \/
             ReportChunkDone(c)
      PROVE  FoundType'
  BY <1>9 DEF StartChunk, RetryPrefetch, ReportChunkBytes, ReportChunkDone
<1>10. CASE UNCHANGED vars \/ CancelJob
  BY <1>10 DEF CancelJob
<1> QED
  BY <1>1, <1>2, <1>3, <1>4, <1>5, <1>6, <1>7, <1>8, <1>9, <1>10 DEF Next, TransferStep,
     ChunkStep

(* Every variable keeps its type. *)
LEMMA TypeStep ==
    ASSUME TypeOK, [Next]_vars
    PROVE  TypeOK'
<1>1. /\ StatusType /\ LockType /\ PlaceType /\ ChunkType /\ SenderType
      /\ ReaderType /\ BytesType /\ FoundType
  BY DEF TypeOK, StatusType, LockType, PlaceType, ChunkType, SenderType, ReaderType,
         BytesType, FoundType
<1>2. /\ StatusType' /\ LockType' /\ PlaceType' /\ ChunkType' /\ SenderType'
      /\ ReaderType' /\ BytesType' /\ FoundType'
  BY <1>1, StatusTypeStep, LockTypeStep, PlaceTypeStep, ChunkTypeStep, SenderTypeStep,
     ReaderTypeStep, BytesTypeStep, FoundTypeStep
<1> QED
  BY <1>2 DEF TypeOK, StatusType, LockType, PlaceType, ChunkType, SenderType, ReaderType,
              BytesType, FoundType

-----------------------------------------------------------------------------
(* A transfer's steps do not touch the other transfers.  What they do to   *)
(* blocks, they do under the lock.                                         *)
SameView(u) ==
    /\ xpc'[u] = xpc[u] /\ nextChunk'[u] = nextChunk[u] /\ status'[u] = status[u]
    /\ chunksDone'[u] = chunksDone[u] /\ chunksWritten'[u] = chunksWritten[u]
    /\ blockIds'[u] = blockIds[u] /\ lockHeld'[u] = lockHeld[u]
    /\ timesReported'[u] = timesReported[u]
    /\ \A c \in Own(u) : chunk'[c] = chunk[c]
    /\ ctxDone[u] => ctxDone'[u]
    /\ u \in commits => u \in commits'
    /\ lockHeld[u] =>
           \A c \in Own(u) : c \in blocks[Destination[u]] => c \in blocks'[Destination[u]]

(* A transfer that sees nothing of a step keeps its invariant.             *)
LEMMA SameViewKeeps ==
    ASSUME NEW u \in Transfers, SameView(u), TransferInv(u), StatusType, StatusType'
    PROVE  TransferInv(u)'
<1> USE DEF SameView, TransferInv
<1>1. ChunksOf(u)'
  BY DEF ChunksOf, Own
<1>2. DoneOf(u)' = DoneOf(u) /\ WrittenOf(u)' = WrittenOf(u)
  BY DEF DoneOf, WrittenOf, Own
<1>3. CountOf(u)'
  BY <1>2 DEF CountOf
<1>4. LockOf(u)'
  BY DEF LockOf
<1>5. BlocksOf(u)'
  BY <1>2 DEF BlocksOf, LockOf, Own, Locked
<1>6. SettledOf(u)'
  BY DEF SettledOf
<1> QED BY <1>1, <1>3, <1>4, <1>5, <1>6

(* A chunk that is queued or runs belongs to a transfer with a lock.       *)
LEMMA ActiveChunk ==
    ASSUME NEW t \in Transfers, ChunksOf(t), LockOf(t), PlaceType, NEW c \in Own(t),
           chunk[c] \notin {"unscheduled", "waitForRam", "readDisk", "done"}
    PROVE  /\ lockHeld[t] /\ xpc[t] \in Scheduling \cup {"chunks"}
           /\ c[2] < nextChunk[t]
<1>1. c[2] \in Nat /\ c[2] < NumChunks[t] /\ NumChunks[t] \in Nat
  BY OwnShape, TransferAssumption DEF Chunk
<1> QED
  BY <1>1 DEF ChunksOf, LockOf, PlaceType, Locked, Scheduling, BeforeChunks, AfterChunks,
              InEpilogue

(* The service takes a chunk at its own destination only. *)
LEMMA TakenElsewhere ==
    ASSUME SenderType, NEW c \in AllChunks, ServiceTakes(c)
    PROVE  /\ \A d \in Destinations : d # Destination[c[1]] => blocks'[d] = blocks[d]
           /\ commits \subseteq commits'
BY ChunkShape, TransferAssumption DEF SenderType, ServiceTakes

(* A step of one transfer, or of a chunk of it, shows nothing to another.  *)
LEMMA Elsewhere ==
    ASSUME SendInv, NEW t \in Transfers, NEW u \in Transfers, u # t,
           TransferStep(t) \/ \E c \in Own(t) : ChunkStep(c)
    PROVE  SameView(u)
<1> USE TransferAssumption DEF NotCancelled, EpilogueFrame, vars, jptmVars, lockVars,
        byteVars, schedVars, ramVars,
        remoteVars, senderVars, serviceVars
<1>1. /\ StatusType /\ LockType /\ PlaceType /\ ChunkType /\ SenderType
      /\ OneHolder /\ ChunksOf(t) /\ LockOf(t)
  BY DEF SendInv, TransferInv, TypeOK, StatusType, LockType, PlaceType, ChunkType, SenderType
<1>2. \A c \in Own(u), d \in Own(t) : c # d
  BY DEF Own
<1>3. \A c \in Own(u) : c # <<t, nextChunk[t]>>
  BY OwnShape
<1>4. lockHeld[t] /\ lockHeld[u] => Destination[u] # Destination[t]
  BY <1>1 DEF OneHolder
<1>5. \A c \in Own(t) : c \in AllChunks /\ c[1] = t
  BY DEF Own
<1>6. CASE InitialChecks(t)
  BY <1>6, <1>1, <1>3 DEF SameView, StatusType, LockType, PlaceType, ChunkType,
     SenderType, OneHolder, LockOf, Locked, Scheduling, InitialChecks, EndsEarly,
     SetStatus, GoTo
<1>7. CASE WaitUntilLockDestination(t)
  BY <1>7, <1>1, <1>3 DEF SameView, StatusType, LockType, PlaceType, ChunkType,
     SenderType, OneHolder, LockOf, Locked, Scheduling, WaitUntilLockDestination,
     EndsEarly, LockDestination, SetStatus, GoTo
<1>8. CASE PrepareChunk(t)
  <2> DEFINE next == <<t, nextChunk[t]>>
  <2>1. /\ chunk' \in {chunk, [chunk EXCEPT ![next] = "waitForRam"]}
        /\ xpc' \in {[xpc EXCEPT ![t] = "prefetch"], [xpc EXCEPT ![t] = "dispatch"]}
        /\ UNCHANGED <<jptmVars, nextChunk, remoteVars>>
    BY <1>8 DEF PrepareChunk, MoveChunk, GoTo
  <2>4. \A c \in Own(u) : c # next
    BY <1>3
  <2> HIDE DEF next
  <2>5. \A c \in Own(u) : chunk'[c] = chunk[c]
    BY <2>1, <2>4, <1>1 DEF ChunkType, Own
  <2> QED BY <2>1, <2>5, <1>1 DEF SameView, PlaceType, ChunkType
<1>9. CASE PrefetchGetsRam(t)
  BY <1>9, <1>1, <1>3 DEF SameView, StatusType, LockType, PlaceType, ChunkType,
     SenderType, OneHolder, LockOf, Locked, Scheduling, PrefetchGetsRam, MoveChunk
<1>10. CASE PrefetchCancelled(t)
  BY <1>10, <1>1, <1>3 DEF SameView, StatusType, LockType, PlaceType, ChunkType,
     SenderType, OneHolder, LockOf, Locked, Scheduling, PrefetchCancelled, GoTo
<1>11. CASE PrefetchReads(t)
  BY <1>11, <1>1, <1>3 DEF SameView, StatusType, LockType, PlaceType, ChunkType,
     SenderType, OneHolder, LockOf, Locked, Scheduling, PrefetchReads, GoTo
<1>12. CASE DispatchChunk(t)
  <2> DEFINE next == <<t, nextChunk[t]>>
  <2>1. /\ chunk' \in {[chunk EXCEPT ![next] = "queuedToFail"], [chunk EXCEPT ![next] = "queued"]}
        /\ xpc' \in {[xpc EXCEPT ![t] = "chunks"], [xpc EXCEPT ![t] = "schedule"]}
        /\ nextChunk' = [nextChunk EXCEPT ![t] = nextChunk[t] + 1]
        /\ UNCHANGED <<jptmVars, blockIds, chunksWritten, commits>>
    BY <1>12 DEF DispatchChunk, MoveChunk, GoTo
  <2>2. blocks' \in {blocks, [blocks EXCEPT ![Destination[t]] = {}]}
    BY <1>12 DEF DispatchChunk, Prologue
  <2>3. lockHeld[t]
    BY <1>12, <1>1 DEF DispatchChunk, LockOf, Locked, Scheduling
  <2>4. \A c \in Own(u) : c # next
    BY <1>3
  <2> HIDE DEF next
  <2>5. \A c \in Own(u) : chunk'[c] = chunk[c]
    BY <2>1, <2>4, <1>1 DEF ChunkType, Own
  <2> QED BY <2>1, <2>2, <2>3, <2>5, <1>1, <1>4 DEF SameView, PlaceType, ChunkType, SenderType
<1>13. CASE CheckSource(t)
  BY <1>13, <1>1, <1>3 DEF SameView, StatusType, LockType, PlaceType, ChunkType,
     SenderType, OneHolder, LockOf, Locked, Scheduling, CheckSource, SetStatus,
     FailActive, GoTo
<1>14. CASE CommitBlockList(t)
  BY <1>14, <1>1, <1>3 DEF SameView, StatusType, LockType, PlaceType, ChunkType,
     SenderType, OneHolder, LockOf, Locked, Scheduling, CommitBlockList, FailActive,
     SetStatus, GoTo, HasAllBlocks
<1>15. CASE CheckLength(t)
  BY <1>15, <1>1, <1>3 DEF SameView, StatusType, LockType, PlaceType, ChunkType,
     SenderType, OneHolder, LockOf, Locked, Scheduling, CheckLength, FailActive,
     SetStatus, GoTo
<1>16. CASE Cleanup(t)
  BY <1>16, <1>1, <1>3 DEF SameView, StatusType, LockType, PlaceType, ChunkType,
     SenderType, OneHolder, LockOf, Locked, Scheduling, Cleanup, GoTo
<1>17. CASE Unlock(t)
  BY <1>17, <1>1, <1>3 DEF SameView, StatusType, LockType, PlaceType, ChunkType,
     SenderType, OneHolder, LockOf, Locked, Scheduling, Unlock, EnsureDestinationUnlocked,
     GoTo
<1>18. CASE Complete(t)
  BY <1>18, <1>1, <1>3 DEF SameView, StatusType, LockType, PlaceType, ChunkType,
     SenderType, OneHolder, LockOf, Locked, Scheduling, Complete, SetStatus, GoTo
<1>19. CASE Report(t)
  BY <1>19, <1>1, <1>3 DEF SameView, StatusType, LockType, PlaceType, ChunkType,
     SenderType, OneHolder, LockOf, Locked, Scheduling, Report, ReportTransferDone,
     SubtractBytes, GoTo
<1>20. ASSUME NEW c \in Own(t), StartChunk(c) PROVE SameView(u)
  BY <1>20, <1>1, <1>2, OwnShape DEF SameView, StatusType, LockType, PlaceType, ChunkType,
     SenderType, OneHolder, LockOf, ChunksOf, Locked, Scheduling, BeforeChunks,
     AfterChunks, InEpilogue, StartChunk, FailActive, SetStatus, MoveChunk,
     ChunkAlreadyTransferred
<1>21. ASSUME NEW c \in Own(t), SendSucceeds(c) PROVE SameView(u)
  <2>1. lockHeld[t]
    BY <1>21, <1>1, ActiveChunk DEF SendSucceeds
  <2>2. /\ \A d \in Destinations : d # Destination[t] => blocks'[d] = blocks[d]
        /\ commits \subseteq commits'
    BY <1>21, <1>1, <1>5, TakenElsewhere DEF SendSucceeds
  <2> QED
    BY <1>21, <1>1, <1>2, <1>4, <1>5, <2>1, <2>2
    DEF SameView, StatusType, ChunkType, SenderType, SendSucceeds, MoveChunk
<1>22. ASSUME NEW c \in Own(t), SendMustRetry(c) PROVE SameView(u)
  <2>1. lockHeld[t]
    BY <1>22, <1>1, ActiveChunk DEF SendMustRetry
  <2>2. /\ \A d \in Destinations : d # Destination[t] => blocks'[d] = blocks[d]
        /\ commits \subseteq commits'
    BY <1>22, <1>1, <1>5, TakenElsewhere DEF SendMustRetry
  <2> QED
    BY <1>22, <1>1, <1>2, <1>4, <1>5, <2>1, <2>2
    DEF SameView, StatusType, ChunkType, SenderType, SendMustRetry, MoveChunk
<1>23. ASSUME NEW c \in Own(t), RetryPrefetch(c) PROVE SameView(u)
  BY <1>23, <1>1, <1>2, OwnShape DEF SameView, StatusType, LockType, PlaceType, ChunkType,
     SenderType, OneHolder, LockOf, ChunksOf, Locked, Scheduling, BeforeChunks,
     AfterChunks, InEpilogue, RetryPrefetch, MoveChunk
<1>24. ASSUME NEW c \in Own(t), SendFails(c) PROVE SameView(u)
  <2>1. lockHeld[t]
    BY <1>24, <1>1, ActiveChunk DEF SendFails
  <2>2. /\ \A d \in Destinations : d # Destination[t] => blocks'[d] = blocks[d]
        /\ commits \subseteq commits'
    BY <1>24, <1>1, <1>5, TakenElsewhere DEF SendFails
  <2> QED
    BY <1>24, <1>1, <1>2, <1>4, <1>5, <2>1, <2>2
    DEF SameView, StatusType, ChunkType, SenderType, SendFails, FailActive, SetStatus, MoveChunk
<1>25. ASSUME NEW c \in Own(t), ReportChunkBytes(c) PROVE SameView(u)
  BY <1>25, <1>1, <1>2, OwnShape DEF SameView, StatusType, LockType, PlaceType, ChunkType,
     SenderType, OneHolder, LockOf, ChunksOf, Locked, Scheduling, BeforeChunks,
     AfterChunks, InEpilogue, ReportChunkBytes, AddChunkBytes, MoveChunk
<1>26. ASSUME NEW c \in Own(t), ReportChunkDone(c) PROVE SameView(u)
  BY <1>26, <1>1, <1>2, OwnShape DEF SameView, StatusType, LockType, PlaceType, ChunkType,
     SenderType, OneHolder, LockOf, ChunksOf, Locked, Scheduling, BeforeChunks,
     AfterChunks, InEpilogue, ReportChunkDone, CountChunk, IsLastChunk, MoveChunk, GoTo
<1> QED
  BY <1>6, <1>7, <1>8, <1>9, <1>10, <1>11, <1>12, <1>13, <1>14, <1>15, <1>16, <1>17,
     <1>18, <1>19, <1>20, <1>21, <1>22, <1>23, <1>24, <1>25, <1>26 DEF TransferStep,
     ChunkStep

-----------------------------------------------------------------------------
(* What a transfer's own steps keep.                                       *)

(* The chunk that brings the counter to the number of chunks is the last   *)
(* one to be done.                                                         *)
LEMMA DoneGrows ==
    ASSUME NEW t \in Transfers, CountOf(t), ChunkType, NEW c \in Own(t), ReportChunkDone(c)
    PROVE  /\ CountOf(t)'
           /\ IsLastChunk(t) => \A d \in Own(t) : chunk'[d] = "done"
<1>1. c \in AllChunks /\ c[1] = t /\ c \notin DoneOf(t)
  BY DEF Own, DoneOf, ReportChunkDone
<1>2. chunk' = [chunk EXCEPT ![c] = "done"] /\ chunksDone' = [chunksDone EXCEPT ![t] = @ + 1]
  BY <1>1 DEF ReportChunkDone, MoveChunk, CountChunk
<1>3. DoneOf(t)' = DoneOf(t) \cup {c}
  BY <1>1, <1>2 DEF DoneOf, Own, ChunkType
<1>4. DoneOf(t) \subseteq Own(t) /\ DoneOf(t)' \subseteq Own(t)
  BY <1>1, <1>3 DEF DoneOf
<1>5. IsFiniteSet(DoneOf(t)) /\ Cardinality(DoneOf(t)') = Cardinality(DoneOf(t)) + 1
  BY <1>1, <1>3, <1>4, WholeOwn, FS_AddElement
<1>6. CountOf(t)'
  BY <1>2, <1>5 DEF CountOf, ChunkType
<1>7. IsLastChunk(t) => DoneOf(t)' = Own(t)
  <2>1. IsLastChunk(t) => Cardinality(DoneOf(t)') = NumChunks[t]
    BY <1>2, <1>5 DEF CountOf, IsLastChunk
  <2> QED BY <2>1, <1>3, <1>4, WholeOwn
<1>8. DoneOf(t)' = {d \in Own(t) : chunk'[d] = "done"}
  BY DEF DoneOf, Own
<1> QED BY <1>6, <1>7, <1>8

(* A step of a transfer keeps what is said of its chunks' places.          *)
LEMMA ChunksStep ==
    ASSUME SendInv, NEW t \in Transfers, TransferStep(t) \/ \E c \in Own(t) : ChunkStep(c)
    PROVE  ChunksOf(t)'
<1> USE TransferAssumption DEF NotCancelled, EpilogueFrame, vars, jptmVars, lockVars,
        byteVars, schedVars, ramVars,
        remoteVars, senderVars, serviceVars,
        Scheduling, BeforeChunks, AfterChunks, InEpilogue
<1>1. /\ PlaceType /\ ChunkType /\ ChunksOf(t) /\ CountOf(t) /\ LockOf(t)
  BY DEF SendInv, TransferInv, TypeOK, PlaceType, ChunkType
<1>2. /\ \A c \in Own(t) : /\ c \in AllChunks /\ c[1] = t /\ c[2] \in Nat
                          /\ c[2] < NumChunks[t] /\ c = <<t, c[2]>>
      /\ NumChunks[t] \in Nat \ {0}
  BY OwnShape DEF Chunk
<1>3. nextChunk[t] \in Nat /\ (nextChunk[t] < NumChunks[t] => <<t, nextChunk[t]>> \in Own(t))
  BY <1>1, <1>2, OwnShape DEF Chunk, PlaceType
<1>4. Own(t)' = Own(t)
  BY DEF Own
<1>5. CASE InitialChecks(t)
  BY <1>5, <1>1, <1>2, <1>3, <1>4 DEF ChunksOf, PlaceType, ChunkType, InitialChecks,
     EndsEarly, SetStatus, GoTo
<1>6. CASE WaitUntilLockDestination(t)
  BY <1>6, <1>1, <1>2, <1>3, <1>4 DEF ChunksOf, PlaceType, ChunkType,
     WaitUntilLockDestination, EndsEarly, LockDestination, SetStatus, GoTo
<1>7. CASE PrepareChunk(t)
  BY <1>7, <1>1, <1>2, <1>3, <1>4 DEF ChunksOf, PlaceType, ChunkType, PrepareChunk,
     MoveChunk, GoTo
<1>8. CASE PrefetchGetsRam(t)
  BY <1>8, <1>1, <1>2, <1>3, <1>4 DEF ChunksOf, PlaceType, ChunkType, PrefetchGetsRam,
     MoveChunk
<1>9. CASE PrefetchCancelled(t)
  BY <1>9, <1>1, <1>2, <1>3, <1>4 DEF ChunksOf, PlaceType, ChunkType, PrefetchCancelled, GoTo
<1>10. CASE PrefetchReads(t)
  BY <1>10, <1>1, <1>2, <1>3, <1>4 DEF ChunksOf, PlaceType, ChunkType, PrefetchReads, GoTo
<1>11. CASE DispatchChunk(t)
  BY <1>11, <1>1, <1>2, <1>3, <1>4 DEF ChunksOf, PlaceType, ChunkType, DispatchChunk,
     Prologue, MoveChunk, GoTo, CloseBuffer
<1>12. CASE CheckSource(t)
  BY <1>12, <1>1, <1>2, <1>3, <1>4 DEF ChunksOf, PlaceType, ChunkType, CheckSource,
     SetStatus, FailActive, GoTo
<1>13. CASE CommitBlockList(t)
  BY <1>13, <1>1, <1>2, <1>3, <1>4 DEF ChunksOf, PlaceType, ChunkType, CommitBlockList,
     FailActive, SetStatus, GoTo, HasAllBlocks
<1>14. CASE CheckLength(t)
  BY <1>14, <1>1, <1>2, <1>3, <1>4 DEF ChunksOf, PlaceType, ChunkType, CheckLength,
     FailActive, SetStatus, GoTo
<1>15. CASE Cleanup(t)
  BY <1>15, <1>1, <1>2, <1>3, <1>4 DEF ChunksOf, PlaceType, ChunkType, Cleanup, GoTo
<1>16. CASE Unlock(t)
  BY <1>16, <1>1, <1>2, <1>3, <1>4 DEF ChunksOf, PlaceType, ChunkType, Unlock,
     EnsureDestinationUnlocked, GoTo
<1>17. CASE Complete(t)
  BY <1>17, <1>1, <1>2, <1>3, <1>4 DEF ChunksOf, PlaceType, ChunkType, Complete,
     SetStatus, GoTo
<1>18. CASE Report(t)
  BY <1>18, <1>1, <1>2, <1>3, <1>4 DEF ChunksOf, PlaceType, ChunkType, Report,
     ReportTransferDone, SubtractBytes, GoTo
<1>19. ASSUME NEW c \in Own(t), StartChunk(c) PROVE ChunksOf(t)'
  BY <1>19, <1>1, <1>2, <1>3, <1>4, ActiveChunk DEF ChunksOf, PlaceType, ChunkType,
     StartChunk, FailActive, SetStatus, MoveChunk, ChunkAlreadyTransferred
<1>20. ASSUME NEW c \in Own(t), SendSucceeds(c) PROVE ChunksOf(t)'
  BY <1>20, <1>1, <1>2, <1>3, <1>4, ActiveChunk DEF ChunksOf, PlaceType, ChunkType,
     SendSucceeds, ServiceTakes, CloseBuffer, MoveChunk
<1>21. ASSUME NEW c \in Own(t), SendMustRetry(c) PROVE ChunksOf(t)'
  BY <1>21, <1>1, <1>2, <1>3, <1>4, ActiveChunk DEF ChunksOf, PlaceType, ChunkType,
     SendMustRetry, ServiceTakes, CloseBuffer, MoveChunk
<1>22. ASSUME NEW c \in Own(t), RetryPrefetch(c) PROVE ChunksOf(t)'
  BY <1>22, <1>1, <1>2, <1>3, <1>4, ActiveChunk DEF ChunksOf, PlaceType, ChunkType,
     RetryPrefetch, MoveChunk
<1>23. ASSUME NEW c \in Own(t), SendFails(c) PROVE ChunksOf(t)'
  BY <1>23, <1>1, <1>2, <1>3, <1>4, ActiveChunk DEF ChunksOf, PlaceType, ChunkType,
     SendFails, ServiceTakes, FailActive, SetStatus, CloseBuffer, MoveChunk
<1>24. ASSUME NEW c \in Own(t), ReportChunkBytes(c) PROVE ChunksOf(t)'
  BY <1>24, <1>1, <1>2, <1>3, <1>4, ActiveChunk DEF ChunksOf, PlaceType, ChunkType,
     ReportChunkBytes, AddChunkBytes, MoveChunk
<1>25. ASSUME NEW c \in Own(t), ReportChunkDone(c) PROVE ChunksOf(t)'
  <2>1. /\ chunk' = [chunk EXCEPT ![c] = "done"] /\ UNCHANGED nextChunk
        /\ c[2] < nextChunk[t] /\ xpc[t] \in Scheduling \cup {"chunks"}
    BY <1>25, <1>1, ActiveChunk DEF ReportChunkDone, MoveChunk
  <2>2. CASE IsLastChunk(t)
    <3>1. xpc' = [xpc EXCEPT ![t] = "epilogue"] /\ \A d \in Own(t) : chunk'[d] = "done"
      BY <1>25, <1>1, <1>2, <2>2, DoneGrows DEF ReportChunkDone, GoTo
    <3>2. nextChunk[t] = NumChunks[t]
      <4>1. SUFFICES ASSUME nextChunk[t] < NumChunks[t] PROVE FALSE
        BY <1>1, <1>3, <2>1 DEF ChunksOf
      <4>2. PICK d \in Own(t) : d = <<t, nextChunk[t]>>
        BY <4>1, <1>3
      <4>3. chunk'[d] = chunk[d] /\ chunk[d] # "done"
        BY <4>2, <1>1, <1>2, <1>3, <2>1 DEF ChunksOf, ChunkType
      <4> QED BY <3>1, <4>3
    <3> QED BY <2>1, <3>1, <3>2, <1>1, <1>2, <1>4 DEF ChunksOf, PlaceType
  <2>3. CASE ~IsLastChunk(t)
    <3>1. xpc' = xpc
      BY <1>25, <1>2, <2>3 DEF ReportChunkDone
    <3> QED BY <2>1, <3>1, <1>1, <1>2, <1>3, <1>4 DEF ChunksOf, ChunkType
  <2> QED BY <2>2, <2>3
<1> QED
  BY <1>5, <1>6, <1>7, <1>8, <1>9, <1>10, <1>11, <1>12, <1>13, <1>14, <1>15, <1>16, <1>17,
     <1>18, <1>19, <1>20, <1>21, <1>22, <1>23, <1>24, <1>25 DEF TransferStep, ChunkStep

(* A step of a transfer keeps the count of its chunks that are done.       *)
LEMMA CountStep ==
    ASSUME SendInv, NEW t \in Transfers, TransferStep(t) \/ \E c \in Own(t) : ChunkStep(c)
    PROVE  CountOf(t)'
<1> USE TransferAssumption DEF NotCancelled, EpilogueFrame, vars, jptmVars, lockVars,
        byteVars, schedVars, ramVars,
        remoteVars, senderVars, serviceVars
<1>1. /\ PlaceType /\ ChunkType /\ ChunksOf(t) /\ CountOf(t) /\ LockOf(t)
  BY DEF SendInv, TransferInv, TypeOK, PlaceType, ChunkType
<1>2. \A c \in Own(t) : c \in AllChunks /\ c[1] = t /\ c[2] < NumChunks[t]
  BY OwnShape DEF Chunk
<1>3. ASSUME chunksDone'[t] = chunksDone[t],
             \A d \in Own(t) : chunk'[d] = "done" <=> chunk[d] = "done"
      PROVE  CountOf(t)'
  <2>1. DoneOf(t)' = DoneOf(t)
    BY <1>3 DEF DoneOf, Own
  <2> QED BY <2>1, <1>1, <1>3 DEF CountOf
<1>4. nextChunk[t] \in Nat
  BY <1>1 DEF PlaceType
<1>5. \A d \in Own(t) : d = <<t, nextChunk[t]>> => chunk[d] # "done"
  BY <1>1, <1>2, <1>4 DEF ChunksOf
<1>6. CASE InitialChecks(t) \/ WaitUntilLockDestination(t) \/ PrefetchCancelled(t) \/
           PrefetchReads(t) \/ CheckSource(t)
  BY <1>6, <1>3 DEF InitialChecks, WaitUntilLockDestination, PrefetchCancelled,
     PrefetchReads, CheckSource, EndsEarly
<1>7. CASE CommitBlockList(t) \/ CheckLength(t) \/ Cleanup(t) \/ Unlock(t) \/
           Complete(t) \/ Report(t)
  BY <1>7, <1>3 DEF CommitBlockList, CheckLength, Cleanup, Unlock, Complete, Report, EndsEarly
<1>8. CASE PrepareChunk(t)
  BY <1>8, <1>1, <1>2, <1>3, <1>5 DEF ChunkType, PrepareChunk, MoveChunk
<1>9. CASE PrefetchGetsRam(t)
  BY <1>9, <1>1, <1>2, <1>3, <1>5 DEF ChunkType, PrefetchGetsRam, MoveChunk
<1>10. CASE DispatchChunk(t)
  BY <1>10, <1>1, <1>2, <1>3, <1>5 DEF ChunkType, DispatchChunk, MoveChunk
<1>11. ASSUME NEW c \in Own(t), StartChunk(c) PROVE CountOf(t)'
  BY <1>11, <1>1, <1>2, <1>3 DEF ChunkType, StartChunk, MoveChunk
<1>12. ASSUME NEW c \in Own(t), SendSucceeds(c) PROVE CountOf(t)'
  BY <1>12, <1>1, <1>2, <1>3 DEF ChunkType, SendSucceeds, MoveChunk
<1>13. ASSUME NEW c \in Own(t), SendMustRetry(c) PROVE CountOf(t)'
  BY <1>13, <1>1, <1>2, <1>3 DEF ChunkType, SendMustRetry, MoveChunk
<1>14. ASSUME NEW c \in Own(t), RetryPrefetch(c) PROVE CountOf(t)'
  BY <1>14, <1>1, <1>2, <1>3 DEF ChunkType, RetryPrefetch, MoveChunk
<1>15. ASSUME NEW c \in Own(t), SendFails(c) PROVE CountOf(t)'
  BY <1>15, <1>1, <1>2, <1>3 DEF ChunkType, SendFails, MoveChunk
<1>16. ASSUME NEW c \in Own(t), ReportChunkBytes(c) PROVE CountOf(t)'
  BY <1>16, <1>1, <1>2, <1>3 DEF ChunkType, ReportChunkBytes, MoveChunk
<1>17. ASSUME NEW c \in Own(t), ReportChunkDone(c) PROVE CountOf(t)'
  BY <1>17, <1>1, DoneGrows
<1> QED
  BY <1>6, <1>7, <1>8, <1>9, <1>10, <1>11, <1>12, <1>13, <1>14, <1>15, <1>16, <1>17 DEF
     TransferStep, ChunkStep

(* A step of a transfer keeps its lock with its place, and its report last. *)
LEMMA LockStep ==
    ASSUME SendInv, NEW t \in Transfers, TransferStep(t) \/ \E c \in Own(t) : ChunkStep(c)
    PROVE  LockOf(t)'
<1> USE TransferAssumption DEF NotCancelled, EpilogueFrame, vars, jptmVars, lockVars,
        byteVars, schedVars, ramVars,
        remoteVars, senderVars, serviceVars,
        Scheduling, Locked
<1>1. /\ PlaceType /\ LockType /\ ChunksOf(t) /\ LockOf(t)
  BY DEF SendInv, TransferInv, TypeOK, PlaceType, LockType
<1>2. \A c \in Own(t) : c[1] = t
  BY DEF Own
<1>3. CASE InitialChecks(t)
  BY <1>3, <1>1 DEF LockOf, PlaceType, LockType, InitialChecks, EndsEarly, GoTo
<1>4. CASE WaitUntilLockDestination(t)
  BY <1>4, <1>1 DEF LockOf, PlaceType, LockType, WaitUntilLockDestination, EndsEarly,
     LockDestination, GoTo
<1>5. CASE PrepareChunk(t)
  BY <1>5, <1>1 DEF LockOf, PlaceType, LockType, PrepareChunk, MoveChunk, GoTo
<1>6. CASE PrefetchGetsRam(t)
  BY <1>6, <1>1 DEF LockOf, PlaceType, LockType, PrefetchGetsRam, MoveChunk
<1>7. CASE PrefetchCancelled(t)
  BY <1>7, <1>1 DEF LockOf, PlaceType, LockType, PrefetchCancelled, GoTo
<1>8. CASE PrefetchReads(t)
  BY <1>8, <1>1 DEF LockOf, PlaceType, LockType, PrefetchReads, GoTo
<1>9. CASE DispatchChunk(t)
  BY <1>9, <1>1 DEF LockOf, PlaceType, LockType, DispatchChunk, Prologue, MoveChunk, GoTo,
     CloseBuffer
<1>10. CASE CheckSource(t)
  BY <1>10, <1>1 DEF LockOf, PlaceType, LockType, CheckSource, GoTo
<1>11. CASE CommitBlockList(t)
  BY <1>11, <1>1 DEF LockOf, PlaceType, LockType, CommitBlockList, GoTo, HasAllBlocks
<1>12. CASE CheckLength(t)
  BY <1>12, <1>1 DEF LockOf, PlaceType, LockType, CheckLength, GoTo
<1>13. CASE Cleanup(t)
  BY <1>13, <1>1 DEF LockOf, PlaceType, LockType, Cleanup, GoTo
<1>14. CASE Unlock(t)
  BY <1>14, <1>1 DEF LockOf, PlaceType, LockType, Unlock, EnsureDestinationUnlocked, GoTo
<1>15. CASE Complete(t)
  BY <1>15, <1>1 DEF LockOf, PlaceType, LockType, Complete, GoTo
<1>16. CASE Report(t)
  BY <1>16, <1>1 DEF LockOf, PlaceType, LockType, Report, ReportTransferDone,
     SubtractBytes, GoTo
<1>17. ASSUME NEW c \in Own(t),
              StartChunk(c) \/ SendSucceeds(c) \/ SendMustRetry(c) \/
              RetryPrefetch(c) \/ SendFails(c) \/ ReportChunkBytes(c)
      PROVE  LockOf(t)'
  BY <1>17, <1>1 DEF LockOf, StartChunk, SendSucceeds, SendMustRetry, RetryPrefetch,
     SendFails, ReportChunkBytes
<1>18. ASSUME NEW c \in Own(t), ReportChunkDone(c) PROVE LockOf(t)'
  BY <1>18, <1>1, <1>2, ActiveChunk DEF LockOf, PlaceType, ReportChunkDone, GoTo
<1> QED
  BY <1>3, <1>4, <1>5, <1>6, <1>7, <1>8, <1>9, <1>10, <1>11, <1>12, <1>13, <1>14, <1>15,
     <1>16, <1>17, <1>18 DEF TransferStep, ChunkStep

(* A chunk that is sent is counted among the written once.                 *)
LEMMA WrittenGrows ==
    ASSUME NEW t \in Transfers, SenderType, ChunkType, NEW c \in Own(t), SendSucceeds(c),
           chunksWritten[t] = Cardinality(WrittenOf(t))
    PROVE  chunksWritten'[t] = Cardinality(WrittenOf(t)')
<1>1. c \in AllChunks /\ c[1] = t /\ c \notin WrittenOf(t)
  BY DEF Own, WrittenOf, SendSucceeds
<1>2. /\ chunk' = [chunk EXCEPT ![c] = "reportBytes"]
      /\ chunksWritten' = [chunksWritten EXCEPT ![t] = @ + 1]
  BY <1>1 DEF SendSucceeds, MoveChunk
<1>3. WrittenOf(t)' = WrittenOf(t) \cup {c}
  BY <1>1, <1>2 DEF WrittenOf, Own, ChunkType
<1>4. WrittenOf(t) \subseteq Own(t)
  BY DEF WrittenOf
<1>5. Cardinality(WrittenOf(t)') = Cardinality(WrittenOf(t)) + 1
  BY <1>1, <1>3, <1>4, WholeOwn, FS_AddElement
<1> QED BY <1>2, <1>5 DEF SenderType

(* A step of a transfer keeps its blocks where its commit finds them.      *)
LEMMA BlocksStep ==
    ASSUME SendInv, NEW t \in Transfers, TransferStep(t) \/ \E c \in Own(t) : ChunkStep(c)
    PROVE  BlocksOf(t)'
<1> USE TransferAssumption DEF NotCancelled, EpilogueFrame, vars, jptmVars, lockVars,
        byteVars, schedVars, ramVars,
        remoteVars, senderVars, serviceVars,
        Scheduling
<1>1. /\ PlaceType /\ ChunkType /\ SenderType /\ StatusType
      /\ ChunksOf(t) /\ BlocksOf(t) /\ SettledOf(t) /\ LockOf(t)
  BY DEF SendInv, TransferInv, TypeOK, PlaceType, ChunkType, SenderType, StatusType
<1>2. /\ \A c \in Own(t) : /\ c \in AllChunks /\ c[1] = t /\ c[2] \in Nat
                          /\ c[2] < NumChunks[t] /\ c = <<t, c[2]>>
      /\ NumChunks[t] \in Nat \ {0}
  BY OwnShape DEF Chunk
<1>3. ASSUME chunksWritten'[t] = chunksWritten[t],
             \A d \in Own(t) : chunk'[d] \in {"reportBytes", "count", "done"}
                           <=> chunk[d] \in {"reportBytes", "count", "done"}
      PROVE  Cardinality(WrittenOf(t)') = Cardinality(WrittenOf(t))
  <2>1. WrittenOf(t)' = WrittenOf(t)
    BY <1>3 DEF WrittenOf, Own
  <2> QED BY <2>1
<1>4. Own(t)' = Own(t) /\ nextChunk[t] \in Nat /\ Destination[t] \in Destinations
  BY <1>1 DEF Own, PlaceType
<1>5. \A d \in Own(t) : d = <<t, nextChunk[t]>> =>
          chunk[d] \in {"unscheduled", "waitForRam", "readDisk"}
  BY <1>1, <1>2, <1>4 DEF ChunksOf
<1>6. CASE InitialChecks(t)
  BY <1>6, <1>1, <1>2, <1>3, <1>4, <1>5 DEF BlocksOf, ChunksOf, BeforeChunks, PlaceType,
     ChunkType, SenderType, InitialChecks, EndsEarly, GoTo
<1>7. CASE WaitUntilLockDestination(t)
  BY <1>7, <1>1, <1>2, <1>3, <1>4, <1>5 DEF BlocksOf, ChunksOf, BeforeChunks, PlaceType,
     ChunkType, SenderType, WaitUntilLockDestination, EndsEarly, LockDestination, GoTo
<1>8. CASE PrepareChunk(t)
  BY SMTT(30), <1>8, <1>1, <1>2, <1>3, <1>4, <1>5 DEF BlocksOf, ChunksOf, BeforeChunks, PlaceType,
     ChunkType, SenderType, PrepareChunk, MoveChunk, GoTo
<1>9. CASE PrefetchGetsRam(t)
  BY <1>9, <1>1, <1>2, <1>3, <1>4, <1>5 DEF BlocksOf, ChunksOf, BeforeChunks, PlaceType,
     ChunkType, SenderType, PrefetchGetsRam, MoveChunk
<1>10. CASE PrefetchCancelled(t)
  BY <1>10, <1>1, <1>2, <1>3, <1>4, <1>5 DEF BlocksOf, ChunksOf, BeforeChunks, PlaceType,
     ChunkType, SenderType, PrefetchCancelled, GoTo
<1>11. CASE PrefetchReads(t)
  BY <1>11, <1>1, <1>2, <1>3, <1>4, <1>5 DEF BlocksOf, ChunksOf, BeforeChunks, PlaceType,
     ChunkType, SenderType, PrefetchReads, GoTo
<1>12. CASE DispatchChunk(t)
  <2> DEFINE next == <<t, nextChunk[t]>>
  <2>1. /\ \/ chunk' = [chunk EXCEPT ![next] = "queuedToFail"]
           \/ chunk' = [chunk EXCEPT ![next] = "queued"]
        /\ xpc[t] = "dispatch" /\ xpc'[t] \in {"chunks", "schedule"}
        /\ UNCHANGED <<jptmVars, blockIds, chunksWritten, commits>>
    BY <1>12, <1>1 DEF DispatchChunk, MoveChunk, GoTo, PlaceType
  <2>2. blocks' = blocks \/ nextChunk[t] = 0
    BY <1>12 DEF DispatchChunk
  <2>3. nextChunk[t] = 0 =>
            \A d \in Own(t) : chunk[d] \in {"unscheduled", "waitForRam", "readDisk"}
    BY <1>1, <1>2 DEF ChunksOf
  <2>4. \A d \in Own(t) : d = next => chunk[d] \in {"unscheduled", "waitForRam", "readDisk"}
    BY <1>5
  <2> HIDE DEF next
  <2>5. \A d \in Own(t) : chunk'[d] = chunk[d]
                        \/ /\ chunk'[d] \in {"queuedToFail", "queued"}
                           /\ chunk[d] \in {"unscheduled", "waitForRam", "readDisk"}
    BY <2>1, <2>4, <1>1, <1>2 DEF ChunkType
  <2>6. Cardinality(WrittenOf(t)') = Cardinality(WrittenOf(t))
    BY <2>1, <2>5, <1>3
  <2> QED BY <2>1, <2>2, <2>3, <2>5, <2>6, <1>1, <1>4 DEF BlocksOf
<1>13. CASE CheckSource(t)
  BY <1>13, <1>1, <1>2, <1>3, <1>4, <1>5 DEF BlocksOf, ChunksOf, BeforeChunks, PlaceType,
     ChunkType, SenderType, CheckSource, FailActive, GoTo
<1>14. CASE CommitBlockList(t)
  <2>1. /\ xpc[t] = "commit" /\ xpc'[t] = "checkLength"
        /\ UNCHANGED <<chunk, senderVars>>
    BY <1>14, <1>1 DEF CommitBlockList, GoTo, PlaceType
  <2>2. Cardinality(WrittenOf(t)') = Cardinality(WrittenOf(t))
    BY <2>1, <1>3
  <2>3. ctxDone'[t] \/ (~ctxDone[t] /\ commits' = commits /\ NumChunks[t] = 1)
                   \/ (~ctxDone[t] /\ commits' = commits \cup {t})
    <3>1. ~ctxDone[t] => ~IsDead(t)
      BY <1>1, <2>1 DEF IsDead, SettledOf
    <3> QED BY <1>14, <1>1, <3>1 DEF CommitBlockList, FailActive, StatusType
  <2>4. <<t, 0>> \in Own(t) /\ <<t, 0>>[2] = 0
    BY <1>2, OwnShape DEF Chunk
  <2>5. ~ctxDone[t] /\ NumChunks[t] = 1 => t \in commits
    BY <2>1, <2>4, <1>1, <1>2 DEF BlocksOf, ChunksOf, AfterChunks
  <2> QED BY <2>1, <2>2, <2>3, <2>5, <1>1, <1>4 DEF BlocksOf
<1>15. CASE CheckLength(t)
  <2>1. /\ xpc[t] = "checkLength" /\ xpc'[t] = "cleanup"
        /\ UNCHANGED <<chunk, senderVars, serviceVars>>
        /\ ctxDone[t] => ctxDone'[t]
    BY <1>15, <1>1 DEF CheckLength, FailActive, GoTo, PlaceType, StatusType
  <2>2. Cardinality(WrittenOf(t)') = Cardinality(WrittenOf(t))
    BY <2>1, <1>3
  <2> QED BY <2>1, <2>2, <1>1, <1>4 DEF BlocksOf
<1>16. CASE Cleanup(t)
  BY <1>16, <1>1, <1>2, <1>3, <1>4, <1>5 DEF BlocksOf, ChunksOf, BeforeChunks, PlaceType,
     ChunkType, SenderType, Cleanup, GoTo
<1>17. CASE Unlock(t)
  BY <1>17, <1>1, <1>2, <1>3, <1>4, <1>5 DEF BlocksOf, ChunksOf, BeforeChunks, PlaceType,
     ChunkType, SenderType, Unlock, EnsureDestinationUnlocked, GoTo
<1>18. CASE Complete(t)
  BY <1>18, <1>1, <1>2, <1>3, <1>4, <1>5 DEF BlocksOf, ChunksOf, BeforeChunks, PlaceType,
     ChunkType, SenderType, Complete, GoTo
<1>19. CASE Report(t)
  BY <1>19, <1>1, <1>2, <1>3, <1>4, <1>5 DEF BlocksOf, ChunksOf, BeforeChunks, PlaceType,
     ChunkType, SenderType, Report, ReportTransferDone, SubtractBytes, GoTo
<1>20. ASSUME NEW c \in Own(t), StartChunk(c) PROVE BlocksOf(t)'
  BY <1>20, <1>1, <1>2, <1>3, <1>4 DEF BlocksOf, PlaceType, ChunkType, SenderType,
     StatusType, StartChunk, FailActive, MoveChunk, ChunkAlreadyTransferred
<1>21. ASSUME NEW c \in Own(t), SendSucceeds(c) PROVE BlocksOf(t)'
  <2>1. /\ chunk[c] = "sending" /\ chunk' = [chunk EXCEPT ![c] = "reportBytes"]
        /\ UNCHANGED <<xpc, ctxDone, blockIds>>
        /\ ServiceTakes(c)
    BY <1>21 DEF SendSucceeds, MoveChunk
  <2>2. ~ctxDone[t] => chunksWritten'[t] = Cardinality(WrittenOf(t)')
    BY <1>21, <1>1, WrittenGrows DEF BlocksOf
  <2>3. IF NumChunks[t] = 1 THEN commits' = commits \cup {t}
        ELSE /\ blocks' = [blocks EXCEPT ![Destination[t]] = @ \cup {c}]
             /\ commits' = commits
    BY <2>1, <1>2 DEF ServiceTakes
  <2> QED BY <2>1, <2>2, <2>3, <1>1, <1>2, <1>4 DEF BlocksOf, ChunkType, SenderType
<1>22. ASSUME NEW c \in Own(t), SendMustRetry(c) PROVE BlocksOf(t)'
  BY <1>22, <1>1, <1>2, <1>3, <1>4 DEF BlocksOf, PlaceType, ChunkType, SenderType,
     StatusType, SendMustRetry, ServiceTakes, MoveChunk
<1>23. ASSUME NEW c \in Own(t), RetryPrefetch(c) PROVE BlocksOf(t)'
  BY <1>23, <1>1, <1>2, <1>3, <1>4 DEF BlocksOf, PlaceType, ChunkType, SenderType,
     StatusType, RetryPrefetch, MoveChunk
<1>24. ASSUME NEW c \in Own(t), SendFails(c) PROVE BlocksOf(t)'
  BY <1>24, <1>1, <1>2, <1>3, <1>4 DEF BlocksOf, PlaceType, ChunkType, SenderType,
     StatusType, SendFails, ServiceTakes, FailActive, MoveChunk
<1>25. ASSUME NEW c \in Own(t), ReportChunkBytes(c) PROVE BlocksOf(t)'
  BY <1>25, <1>1, <1>2, <1>3, <1>4 DEF BlocksOf, PlaceType, ChunkType, SenderType,
     StatusType, ReportChunkBytes, AddChunkBytes, MoveChunk
<1>26. ASSUME NEW c \in Own(t), ReportChunkDone(c) PROVE BlocksOf(t)'
  <2>1. /\ chunk[c] = "count" /\ chunk' = [chunk EXCEPT ![c] = "done"]
        /\ xpc'[t] \in {xpc[t], "epilogue"}
        /\ UNCHANGED <<ctxDone, remoteVars>>
    BY <1>26, <1>1, <1>2 DEF ReportChunkDone, MoveChunk, GoTo, PlaceType
  <2>2. \A d \in Own(t) : chunk'[d] = chunk[d] \/ (d = c /\ chunk'[d] = "done")
    BY <2>1, <1>1, <1>2 DEF ChunkType
  <2>3. Cardinality(WrittenOf(t)') = Cardinality(WrittenOf(t))
    BY <2>1, <2>2, <1>3
  <2>4. xpc[t] \in Scheduling \cup {"chunks"}
    BY <2>1, <1>1, ActiveChunk
  <2> QED BY <2>1, <2>2, <2>3, <2>4, <1>1, <1>2, <1>4 DEF BlocksOf
<1> QED
  BY <1>6, <1>7, <1>8, <1>9, <1>10, <1>11, <1>12, <1>13, <1>14, <1>15, <1>16, <1>17,
     <1>18, <1>19, <1>20, <1>21, <1>22, <1>23, <1>24, <1>25, <1>26 DEF TransferStep,
     ChunkStep

(* When the chunks of a live transfer are done, all have been written.     *)
LEMMA AllWritten ==
    ASSUME NEW t \in Transfers, ChunksOf(t), BlocksOf(t), ~ctxDone[t], xpc[t] \in AfterChunks
    PROVE  /\ chunksWritten[t] = NumChunks[t]
           /\ \A c \in Own(t) : chunk[c] = "done"
<1>1. \A c \in Own(t) : chunk[c] = "done"
  BY OwnShape, TransferAssumption DEF ChunksOf, Chunk
<1>2. WrittenOf(t) = Own(t)
  BY <1>1 DEF WrittenOf
<1> QED BY <1>1, <1>2, OwnShape DEF BlocksOf

(* A step of a transfer lets it be a success only with its commit made.    *)
LEMMA SettledStep ==
    ASSUME SendInv, NEW t \in Transfers, TransferStep(t) \/ \E c \in Own(t) : ChunkStep(c)
    PROVE  SettledOf(t)'
<1> USE TransferAssumption DEF NotCancelled, EpilogueFrame, vars, jptmVars, lockVars,
        byteVars, schedVars, ramVars,
        remoteVars, senderVars, serviceVars,
        Unsettled
<1>1. /\ PlaceType /\ ChunkType /\ SenderType /\ StatusType
      /\ ChunksOf(t) /\ BlocksOf(t) /\ SettledOf(t) /\ LockOf(t)
  BY DEF SendInv, TransferInv, TypeOK, PlaceType, ChunkType, SenderType, StatusType, Unsettled
<1>2. \A c \in Own(t) : c \in AllChunks /\ c[1] = t
  BY DEF Own
<1>3. CASE InitialChecks(t)
  BY <1>3, <1>1 DEF SettledOf, PlaceType, StatusType, SenderType, InitialChecks,
     EndsEarly, SetStatus, GoTo
<1>4. CASE WaitUntilLockDestination(t)
  BY <1>4, <1>1 DEF SettledOf, PlaceType, StatusType, SenderType,
     WaitUntilLockDestination, EndsEarly, LockDestination, SetStatus, GoTo
<1>5. CASE PrepareChunk(t)
  BY <1>5, <1>1 DEF SettledOf, PlaceType, StatusType, SenderType, PrepareChunk, GoTo
<1>6. CASE PrefetchGetsRam(t)
  BY <1>6, <1>1 DEF SettledOf, PlaceType, StatusType, SenderType, PrefetchGetsRam, GoTo
<1>7. CASE PrefetchCancelled(t)
  BY <1>7, <1>1 DEF SettledOf, PlaceType, StatusType, SenderType, PrefetchCancelled, GoTo
<1>8. CASE PrefetchReads(t)
  BY <1>8, <1>1 DEF SettledOf, PlaceType, StatusType, SenderType, PrefetchReads, GoTo
<1>9. CASE DispatchChunk(t)
  BY <1>9, <1>1 DEF SettledOf, PlaceType, StatusType, SenderType, DispatchChunk, Prologue, GoTo
<1>10. CASE CheckSource(t)
  BY <1>10, <1>1 DEF SettledOf, PlaceType, StatusType, SenderType, CheckSource, SetStatus,
     FailActive, GoTo
<1>11. CASE CommitBlockList(t)
  BY <1>11, <1>1 DEF SettledOf, PlaceType, StatusType, SenderType, CommitBlockList,
     FailActive, SetStatus, GoTo, HasAllBlocks, IsDead
<1>12. CASE CheckLength(t)
  BY <1>12, <1>1 DEF SettledOf, PlaceType, StatusType, SenderType, CheckLength,
     FailActive, SetStatus, GoTo, IsDead
<1>13. CASE Cleanup(t)
  BY <1>13, <1>1 DEF SettledOf, PlaceType, StatusType, SenderType, Cleanup, GoTo
<1>14. CASE Unlock(t)
  BY <1>14, <1>1 DEF SettledOf, PlaceType, StatusType, SenderType, Unlock,
     EnsureDestinationUnlocked, GoTo
<1>15. CASE Complete(t)
  <2>1. /\ xpc[t] = "complete" /\ xpc'[t] = "report"
        /\ UNCHANGED <<ctxDone, chunksWritten, commits>>
    BY <1>15, <1>1 DEF Complete, GoTo, PlaceType
  <2>2. CASE ctxDone[t]
    BY <1>15, <1>1, <2>1, <2>2 DEF Complete, IsDead, SettledOf
  <2>3. CASE ~ctxDone[t]
    <3>1. chunksWritten[t] = NumChunks[t] /\ t \in commits
      BY <2>1, <2>3, <1>1, AllWritten DEF AfterChunks, BlocksOf
    <3> QED BY <2>1, <3>1 DEF SettledOf
  <2> QED BY <2>2, <2>3
<1>16. CASE Report(t)
  BY <1>16, <1>1 DEF SettledOf, PlaceType, StatusType, SenderType, Report,
     ReportTransferDone, SubtractBytes, GoTo
<1>17. ASSUME NEW c \in Own(t), StartChunk(c) PROVE SettledOf(t)'
  BY <1>17, <1>1, <1>2, ActiveChunk DEF SettledOf, PlaceType, StatusType, SenderType,
     Scheduling, StartChunk, FailActive, SetStatus, ChunkAlreadyTransferred
<1>18. ASSUME NEW c \in Own(t), SendSucceeds(c) PROVE SettledOf(t)'
  BY <1>18, <1>1, <1>2, ActiveChunk DEF SettledOf, PlaceType, StatusType, SenderType,
     Scheduling, SendSucceeds, ServiceTakes
<1>19. ASSUME NEW c \in Own(t), SendMustRetry(c) PROVE SettledOf(t)'
  BY <1>19, <1>1, <1>2, ActiveChunk DEF SettledOf, PlaceType, StatusType, SenderType,
     Scheduling, SendMustRetry, ServiceTakes
<1>20. ASSUME NEW c \in Own(t), RetryPrefetch(c) PROVE SettledOf(t)'
  BY <1>20, <1>1, <1>2, ActiveChunk DEF SettledOf, PlaceType, StatusType, SenderType,
     Scheduling, RetryPrefetch, MoveChunk
<1>21. ASSUME NEW c \in Own(t), SendFails(c) PROVE SettledOf(t)'
  BY <1>21, <1>1, <1>2, ActiveChunk DEF SettledOf, PlaceType, StatusType, SenderType,
     Scheduling, SendFails, ServiceTakes, FailActive, SetStatus
<1>22. ASSUME NEW c \in Own(t), ReportChunkBytes(c) PROVE SettledOf(t)'
  BY <1>22, <1>1, <1>2, ActiveChunk DEF SettledOf, PlaceType, StatusType, SenderType,
     Scheduling, ReportChunkBytes, AddChunkBytes
<1>23. ASSUME NEW c \in Own(t), ReportChunkDone(c) PROVE SettledOf(t)'
  BY <1>23, <1>1, <1>2, ActiveChunk DEF SettledOf, PlaceType, StatusType, SenderType,
     Scheduling, ReportChunkDone, CountChunk, IsLastChunk, GoTo
<1> QED
  BY <1>3, <1>4, <1>5, <1>6, <1>7, <1>8, <1>9, <1>10, <1>11, <1>12, <1>13, <1>14, <1>15,
     <1>16, <1>17, <1>18, <1>19, <1>20, <1>21, <1>22, <1>23 DEF TransferStep, ChunkStep

-----------------------------------------------------------------------------
(* The invariant.                                                          *)
LEMMA InitSend ==
    ASSUME Init
    PROVE  SendInv
<1> USE TransferAssumption DEF Init, JptmInit
<1>1. TypeOK
  <2>1. StatusType /\ LockType /\ BytesType
    BY DEF StatusType, LockType, BytesType, Unsettled
  <2>2. PlaceType /\ ChunkType
    BY DEF PlaceType, ChunkType, InEpilogue
  <2>3. blocks \in [Destinations -> SUBSET AllChunks]
    OBVIOUS
  <2>4. SenderType /\ FoundType
    BY <2>3 DEF SenderType, FoundType
  <2>5. ReaderType
    BY SendAssumption DEF ReaderType
  <2> QED
    BY <2>1, <2>2, <2>4, <2>5 DEF TypeOK, StatusType, LockType, BytesType, PlaceType,
       ChunkType,
                                  SenderType, FoundType, ReaderType
<1>2. OneHolder
  BY DEF OneHolder
<1>3. ASSUME NEW t \in Transfers PROVE TransferInv(t)
  <2>1. \A c \in Own(t) : c \in AllChunks /\ c[2] \in Nat /\ c[2] < NumChunks[t]
    BY OwnShape DEF Chunk
  <2>2. ChunksOf(t)
    BY <2>1 DEF ChunksOf, BeforeChunks, Scheduling, AfterChunks
  <2>3. DoneOf(t) = {} /\ WrittenOf(t) = {}
    BY <2>1 DEF DoneOf, WrittenOf
  <2>4. CountOf(t)
    BY <2>3, FS_EmptySet DEF CountOf
  <2>5. LockOf(t)
    BY DEF LockOf, Locked, Scheduling
  <2>6. BlocksOf(t)
    BY <2>1, <2>3, FS_EmptySet DEF BlocksOf
  <2>7. SettledOf(t)
    BY DEF SettledOf, Unsettled
  <2> QED BY <2>2, <2>4, <2>5, <2>6, <2>7 DEF TransferInv
<1> QED BY <1>1, <1>2, <1>3 DEF SendInv

(* Only locking and unlocking change who has which lock. *)
LEMMA OneHolderStep ==
    ASSUME OneHolder, LockType, [Next]_vars
    PROVE  OneHolder'
<1> USE TransferAssumption DEF OneHolder, LockType, NotCancelled, EpilogueFrame, vars,
        jptmVars, lockVars, byteVars, schedVars, ramVars,
        remoteVars, senderVars, serviceVars
<1>1. ASSUME NEW t \in Transfers, WaitUntilLockDestination(t) PROVE OneHolder'
  BY <1>1 DEF WaitUntilLockDestination, LockDestination, EndsEarly
<1>2. ASSUME NEW t \in Transfers, Unlock(t) PROVE OneHolder'
  BY <1>2 DEF Unlock, EnsureDestinationUnlocked
<1>3. ASSUME NEW t \in Transfers,
             InitialChecks(t) \/ PrepareChunk(t) \/ PrefetchGetsRam(t) \/
             PrefetchCancelled(t) \/ PrefetchReads(t) \/ DispatchChunk(t)
      PROVE  UNCHANGED lockVars
  BY <1>3 DEF InitialChecks, PrepareChunk, PrefetchGetsRam, PrefetchCancelled,
     PrefetchReads, DispatchChunk, EndsEarly
<1>4. ASSUME NEW t \in Transfers,
             CheckSource(t) \/ CommitBlockList(t) \/ CheckLength(t) \/ Cleanup(t) \/
             Complete(t) \/ Report(t)
      PROVE  UNCHANGED lockVars
  BY <1>4 DEF CheckSource, CommitBlockList, CheckLength, Cleanup, Complete, Report
<1>5. ASSUME NEW c \in AllChunks, ChunkStep(c) PROVE UNCHANGED lockVars
  BY <1>5 DEF ChunkStep, StartChunk, SendSucceeds, SendMustRetry, RetryPrefetch,
     SendFails, ReportChunkBytes, ReportChunkDone
<1>6. CASE CancelJob \/ UNCHANGED vars
  BY <1>6 DEF CancelJob
<1>7. CASE UNCHANGED lockVars
  BY <1>7
<1> QED
  BY <1>1, <1>2, <1>3, <1>4, <1>5, <1>6, <1>7 DEF Next, TransferStep

(* Any step keeps the inductive invariant.                                 *)
LEMMA SendStepInv ==
    ASSUME SendInv, [Next]_vars
    PROVE  SendInv'
<1>1. TypeOK /\ TypeOK' /\ OneHolder /\ \A t \in Transfers : TransferInv(t)
  BY TypeStep DEF SendInv
<1>2. StatusType /\ StatusType' /\ LockType
  BY <1>1 DEF TypeOK, StatusType, LockType
<1>3. OneHolder'
  BY <1>1, <1>2, OneHolderStep
<1>4. ASSUME NEW t \in Transfers, TransferStep(t) \/ \E c \in Own(t) : ChunkStep(c)
      PROVE  \A u \in Transfers : TransferInv(u)'
  <2>1. TransferInv(t)'
    BY <1>4, ChunksStep, CountStep, LockStep, BlocksStep, SettledStep DEF TransferInv
  <2>2. ASSUME NEW u \in Transfers, u # t PROVE TransferInv(u)'
    BY <1>1, <1>2, <1>4, <2>2, Elsewhere, SameViewKeeps
  <2> QED BY <2>1, <2>2
<1>5. ASSUME CancelJob \/ UNCHANGED vars
      PROVE  \A u \in Transfers : TransferInv(u)'
  <2>1. ASSUME NEW u \in Transfers PROVE SameView(u)
    BY <1>5 DEF CancelJob, CancelContexts, SameView, NotCancelled, EpilogueFrame, vars,
       jptmVars,
                lockVars, byteVars, schedVars, ramVars, remoteVars, senderVars, serviceVars
  <2> QED BY <1>1, <1>2, <2>1, SameViewKeeps
<1>6. ASSUME NEW c \in AllChunks, ChunkStep(c)
      PROVE  \A u \in Transfers : TransferInv(u)'
  BY <1>4, <1>6, ChunkShape
<1>7. \A u \in Transfers : TransferInv(u)'
  BY <1>4, <1>5, <1>6 DEF Next
<1> QED BY <1>1, <1>3, <1>7 DEF SendInv

(* The invariant holds in every state. *)
THEOREM SendInvHolds == Spec => []SendInv
<1>1. Init => SendInv
  BY InitSend
<1>2. SendInv /\ [Next]_vars => SendInv'
  BY SendStepInv
<1> QED BY <1>1, <1>2, PTL DEF Spec

-----------------------------------------------------------------------------
(* No variable leaves its type. *)
THEOREM TypeCorrect == Spec => []TypeOK
<1>1. SendInv => TypeOK
  BY DEF SendInv
<1> QED BY <1>1, SendInvHolds, PTL

(* A transfer that reports a success has written all its chunks and has    *)
(* committed them (commonSenderCompletion).                                *)
THEOREM SuccessIsCommitted == Spec => []SuccessMeansCommitted
<1>1. SendInv => SuccessMeansCommitted
  BY DEF SendInv, TransferInv, SettledOf, SuccessMeansCommitted
<1> QED BY <1>1, SendInvHolds, PTL

(* A commit finds the blocks of all chunks, whoever else writes to the     *)
(* name (Epilogue of the block blob senders).                              *)
THEOREM BlocksAreFound == Spec => []CommitFindsItsBlocks
<1>1. SendInv => CommitFindsItsBlocks
  <2> SUFFICES ASSUME SendInv, NEW t \in Transfers, xpc[t] = "commit", ~IsDead(t),
                      NumChunks[t] > 1
               PROVE  HasAllBlocks(t)
    BY DEF CommitFindsItsBlocks
  <2>1. ChunksOf(t) /\ BlocksOf(t) /\ ~ctxDone[t]
    BY DEF SendInv, TransferInv, IsDead
  <2>2. \A c \in Own(t) : chunk[c] = "done"
    BY <2>1, AllWritten DEF AfterChunks
  <2>3. blockIds[t] = Own(t) /\ Own(t) \subseteq blocks[Destination[t]]
    BY <2>1, <2>2, TransferAssumption DEF BlocksOf
  <2> QED BY <2>3 DEF HasAllBlocks, Own
<1> QED BY <1>1, SendInvHolds, PTL

(* A transfer is reported once, when nothing of it runs or is queued any   *)
(* more and its lock is free (runActionAfterLastChunk).                    *)
THEOREM ReportedLast == Spec => []ReportIsOnceAndLast
<1>1. SendInv => ReportIsOnceAndLast
  <2> SUFFICES ASSUME SendInv, NEW t \in Transfers
               PROVE  /\ timesReported[t] <= 1
                      /\ timesReported[t] = 1 =>
                             /\ ~lockHeld[t]
                             /\ \A i \in Chunk(t) : chunk[<<t, i>>] \in {"unscheduled", "done"}
    BY DEF ReportIsOnceAndLast
  <2>1. ChunksOf(t) /\ LockOf(t) /\ PlaceType
    BY DEF SendInv, TransferInv, TypeOK, PlaceType
  <2>2. ASSUME xpc[t] = "done", NEW i \in Chunk(t)
        PROVE  chunk[<<t, i>>] \in {"unscheduled", "done"}
    <3>1. PICK c \in Own(t) : c = <<t, i>>
      BY OwnShape
    <3>2. c[2] \in Nat /\ c[2] < NumChunks[t] /\ NumChunks[t] \in Nat
      BY OwnShape, TransferAssumption DEF Chunk
    <3>3. chunk[c] \in {"unscheduled", "done"}
      BY <2>1, <2>2, <3>2 DEF ChunksOf
    <3> QED BY <3>1, <3>3
  <2> QED BY <2>1, <2>2 DEF LockOf, Locked, Scheduling
<1> QED BY <1>1, SendInvHolds, PTL

(* What is stored under a name changes only under its lock (Prologue, the  *)
(* chunks, Epilogue and Cleanup).                                          *)
THEOREM DestinationIsLocked == Spec => DestinationChangesUnderItsLock
<1> DEFINE UnderLock ==
        \A d \in Destinations :
            blocks'[d] # blocks[d] \/ content'[d] # content[d] =>
                \E t \in Transfers : lockHeld[t] /\ Destination[t] = d
<1>1. ASSUME SendInv, [Next]_vars PROVE [UnderLock]_vars
  <2> USE TransferAssumption DEF NotCancelled, EpilogueFrame, vars, jptmVars, lockVars,
          byteVars, schedVars, ramVars,
             remoteVars, senderVars, serviceVars
  <2>1. \A t \in Transfers : ChunksOf(t) /\ LockOf(t)
    BY <1>1 DEF SendInv, TransferInv
  <2>2. PlaceType /\ SenderType /\ FoundType
    BY <1>1 DEF SendInv, TypeOK, PlaceType, SenderType, FoundType
  <2>3. ASSUME NEW t \in Transfers, DispatchChunk(t) \/ CommitBlockList(t) \/ Cleanup(t)
        PROVE  UnderLock
    <3>1. lockHeld[t]
      BY <2>1, <2>3 DEF DispatchChunk, CommitBlockList, Cleanup, LockOf, Locked, Scheduling
    <3>2. \A d \in Destinations : d # Destination[t] =>
              blocks'[d] = blocks[d] /\ content'[d] = content[d]
      <4>1. CASE DispatchChunk(t)
        BY <4>1, <2>2 DEF DispatchChunk, Prologue, SenderType, FoundType
      <4>2. CASE CommitBlockList(t)
        BY <4>2, <2>2 DEF CommitBlockList, SenderType, FoundType
      <4>3. CASE Cleanup(t)
        BY <4>3, <2>2 DEF Cleanup, SenderType, FoundType
      <4> QED BY <2>3, <4>1, <4>2, <4>3
    <3> QED BY <3>1, <3>2
  <2>4. ASSUME NEW c \in AllChunks, SendSucceeds(c) \/ SendMustRetry(c) \/ SendFails(c)
        PROVE  UnderLock
    <3>1. c[1] \in Transfers /\ c \in Own(c[1])
      BY ChunkShape
    <3>2. lockHeld[c[1]]
      BY <2>1, <2>2, <2>4, <3>1, ActiveChunk DEF SendSucceeds, SendMustRetry, SendFails
    <3>3. ServiceTakes(c) \/ UNCHANGED serviceVars
      BY <2>4 DEF SendSucceeds, SendMustRetry, SendFails
    <3>4. \A d \in Destinations : d # Destination[c[1]] =>
              blocks'[d] = blocks[d] /\ content'[d] = content[d]
      BY <2>2, <3>1, <3>3 DEF ServiceTakes, SenderType, FoundType
    <3> QED BY <3>1, <3>2, <3>4
  <2>5. ASSUME NEW t \in Transfers,
               InitialChecks(t) \/ WaitUntilLockDestination(t) \/ PrepareChunk(t) \/
               PrefetchGetsRam(t) \/ PrefetchCancelled(t) \/ PrefetchReads(t)
        PROVE  UNCHANGED serviceVars
    BY <2>5 DEF InitialChecks, WaitUntilLockDestination, PrepareChunk, PrefetchGetsRam,
       PrefetchCancelled, PrefetchReads
  <2>6. ASSUME NEW t \in Transfers,
               CheckSource(t) \/ CheckLength(t) \/ Unlock(t) \/ Complete(t) \/
               Report(t)
        PROVE  UNCHANGED serviceVars
    BY <2>6 DEF CheckSource, CheckLength, Unlock, Complete, Report
  <2>7. ASSUME NEW c \in AllChunks,
               StartChunk(c) \/ RetryPrefetch(c) \/ ReportChunkBytes(c) \/
               ReportChunkDone(c)
        PROVE  UNCHANGED serviceVars
    BY <2>7 DEF StartChunk, RetryPrefetch, ReportChunkBytes, ReportChunkDone
  <2>8. ASSUME CancelJob \/ UNCHANGED vars PROVE UNCHANGED serviceVars
    BY <2>8 DEF CancelJob
  <2>9. UNCHANGED serviceVars => UnderLock
    OBVIOUS
  <2> QED BY <1>1, <2>3, <2>4, <2>5, <2>6, <2>7, <2>8, <2>9 DEF Next, TransferStep, ChunkStep
<1> QED BY <1>1, SendInvHolds, PTL DEF Spec, DestinationChangesUnderItsLock

-----------------------------------------------------------------------------
(* The bytes in active files.  A byte that is counted is a pair of its     *)
(* transfer, which is not over, and its number.                            *)
ActiveBytes ==
    {b \in Transfers \X (Nat \ {0}) : xpc[b[1]] # "done" /\ b[2] <= successfulBytes[b[1]]}

BytesInv == IsFiniteSet(ActiveBytes) /\ bytesInActiveFiles = Cardinality(ActiveBytes)

(* The bytes are the same after a step that counts none of them and ends   *)
(* no transfer.                                                            *)
LEMMA SameBytes ==
    ASSUME BytesInv, UNCHANGED byteVars,
           \A t \in Transfers : xpc'[t] = "done" <=> xpc[t] = "done"
    PROVE  BytesInv'
<1>1. ActiveBytes' = ActiveBytes
  BY DEF ActiveBytes, byteVars
<1> QED BY <1>1 DEF BytesInv, byteVars

(* A chunk of a live transfer adds its byte. *)
LEMMA AddedBytes ==
    ASSUME SendInv, BytesInv, NEW c \in AllChunks, ReportChunkBytes(c)
    PROVE  BytesInv'
<1> DEFINE t == c[1]
           n == successfulBytes[t] + 1
<1>1. t \in Transfers /\ c \in Own(t)
  BY ChunkShape
<1>2. ChunksOf(t) /\ LockOf(t) /\ PlaceType /\ BytesType
  BY <1>1 DEF SendInv, TransferInv, TypeOK, PlaceType, BytesType
<1>3. xpc[t] # "done"
  BY <1>1, <1>2, ActiveChunk DEF ReportChunkBytes, Scheduling
<1>4. CASE IsDead(t)
  BY <1>4, SameBytes DEF ReportChunkBytes, AddChunkBytes
<1>5. CASE ~IsDead(t)
  <2>1. /\ xpc' = xpc /\ successfulBytes' = [successfulBytes EXCEPT ![t] = n]
        /\ bytesInActiveFiles' = bytesInActiveFiles + 1
    BY <1>5 DEF ReportChunkBytes, AddChunkBytes
  <2>2. n \in Nat \ {0} /\ successfulBytes \in [Transfers -> Nat]
    BY <1>1, <1>2 DEF BytesType
  <2>3. /\ successfulBytes'[t] = n
        /\ \A u \in Transfers \ {t} : successfulBytes'[u] = successfulBytes[u]
    BY <1>1, <2>1, <2>2
  <2>4. <<t, n>> \notin ActiveBytes
    BY <1>1, <2>2 DEF ActiveBytes
  <2>5. ActiveBytes' = ActiveBytes \cup {<<t, n>>}
    <3> HIDE DEF n, t
    <3>1. ASSUME NEW b \in Transfers \X (Nat \ {0}), b[1] # t
          PROVE  b \in ActiveBytes' <=> b \in ActiveBytes
      BY <2>1, <2>3, <3>1 DEF ActiveBytes
    <3>2. ASSUME NEW b \in Transfers \X (Nat \ {0}), b[1] = t
          PROVE  b \in ActiveBytes' <=> b \in ActiveBytes \/ b[2] = n
      BY <1>1, <1>3, <2>1, <2>2, <2>3, <3>2 DEF ActiveBytes, n
    <3>3. \A b \in Transfers \X (Nat \ {0}) : b = <<t, n>> <=> b[1] = t /\ b[2] = n
      OBVIOUS
    <3>4. /\ ActiveBytes \subseteq Transfers \X (Nat \ {0}) /\ <<t, n>> \in Transfers \X (Nat \ {0})
          /\ ActiveBytes' \subseteq Transfers \X (Nat \ {0})
      BY <1>1, <2>2 DEF ActiveBytes
    <3> QED BY <3>1, <3>2, <3>3, <3>4
  <2> HIDE DEF n, t
  <2>6. /\ IsFiniteSet(ActiveBytes \cup {<<t, n>>})
        /\ Cardinality(ActiveBytes \cup {<<t, n>>}) = Cardinality(ActiveBytes) + 1
    BY <2>4, FS_AddElement DEF BytesInv
  <2> QED BY <2>1, <2>5, <2>6 DEF BytesInv
<1> QED BY <1>4, <1>5

(* A transfer that is over takes its bytes away, all at once. *)
LEMMA TakenBytes ==
    ASSUME SendInv, BytesInv, NEW t \in Transfers, Report(t)
    PROVE  BytesInv'
<1> DEFINE mine == {t} \X (1..successfulBytes[t])
<1>1. PlaceType /\ BytesType
  BY DEF SendInv, TypeOK, PlaceType, BytesType
<1>2. /\ xpc[t] = "report" /\ xpc' = [xpc EXCEPT ![t] = "done"]
      /\ successfulBytes' = successfulBytes
      /\ bytesInActiveFiles' = bytesInActiveFiles - successfulBytes[t]
  BY DEF Report, SubtractBytes, GoTo
<1>3. xpc'[t] = "done" /\ \A u \in Transfers \ {t} : xpc'[u] = xpc[u]
  BY <1>1, <1>2 DEF PlaceType
<1>4. successfulBytes[t] \in Nat
  BY <1>1 DEF BytesType
<1>5. ActiveBytes' = ActiveBytes \ mine
  <2>1. ASSUME NEW b \in Transfers \X (Nat \ {0}), b[1] # t
        PROVE  b \in ActiveBytes' <=> b \in ActiveBytes \ mine
    BY <1>2, <1>3, <2>1 DEF ActiveBytes
  <2>2. ASSUME NEW b \in Transfers \X (Nat \ {0}), b[1] = t
        PROVE  b \notin ActiveBytes' /\ b \notin ActiveBytes \ mine
    BY <1>2, <1>3, <1>4, <2>2 DEF ActiveBytes
  <2>3. /\ ActiveBytes \subseteq Transfers \X (Nat \ {0})
        /\ ActiveBytes' \subseteq Transfers \X (Nat \ {0})
    BY DEF ActiveBytes
  <2> QED BY <2>1, <2>2, <2>3
<1>6. mine \subseteq ActiveBytes
  BY <1>2, <1>4 DEF ActiveBytes
<1>7. IsFiniteSet({t}) /\ Cardinality({t}) = 1
  BY FS_Singleton
<1>8. IsFiniteSet(1..successfulBytes[t]) /\ Cardinality(1..successfulBytes[t]) = successfulBytes[t]
  BY <1>4, FS_Interval
<1>9. Cardinality(mine) = successfulBytes[t]
  BY <1>4, <1>7, <1>8, FS_Product
<1>10. ActiveBytes \cap mine = mine
  BY <1>6
<1> HIDE DEF mine
<1>11. /\ IsFiniteSet(ActiveBytes \ mine)
       /\ Cardinality(ActiveBytes \ mine) =
              Cardinality(ActiveBytes) - Cardinality(ActiveBytes \cap mine)
  BY FS_Difference DEF BytesInv
<1> QED BY <1>2, <1>5, <1>9, <1>10, <1>11 DEF BytesInv

(* Any step keeps the account of the active bytes.                         *)
LEMMA BytesStep ==
    ASSUME SendInv, BytesInv, [Next]_vars
    PROVE  BytesInv'
<1> USE DEF NotCancelled, EpilogueFrame, vars, jptmVars, lockVars, schedVars, ramVars,
        remoteVars, senderVars, serviceVars
<1>1. PlaceType
  BY DEF SendInv, TypeOK, PlaceType
<1> DEFINE SameOver == \A u \in Transfers : xpc'[u] = "done" <=> xpc[u] = "done"
<1>2. ASSUME NEW t \in Transfers, InitialChecks(t) \/ WaitUntilLockDestination(t)
      PROVE  UNCHANGED byteVars /\ SameOver
  BY <1>1, <1>2 DEF InitialChecks, WaitUntilLockDestination, EndsEarly, GoTo, PlaceType
<1>3. ASSUME NEW t \in Transfers,
             PrepareChunk(t) \/ PrefetchGetsRam(t) \/ PrefetchCancelled(t) \/ PrefetchReads(t)
             \/ DispatchChunk(t)
      PROVE  UNCHANGED byteVars /\ SameOver
  BY <1>1, <1>3 DEF PrepareChunk, PrefetchGetsRam, PrefetchCancelled, PrefetchReads,
     DispatchChunk, GoTo, PlaceType
<1>4. ASSUME NEW t \in Transfers,
             CheckSource(t) \/ CommitBlockList(t) \/ CheckLength(t) \/ Cleanup(t) \/ Unlock(t)
             \/ Complete(t)
      PROVE  UNCHANGED byteVars /\ SameOver
  BY <1>1, <1>4 DEF CheckSource, CommitBlockList, CheckLength, Cleanup, Unlock, Complete,
     GoTo, PlaceType
<1>5. ASSUME NEW c \in AllChunks,
             StartChunk(c) \/ SendSucceeds(c) \/ SendMustRetry(c) \/ RetryPrefetch(c)
             \/ SendFails(c)
      PROVE  UNCHANGED byteVars /\ SameOver
  BY <1>5 DEF StartChunk, SendSucceeds, SendMustRetry, RetryPrefetch, SendFails
<1>6. ASSUME NEW c \in AllChunks, ReportChunkDone(c)
      PROVE  UNCHANGED byteVars /\ SameOver
  <2>1. c[1] \in Transfers /\ c \in Own(c[1])
    BY ChunkShape
  <2>2. ChunksOf(c[1]) /\ LockOf(c[1])
    BY <2>1 DEF SendInv, TransferInv
  <2>3. xpc[c[1]] # "done"
    BY <1>1, <1>6, <2>1, <2>2, ActiveChunk DEF ReportChunkDone, Scheduling
  <2> QED BY <1>1, <1>6, <2>1, <2>3 DEF ReportChunkDone, GoTo, PlaceType
<1>7. ASSUME CancelJob \/ UNCHANGED vars PROVE UNCHANGED byteVars /\ SameOver
  BY <1>7 DEF CancelJob, byteVars
<1>8. UNCHANGED byteVars /\ SameOver => BytesInv'
  BY SameBytes
<1> QED
  BY <1>2, <1>3, <1>4, <1>5, <1>6, <1>7, <1>8, AddedBytes, TakenBytes DEF Next, TransferStep,
     ChunkStep

(* The progress of the job counts each byte of a live transfer until the   *)
(* transfer is over, and none after (ReportChunkDone, ReportTransferDone). *)
THEOREM BytesAreTakenBack == Spec => []ActiveBytesAreTakenBack
<1>1. Init => BytesInv
  <2> SUFFICES ASSUME Init PROVE BytesInv
    OBVIOUS
  <2>1. ActiveBytes = {}
    BY DEF Init, JptmInit, ActiveBytes
  <2>2. bytesInActiveFiles = 0
    BY DEF Init, JptmInit
  <2> QED BY <2>1, <2>2, FS_EmptySet DEF BytesInv
<1>2. SendInv /\ BytesInv /\ [Next]_vars => BytesInv'
  BY BytesStep
<1>3. SendInv /\ BytesInv => ActiveBytesAreTakenBack
  <2> SUFFICES ASSUME SendInv, BytesInv PROVE ActiveBytesAreTakenBack
    OBVIOUS
  <2>1. Cardinality(ActiveBytes) \in Nat
    BY FS_CardinalityType DEF BytesInv
  <2>2. AllDone => ActiveBytes = {}
    BY DEF AllDone, ActiveBytes
  <2> QED BY <2>1, <2>2, FS_EmptySet DEF SendInv, BytesInv, ActiveBytesAreTakenBack
<1> QED BY <1>1, <1>2, <1>3, SendInvHolds, PTL DEF Spec

-----------------------------------------------------------------------------
(* The RAM of the readers.  A chunk holds RAM from when it is read from    *)
(* disk until its body has been sent.                                      *)
Reading(c) == chunk[c] = "readDisk" /\ xpc[c[1]] = "prefetch"
Holders == {c \in AllChunks : buffer[c] \/ Reading(c)}

CountInv == IsFiniteSet(Holders) /\ ram = Cardinality(Holders) /\ ram <= RamLimit

(* As long as nothing happens to a transfer, only chunks that are yet to   *)
(* be sent have their data in RAM.                                         *)
ReaderOf(t) ==
    /\ ~prefetchErr[t]
    /\ xpc[t] \in BeforeChunks \cup Scheduling \cup {"chunks"} => ~ctxDone[t]
    /\ \A c \in Own(t) :
         /\ chunk[c] # "queuedToFail"
         /\ buffer[c] => \/ chunk[c] \in {"queued", "sending"}
                         \/ chunk[c] = "readDisk" /\ xpc[t] = "dispatch"

RamInv == CountInv /\ \A t \in Transfers : ReaderOf(t)

(* No chunk fails and the job is not cancelled. *)
NothingHappens == FaultyReads = {} /\ FaultySends = {} /\ ~JobMayBeCancelled

(* A step of a transfer keeps what is said of its readers.                 *)
LEMMA ReaderStep ==
    ASSUME NothingHappens, SendInv, NEW t \in Transfers, ReaderOf(t),
           TransferStep(t) \/ \E c \in Own(t) : ChunkStep(c)
    PROVE  ReaderOf(t)'
<1> USE TransferAssumption DEF NotCancelled, EpilogueFrame, vars, jptmVars, lockVars,
        byteVars, schedVars, ramVars, remoteVars, senderVars, serviceVars,
        Scheduling, BeforeChunks
<1>1. /\ PlaceType /\ ChunkType /\ StatusType /\ ReaderType /\ ChunksOf(t) /\ LockOf(t)
  BY DEF SendInv, TransferInv, TypeOK, PlaceType, ChunkType, StatusType, ReaderType
<1>2. /\ \A c \in Own(t) : /\ c \in AllChunks /\ c[1] = t /\ c[2] \in Nat
                          /\ c[2] < NumChunks[t] /\ c = <<t, c[2]>>
      /\ NumChunks[t] \in Nat \ {0}
  BY OwnShape DEF Chunk
<1>3. nextChunk[t] \in Nat /\ (nextChunk[t] < NumChunks[t] => <<t, nextChunk[t]>> \in Own(t))
  BY <1>1, <1>2, OwnShape DEF Chunk, PlaceType
<1>4. Own(t)' = Own(t)
  BY DEF Own
<1>5. CASE InitialChecks(t)
  BY <1>5, <1>1, <1>2, <1>4 DEF ReaderOf, PlaceType, ReaderType, InitialChecks, EndsEarly,
     SetStatus, GoTo
<1>6. CASE WaitUntilLockDestination(t)
  BY <1>6, <1>1, <1>2, <1>4 DEF ReaderOf, PlaceType, ReaderType, WaitUntilLockDestination,
     EndsEarly, LockDestination, SetStatus, GoTo
<1>7. CASE PrepareChunk(t)
  <2>1. xpc[t] = "schedule" /\ ~ctxDone[t] /\ ~prefetchErr[t]
    BY <1>7 DEF PrepareChunk, ReaderOf
  <2>2. ~prefetchErr'[t]
    BY <1>7, <1>1, <2>1 DEF PrepareChunk, ReaderType
  <2>3. /\ xpc'[t] \in {"prefetch", "dispatch"} /\ buffer' = buffer /\ ctxDone' = ctxDone
        /\ \/ chunk' = chunk
           \/ chunk' = [chunk EXCEPT ![<<t, nextChunk[t]>>] = "waitForRam"]
    BY <1>7, <1>1 DEF PrepareChunk, GoTo, MoveChunk, PlaceType
  <2>4. /\ <<t, nextChunk[t]>> \in Own(t)
        /\ chunk[<<t, nextChunk[t]>>] \in {"unscheduled", "waitForRam", "readDisk"}
    BY <1>1, <1>3, <2>1 DEF ChunksOf
  <2>5. \A c \in Own(t) : \/ chunk'[c] = chunk[c]
                          \/ c = <<t, nextChunk[t]>> /\ chunk'[c] = "waitForRam"
    <3> DEFINE next == <<t, nextChunk[t]>>
    <3>1. chunk' = chunk \/ chunk' = [chunk EXCEPT ![next] = "waitForRam"]
      BY <2>3
    <3> HIDE DEF next
    <3>2. ASSUME NEW c \in AllChunks, c # next PROVE chunk'[c] = chunk[c]
      BY <1>1, <3>1, <3>2 DEF ChunkType
    <3>3. chunk'[next] \in {chunk[next], "waitForRam"} \/ next \notin AllChunks
      BY <1>1, <3>1 DEF ChunkType
    <3>4. \A c \in Own(t) : c \in AllChunks
      BY <1>2
    <3> QED BY <3>2, <3>3, <3>4 DEF next
  <2>6. ~buffer[<<t, nextChunk[t]>>]
    BY <2>1, <2>4 DEF ReaderOf
  <2> QED BY <1>4, <2>1, <2>2, <2>3, <2>5, <2>6 DEF ReaderOf
<1>8. CASE PrefetchGetsRam(t)
  <2>1. /\ xpc[t] = "prefetch" /\ xpc' = xpc /\ UNCHANGED <<ctxDone, prefetchErr, buffer>>
        /\ chunk[<<t, nextChunk[t]>>] = "waitForRam"
        /\ chunk' = [chunk EXCEPT ![<<t, nextChunk[t]>>] = "readDisk"]
    BY <1>8 DEF PrefetchGetsRam, MoveChunk
  <2>2. \A c \in Own(t) : \/ chunk'[c] = chunk[c]
                          \/ c = <<t, nextChunk[t]>> /\ chunk'[c] = "readDisk"
    <3> DEFINE next == <<t, nextChunk[t]>>
    <3>1. chunk' = [chunk EXCEPT ![next] = "readDisk"]
      BY <2>1
    <3> HIDE DEF next
    <3>2. ASSUME NEW c \in AllChunks, c # next PROVE chunk'[c] = chunk[c]
      BY <1>1, <3>1, <3>2 DEF ChunkType
    <3>3. chunk'[next] \in {chunk[next], "readDisk"} \/ next \notin AllChunks
      BY <1>1, <3>1 DEF ChunkType
    <3>4. \A c \in Own(t) : c \in AllChunks
      BY <1>2
    <3> QED BY <3>2, <3>3, <3>4 DEF next
  <2>3. \A c \in Own(t) : buffer[c] => c # <<t, nextChunk[t]>>
    BY <2>1 DEF ReaderOf
  <2> QED BY <1>4, <2>1, <2>2, <2>3 DEF ReaderOf
<1>9. CASE PrefetchCancelled(t)
  BY <1>9, <1>1 DEF ReaderOf, PrefetchCancelled
<1>10. CASE PrefetchReads(t)
  <2>1. /\ xpc[t] = "prefetch" /\ xpc'[t] = "dispatch" /\ UNCHANGED <<ctxDone, prefetchErr, chunk>>
        /\ chunk[<<t, nextChunk[t]>>] = "readDisk"
        /\ buffer' = [buffer EXCEPT ![<<t, nextChunk[t]>>] = TRUE]
    BY <1>10, <1>1 DEF PrefetchReads, GoTo, PlaceType, NothingHappens, ReaderOf
  <2>2. \A c \in Own(t) : buffer'[c] = buffer[c] \/ c = <<t, nextChunk[t]>>
    BY <1>1, <1>2, <2>1 DEF ReaderType
  <2> QED BY <1>4, <2>1, <2>2 DEF ReaderOf
<1>11. CASE DispatchChunk(t)
  <2>1. /\ xpc[t] = "dispatch" /\ xpc'[t] \in {"chunks", "schedule"}
        /\ UNCHANGED <<ctxDone, prefetchErr, buffer>>
        /\ chunk' = [chunk EXCEPT ![<<t, nextChunk[t]>>] = "queued"]
    BY <1>11, <1>1 DEF DispatchChunk, GoTo, PlaceType, ReaderOf, MoveChunk
  <2>2. \A c \in Own(t) : IF c = <<t, nextChunk[t]>>
                          THEN chunk'[c] = "queued"
                          ELSE chunk'[c] = chunk[c]
    BY <1>1, <1>2, <2>1 DEF ChunkType
  <2>3. \A c \in Own(t) : chunk[c] = "readDisk" => c = <<t, nextChunk[t]>>
    BY <1>1, <1>2, <1>3 DEF ChunksOf
  <2> QED BY <1>4, <2>1, <2>2, <2>3 DEF ReaderOf
<1>12. CASE CheckSource(t) \/ CommitBlockList(t) \/ CheckLength(t)
  <2>1. /\ xpc[t] \in {"epilogue", "commit", "checkLength"}
        /\ xpc'[t] \in {"commit", "checkLength", "cleanup"}
        /\ UNCHANGED <<prefetchErr, buffer, chunk>>
    BY <1>12, <1>1 DEF CheckSource, CommitBlockList, CheckLength, GoTo, PlaceType
  <2> QED BY <1>4, <2>1 DEF ReaderOf
<1>13. CASE Cleanup(t) \/ Unlock(t) \/ Complete(t) \/ Report(t)
  <2>1. /\ xpc[t] \in {"cleanup", "unlock", "complete", "report"}
        /\ xpc'[t] \in {"unlock", "complete", "report", "done"}
        /\ UNCHANGED <<prefetchErr, buffer, chunk>>
    BY <1>13, <1>1 DEF Cleanup, Unlock, Complete, Report, GoTo, PlaceType
  <2> QED BY <1>4, <2>1 DEF ReaderOf
<1>14. ASSUME NEW c \in Own(t), StartChunk(c) PROVE ReaderOf(t)'
  <2>1. ~ctxDone[t] /\ chunk[c] = "queued"
    BY <1>14, <1>1, ActiveChunk DEF StartChunk, ReaderOf
  <2>2. /\ chunk' = [chunk EXCEPT ![c] = "sending"]
        /\ UNCHANGED <<xpc, ctxDone, prefetchErr, buffer>>
    BY <1>14, <1>2, <2>1 DEF StartChunk, ChunkAlreadyTransferred, MoveChunk
  <2>3. \A d \in Own(t) : IF d = c THEN chunk'[d] = "sending" ELSE chunk'[d] = chunk[d]
    BY <1>1, <1>2, <2>2 DEF ChunkType
  <2> QED BY <1>4, <2>1, <2>2, <2>3 DEF ReaderOf
<1>15. ASSUME NEW c \in Own(t), SendSucceeds(c) \/ SendMustRetry(c) PROVE ReaderOf(t)'
  <2>1. /\ chunk[c] = "sending" /\ UNCHANGED <<xpc, ctxDone, prefetchErr>>
        /\ buffer' = [buffer EXCEPT ![c] = FALSE]
        /\ \E pc \in {"reportBytes", "retrying", "sending"} : chunk' = [chunk EXCEPT ![c] = pc]
    BY <1>15 DEF SendSucceeds, SendMustRetry, CloseBuffer, MoveChunk
  <2>2. \A d \in Own(t) : IF d = c THEN chunk'[d] # "queuedToFail" ELSE chunk'[d] = chunk[d]
    BY <1>1, <1>2, <2>1 DEF ChunkType
  <2>3. \A d \in Own(t) : buffer'[d] => d # c /\ buffer[d]
    BY <1>1, <1>2, <2>1 DEF ReaderType
  <2> QED BY <1>4, <2>1, <2>2, <2>3 DEF ReaderOf
<1>16. ASSUME NEW c \in Own(t), RetryPrefetch(c) PROVE ReaderOf(t)'
  <2>1. /\ UNCHANGED <<xpc, ctxDone, prefetchErr>>
        /\ buffer' = [buffer EXCEPT ![c] = TRUE] /\ chunk' = [chunk EXCEPT ![c] = "sending"]
    BY <1>16 DEF RetryPrefetch, MoveChunk
  <2>2. \A d \in Own(t) : IF d = c THEN chunk'[d] = "sending" ELSE chunk'[d] = chunk[d]
    BY <1>1, <1>2, <2>1 DEF ChunkType
  <2>3. \A d \in Own(t) : d # c => buffer'[d] = buffer[d]
    BY <1>1, <1>2, <2>1 DEF ReaderType
  <2> QED BY <1>4, <2>1, <2>2, <2>3 DEF ReaderOf
<1>17. ASSUME NEW c \in Own(t), SendFails(c) PROVE ReaderOf(t)'
  <2>1. ~ctxDone[t]
    BY <1>17, <1>1, ActiveChunk DEF SendFails, ReaderOf
  <2> QED BY <1>17, <1>2, <2>1 DEF SendFails, NothingHappens
<1>18. ASSUME NEW c \in Own(t), ReportChunkBytes(c) PROVE ReaderOf(t)'
  <2>1. /\ chunk[c] = "reportBytes" /\ UNCHANGED <<xpc, ctxDone, prefetchErr, buffer>>
        /\ chunk' = [chunk EXCEPT ![c] = "count"]
    BY <1>18 DEF ReportChunkBytes, MoveChunk
  <2>2. \A d \in Own(t) : IF d = c THEN chunk'[d] = "count" ELSE chunk'[d] = chunk[d]
    BY <1>1, <1>2, <2>1 DEF ChunkType
  <2> QED BY <1>4, <2>1, <2>2 DEF ReaderOf
<1>19. ASSUME NEW c \in Own(t), ReportChunkDone(c) PROVE ReaderOf(t)'
  <2>1. /\ chunk[c] = "count" /\ UNCHANGED <<ctxDone, prefetchErr, buffer, nextChunk>>
        /\ chunk' = [chunk EXCEPT ![c] = "done"]
        /\ xpc'[t] = xpc[t] \/ xpc'[t] = "epilogue"
    BY <1>19, <1>1, <1>2 DEF ReportChunkDone, MoveChunk, GoTo, PlaceType
  <2>2. \A d \in Own(t) : IF d = c THEN chunk'[d] = "done" ELSE chunk'[d] = chunk[d]
    BY <1>1, <1>2, <2>1 DEF ChunkType
  <2>3. ChunksOf(t)'
    BY <1>19, ChunksStep DEF ChunkStep
  <2>4. xpc'[t] = "epilogue" => xpc[t] # "dispatch"
    BY <1>1, <1>3, <1>2, <2>1, <2>3 DEF ChunksOf, AfterChunks
  <2> QED BY <1>4, <2>1, <2>2, <2>4 DEF ReaderOf
<1> QED
  BY <1>5, <1>6, <1>7, <1>8, <1>9, <1>10, <1>11, <1>12, <1>13, <1>14, <1>15, <1>16, <1>17,
     <1>18, <1>19 DEF TransferStep, ChunkStep

(* A transfer's steps leave the readers of the others alone. *)
LEMMA ReaderElsewhere ==
    ASSUME NothingHappens, SendInv, NEW t \in Transfers, NEW u \in Transfers, u # t,
           ReaderOf(t), ReaderOf(u), TransferStep(t) \/ \E c \in Own(t) : ChunkStep(c)
    PROVE  ReaderOf(u)' /\ \A c \in Own(u) : buffer'[c] = buffer[c]
<1> USE DEF NotCancelled, EpilogueFrame, jptmVars, lockVars, byteVars, schedVars, ramVars,
        remoteVars, senderVars, serviceVars
<1>1. StatusType /\ ReaderType
  BY DEF SendInv, TypeOK, StatusType, ReaderType
<1>2. \A c \in Own(u) : c \in AllChunks /\ c[1] = u
  BY DEF Own
<1>3. xpc'[u] = xpc[u] /\ \A c \in Own(u) : chunk'[c] = chunk[c]
  BY Elsewhere DEF SameView
<1>4. prefetchErr'[u] = prefetchErr[u]
  <2>1. \/ prefetchErr' = prefetchErr
        \/ \E e \in BOOLEAN : prefetchErr' = [prefetchErr EXCEPT ![t] = e]
    <3>1. CASE PrepareChunk(t) \/ PrefetchCancelled(t) \/ PrefetchReads(t)
      <4>1. /\ prefetchErr[t] \in BOOLEAN
            /\ (prefetchErr[t] \/ (t \in LocalSources /\ ctxDone[t])) \in BOOLEAN
        BY <1>1 DEF ReaderType
      <4> QED BY <3>1, <4>1 DEF PrepareChunk, PrefetchCancelled, PrefetchReads
    <3>2. CASE \/ InitialChecks(t) \/ WaitUntilLockDestination(t) \/ PrefetchGetsRam(t)
               \/ DispatchChunk(t) \/ CheckSource(t) \/ CommitBlockList(t) \/ CheckLength(t)
      BY <3>2 DEF InitialChecks, WaitUntilLockDestination, PrefetchGetsRam, DispatchChunk,
         CheckSource, CommitBlockList, CheckLength
    <3>3. CASE Cleanup(t) \/ Unlock(t) \/ Complete(t) \/ Report(t)
      BY <3>3 DEF Cleanup, Unlock, Complete, Report
    <3>4. ASSUME NEW c \in Own(t), ChunkStep(c) PROVE prefetchErr' = prefetchErr
      BY <3>4 DEF ChunkStep, StartChunk, SendSucceeds, SendMustRetry, RetryPrefetch,
         SendFails, ReportChunkBytes, ReportChunkDone
    <3> QED BY <3>1, <3>2, <3>3, <3>4 DEF TransferStep
  <2> QED BY <1>1, <2>1 DEF ReaderType
<1>5. ctxDone'[u] = ctxDone[u]
  <2>1. ctxDone' = ctxDone \/ ctxDone' = [ctxDone EXCEPT ![t] = TRUE]
    <3>1. CASE \/ InitialChecks(t) \/ WaitUntilLockDestination(t) \/ PrepareChunk(t)
               \/ PrefetchGetsRam(t) \/ PrefetchCancelled(t) \/ PrefetchReads(t)
               \/ DispatchChunk(t)
      BY <3>1 DEF InitialChecks, WaitUntilLockDestination, EndsEarly, PrepareChunk,
         PrefetchGetsRam, PrefetchCancelled, PrefetchReads, DispatchChunk
    <3>2. CASE CheckSource(t) \/ CommitBlockList(t) \/ CheckLength(t)
      BY <3>2 DEF CheckSource, CommitBlockList, CheckLength, FailActive
    <3>3. CASE Cleanup(t) \/ Unlock(t) \/ Complete(t) \/ Report(t)
      BY <3>3 DEF Cleanup, Unlock, Complete, Report, ReportTransferDone
    <3>4. ASSUME NEW c \in Own(t), ChunkStep(c)
          PROVE  ctxDone' = ctxDone \/ ctxDone' = [ctxDone EXCEPT ![t] = TRUE]
      <4>1. c[1] = t
        BY DEF Own
      <4> QED
        BY <3>4, <4>1 DEF ChunkStep, StartChunk, SendSucceeds, SendMustRetry, RetryPrefetch,
           SendFails, FailActive, ReportChunkBytes, ReportChunkDone
    <3> QED BY <3>1, <3>2, <3>3, <3>4 DEF TransferStep
  <2> QED BY <1>1, <2>1 DEF StatusType
<1>6. \A c \in Own(u) : buffer'[c] = buffer[c]
  <2>1. \/ buffer' = buffer
        \/ \E d, b : d[1] = t /\ buffer' = [buffer EXCEPT ![d] = b]
    <3>1. CASE PrefetchReads(t) \/ DispatchChunk(t)
      BY <3>1 DEF PrefetchReads, DispatchChunk, CloseBuffer
    <3>2. CASE \/ InitialChecks(t) \/ WaitUntilLockDestination(t) \/ PrepareChunk(t)
               \/ PrefetchGetsRam(t) \/ PrefetchCancelled(t)
      BY <3>2 DEF InitialChecks, WaitUntilLockDestination, PrepareChunk, PrefetchGetsRam,
         PrefetchCancelled
    <3>3. CASE \/ CheckSource(t) \/ CommitBlockList(t) \/ CheckLength(t) \/ Cleanup(t)
               \/ Unlock(t) \/ Complete(t) \/ Report(t)
      BY <3>3 DEF CheckSource, CommitBlockList, CheckLength, Cleanup, Unlock, Complete, Report
    <3>4. ASSUME NEW c \in Own(t), ChunkStep(c)
          PROVE  buffer' = buffer \/ \E b : buffer' = [buffer EXCEPT ![c] = b]
      BY <3>4 DEF ChunkStep, StartChunk, SendSucceeds, SendMustRetry, RetryPrefetch,
         SendFails, CloseBuffer, ReportChunkBytes, ReportChunkDone
    <3> QED BY <3>1, <3>2, <3>3, <3>4 DEF TransferStep, Own
  <2> QED BY <1>1, <1>2, <2>1 DEF ReaderType
<1>7. Own(u)' = Own(u)
  BY DEF Own
<1> QED BY <1>3, <1>4, <1>5, <1>6, <1>7 DEF ReaderOf

-----------------------------------------------------------------------------
(* The limiter counts the chunks that hold RAM.                            *)
LEMMA SameHolders ==
    ASSUME CountInv, Holders' = Holders, ram' = ram
    PROVE  CountInv'
BY DEF CountInv

(* One more holder of memory takes a unit within the limit.                *)
LEMMA OneMoreHolder ==
    ASSUME CountInv, NEW x, x \notin Holders, Holders' = Holders \cup {x},
           ram' = ram + 1, ram + 1 <= RamLimit
    PROVE  CountInv'
<1>1. /\ IsFiniteSet(Holders \cup {x})
      /\ Cardinality(Holders \cup {x}) = Cardinality(Holders) + 1
  BY FS_AddElement DEF CountInv
<1> QED BY <1>1 DEF CountInv

(* A holder that is one no longer has given its unit back.                 *)
LEMMA OneHolderLess ==
    ASSUME CountInv, ram \in Int, NEW x, x \in Holders, Holders' = Holders \ {x}, ram' = ram - 1
    PROVE  CountInv'
<1>1. /\ IsFiniteSet(Holders \ {x})
      /\ Cardinality(Holders \ {x}) = Cardinality(Holders) - 1
  BY FS_RemoveElement DEF CountInv
<1>2. RamLimit \in Int
  BY SendAssumption
<1> QED BY <1>1, <1>2 DEF CountInv

(* The strict limit, which prefetching keeps, is within the limit. *)
LEMMA StrictIsWithin == StrictLimit \in Int /\ StrictLimit <= RamLimit
BY SendAssumption DEF StrictLimit

(* A step of a transfer keeps the units of memory with their holders.      *)
LEMMA HoldersStep ==
    ASSUME NothingHappens, SendInv, RamInv, NEW t \in Transfers,
           TransferStep(t) \/ \E c \in Own(t) : ChunkStep(c)
    PROVE  CountInv'
<1> USE DEF NotCancelled, EpilogueFrame, jptmVars, lockVars, byteVars, schedVars, ramVars,
        remoteVars, senderVars, serviceVars
<1>1. /\ PlaceType /\ ChunkType /\ ReaderType /\ CountInv
      /\ ChunksOf(t) /\ LockOf(t) /\ ReaderOf(t)
  BY DEF SendInv, TransferInv, TypeOK, PlaceType, ChunkType, ReaderType, RamInv
<1>2. /\ \A c \in Own(t) : /\ c \in AllChunks /\ c[1] = t /\ c[2] \in Nat
                          /\ c[2] < NumChunks[t] /\ c = <<t, c[2]>>
      /\ NumChunks[t] \in Nat \ {0} /\ nextChunk[t] \in Nat
  BY <1>1, OwnShape, TransferAssumption DEF Chunk, PlaceType
<1>3. ASSUME NEW c \in AllChunks, c \notin Own(t) PROVE c \in Holders' <=> c \in Holders
  <2>1. c[1] \in Transfers /\ c[1] # t /\ c \in Own(c[1])
    BY <1>3, ChunkShape DEF Own
  <2>2. ReaderOf(c[1])
    BY <2>1 DEF RamInv
  <2>3. buffer'[c] = buffer[c]
    BY <1>1, <2>1, <2>2, ReaderElsewhere
  <2>4. SameView(c[1])
    BY <2>1, Elsewhere
  <2> QED BY <2>1, <2>3, <2>4 DEF Holders, Reading, SameView
<1>4. \A c \in Own(t) :
        /\ c \in Holders <=> buffer[c] \/ (chunk[c] = "readDisk" /\ xpc[t] = "prefetch")
        /\ c \in Holders' <=> buffer'[c] \/ (chunk'[c] = "readDisk" /\ xpc'[t] = "prefetch")
  BY <1>2 DEF Holders, Reading
<1>5. Holders \subseteq AllChunks /\ Holders' \subseteq AllChunks
  BY DEF Holders
<1>6. ASSUME NEW c \in Own(t), chunk[c] = "readDisk" PROVE c = <<t, nextChunk[t]>>
  BY <1>1, <1>2, <1>6 DEF ChunksOf
<1> DEFINE Kept == \A c \in Own(t) : c \in Holders' <=> c \in Holders
<1>7. ASSUME Kept, ram' = ram PROVE CountInv'
  BY <1>1, <1>3, <1>5, <1>7, SameHolders
(* Steps that read nothing. *)
<1>8. CASE InitialChecks(t) \/ WaitUntilLockDestination(t)
  BY <1>8, <1>1, <1>4, <1>7 DEF InitialChecks, WaitUntilLockDestination, EndsEarly, GoTo, PlaceType
<1>9. CASE PrepareChunk(t)
  <2>1. xpc[t] = "schedule" /\ UNCHANGED ramVars
    BY <1>9 DEF PrepareChunk
  <2>2. \A c \in Own(t) : chunk[c] # "readDisk"
    BY <1>1, <2>1 DEF ChunksOf
  <2>3. \A c \in Own(t) : chunk'[c] # "readDisk"
    BY <1>9, <1>1, <1>2, <2>2 DEF PrepareChunk, MoveChunk, ChunkType
  <2> QED BY <1>4, <1>7, <2>1, <2>2, <2>3
<1>10. CASE PrefetchCancelled(t)
  BY <1>10, <1>1 DEF PrefetchCancelled, ReaderOf, Scheduling
<1>11. CASE DispatchChunk(t)
  BY <1>11, <1>1, <1>4, <1>7 DEF DispatchChunk, ReaderOf, GoTo, PlaceType
<1>12. CASE CheckSource(t) \/ CommitBlockList(t) \/ CheckLength(t)
  BY <1>12, <1>1, <1>4, <1>7 DEF CheckSource, CommitBlockList, CheckLength, GoTo, PlaceType
<1>13. CASE Cleanup(t) \/ Unlock(t) \/ Complete(t) \/ Report(t)
  BY <1>13, <1>1, <1>4, <1>7 DEF Cleanup, Unlock, Complete, Report, GoTo, PlaceType
<1>14. ASSUME NEW c \in Own(t), StartChunk(c) \/ ReportChunkBytes(c) PROVE CountInv'
  <2>1. /\ chunk[c] # "readDisk" /\ UNCHANGED <<xpc, ramVars>>
        /\ \E pc \in {"sending", "reportBytes", "count"} : chunk' = [chunk EXCEPT ![c] = pc]
    BY <1>14 DEF StartChunk, ReportChunkBytes, MoveChunk
  <2>2. \A d \in Own(t) : chunk'[d] = "readDisk" <=> chunk[d] = "readDisk"
    BY <1>1, <1>2, <2>1 DEF ChunkType
  <2> QED BY <1>4, <1>7, <2>1, <2>2
<1>15. ASSUME NEW c \in Own(t), ReportChunkDone(c) PROVE CountInv'
  <2>1. /\ chunk[c] = "count" /\ UNCHANGED <<ramVars, nextChunk>>
        /\ chunk' = [chunk EXCEPT ![c] = "done"]
        /\ xpc'[t] = xpc[t] \/ xpc'[t] = "epilogue"
    BY <1>15, <1>1, <1>2 DEF ReportChunkDone, MoveChunk, GoTo, PlaceType
  <2>2. \A d \in Own(t) : chunk'[d] = "readDisk" <=> chunk[d] = "readDisk"
    BY <1>1, <1>2, <2>1 DEF ChunkType
  <2>3. ChunksOf(t)'
    BY <1>15, ChunksStep DEF ChunkStep
  <2>4. xpc'[t] = "epilogue" => xpc[t] # "prefetch"
    BY <1>1, <1>2, <2>1, <2>3 DEF ChunksOf, AfterChunks, Scheduling
  <2> QED BY <1>4, <1>7, <2>1, <2>2, <2>4
<1>16. ASSUME NEW c \in Own(t), SendFails(c) PROVE CountInv'
  <2>1. ~ctxDone[t]
    BY <1>16, <1>1, ActiveChunk DEF SendFails, ReaderOf
  <2> QED BY <1>16, <1>2, <2>1 DEF SendFails, NothingHappens
(* RAM is taken, filled and given back. *)
<1>17. CASE PrefetchGetsRam(t)
  <2> DEFINE x == <<t, nextChunk[t]>>
  <2>1. /\ xpc[t] = "prefetch" /\ chunk[x] = "waitForRam" /\ UNCHANGED <<xpc, buffer>>
        /\ chunk' = [chunk EXCEPT ![x] = "readDisk"]
        /\ ram + 1 <= StrictLimit /\ ram' = ram + 1
    BY <1>17 DEF PrefetchGetsRam, MoveChunk
  <2>2. x \in Own(t) /\ x \in AllChunks
    BY <1>1, <1>2, <2>1, OwnShape DEF ChunksOf, Scheduling, Chunk
  <2>3. ~buffer[x]
    BY <1>1, <2>1, <2>2 DEF ReaderOf
  <2> HIDE DEF x
  <2>4. chunk'[x] = "readDisk" /\ \A d \in Own(t) : d # x => chunk'[d] = chunk[d]
    BY <1>1, <2>1, <2>2 DEF ChunkType, Own
  <2>5. x \notin Holders
    BY <1>4, <2>1, <2>2, <2>3
  <2>6. x \in Holders' /\ \A d \in Own(t) : d # x => (d \in Holders' <=> d \in Holders)
    BY <1>4, <2>1, <2>2, <2>4
  <2>7. Holders' = Holders \cup {x}
    BY <1>3, <1>5, <2>2, <2>6
  <2>8. ram + 1 <= RamLimit
    BY <1>1, <2>1, StrictIsWithin, SendAssumption DEF ReaderType
  <2> QED BY <1>1, <2>1, <2>5, <2>7, <2>8, OneMoreHolder
<1>18. CASE PrefetchReads(t)
  <2> DEFINE x == <<t, nextChunk[t]>>
  <2>1. /\ xpc[t] = "prefetch" /\ chunk[x] = "readDisk" /\ xpc'[t] = "dispatch"
        /\ UNCHANGED <<chunk, ram>> /\ buffer' = [buffer EXCEPT ![x] = TRUE]
    BY <1>18, <1>1 DEF PrefetchReads, NothingHappens, ReaderOf, Scheduling, GoTo, PlaceType
  <2>2. x \in Own(t) /\ x \in AllChunks
    BY <1>1, <1>2, <2>1, OwnShape DEF ChunksOf, Scheduling, Chunk
  <2> HIDE DEF x
  <2>3. buffer'[x] /\ \A d \in Own(t) : d # x => buffer'[d] = buffer[d]
    BY <1>1, <2>1, <2>2 DEF ReaderType, Own
  <2>4. \A d \in Own(t) : d # x => chunk[d] # "readDisk"
    BY <1>6 DEF x
  <2> QED BY <1>4, <1>7, <2>1, <2>2, <2>3, <2>4
<1>19. ASSUME NEW c \in Own(t), SendSucceeds(c) \/ SendMustRetry(c) PROVE CountInv'
  <2>1. /\ chunk[c] = "sending" /\ UNCHANGED xpc /\ CloseBuffer(c)
        /\ \E pc \in {"reportBytes", "retrying", "sending"} : chunk' = [chunk EXCEPT ![c] = pc]
    BY <1>19 DEF SendSucceeds, SendMustRetry, MoveChunk
  <2>2. \A d \in Own(t) : chunk'[d] = "readDisk" <=> chunk[d] = "readDisk"
    BY <1>1, <1>2, <2>1 DEF ChunkType
  <2>3. ~buffer'[c] /\ \A d \in Own(t) : d # c => buffer'[d] = buffer[d]
    BY <1>1, <1>2, <2>1 DEF ReaderType, CloseBuffer
  <2>4. c \notin Holders' /\ \A d \in Own(t) : d # c => (d \in Holders' <=> d \in Holders)
    BY <1>4, <2>1, <2>2, <2>3
  <2>5. c \in Holders <=> buffer[c]
    BY <1>4, <2>1
  <2>6. CASE buffer[c]
    <3>1. Holders' = Holders \ {c}
      BY <1>3, <1>5, <2>4
    <3> QED BY <1>1, <2>1, <2>5, <2>6, <3>1, OneHolderLess DEF CloseBuffer, ReaderType
  <2>7. CASE ~buffer[c]
    BY <1>7, <2>1, <2>4, <2>5, <2>7 DEF CloseBuffer
  <2> QED BY <2>6, <2>7
<1>20. ASSUME NEW c \in Own(t), RetryPrefetch(c) PROVE CountInv'
  <2>1. /\ chunk[c] = "retrying" /\ UNCHANGED xpc /\ buffer' = [buffer EXCEPT ![c] = TRUE]
        /\ chunk' = [chunk EXCEPT ![c] = "sending"] /\ ram + 1 <= RamLimit /\ ram' = ram + 1
    BY <1>20 DEF RetryPrefetch, MoveChunk
  <2>2. \A d \in Own(t) : chunk'[d] = "readDisk" <=> chunk[d] = "readDisk"
    BY <1>1, <1>2, <2>1 DEF ChunkType
  <2>3. buffer'[c] /\ \A d \in Own(t) : d # c => buffer'[d] = buffer[d]
    BY <1>1, <1>2, <2>1 DEF ReaderType
  <2>4. ~buffer[c]
    BY <1>1, <2>1 DEF ReaderOf
  <2>5. c \notin Holders /\ c \in AllChunks
    BY <1>2, <1>4, <2>1, <2>4
  <2>6. c \in Holders' /\ \A d \in Own(t) : d # c => (d \in Holders' <=> d \in Holders)
    BY <1>4, <2>1, <2>2, <2>3
  <2>7. Holders' = Holders \cup {c}
    BY <1>3, <1>5, <2>5, <2>6
  <2> QED BY <1>1, <2>1, <2>5, <2>7, OneMoreHolder
<1> QED
  BY <1>8, <1>9, <1>10, <1>11, <1>12, <1>13, <1>14, <1>15, <1>16, <1>17, <1>18, <1>19, <1>20
     DEF TransferStep, ChunkStep

(* Any step keeps the account of the memory.                               *)
LEMMA RamStep ==
    ASSUME NothingHappens, SendInv, RamInv, [Next]_vars
    PROVE  RamInv'
<1>1. ASSUME NEW t \in Transfers, TransferStep(t) \/ \E c \in Own(t) : ChunkStep(c)
      PROVE  RamInv'
  <2>1. CountInv'
    BY <1>1, HoldersStep
  <2>2. ReaderOf(t) /\ ReaderOf(t)'
    BY <1>1, ReaderStep DEF RamInv
  <2>3. \A u \in Transfers \ {t} : ReaderOf(u)'
    BY <1>1, <2>2, ReaderElsewhere DEF RamInv
  <2> QED BY <2>1, <2>2, <2>3 DEF RamInv
<1>2. ASSUME NEW c \in AllChunks, ChunkStep(c) PROVE RamInv'
  BY <1>1, <1>2, ChunkShape
<1>3. ~CancelJob
  BY DEF CancelJob, NothingHappens
<1>4. CASE UNCHANGED vars
  <2>1. UNCHANGED <<xpc, ctxDone, chunk, prefetchErr, buffer, ram>>
    BY <1>4 DEF vars, jptmVars, schedVars, ramVars
  <2>2. Holders' = Holders
    BY <2>1 DEF Holders, Reading
  <2>3. \A t \in Transfers : ReaderOf(t)'
    BY <2>1 DEF RamInv, ReaderOf, Own
  <2> QED BY <2>1, <2>2, <2>3, SameHolders DEF RamInv
<1> QED BY <1>1, <1>2, <1>3, <1>4 DEF Next

(* The RAM that is counted is that of the readers, within the limit, and   *)
(* is given back when nothing fails and the job is not cancelled           *)
(* (singleChunkReader).                                                    *)
THEOREM RamIsOfReaders ==
    ASSUME NothingHappens
    PROVE  Spec => []RamIsGivenBack
<1>1. Init => RamInv
  <2> SUFFICES ASSUME Init PROVE RamInv
    OBVIOUS
  <2>1. Holders = {}
    BY DEF Init, Holders, Reading
  <2>2. CountInv
    BY <2>1, FS_EmptySet, SendAssumption DEF Init, CountInv
  <2>3. \A t \in Transfers : ReaderOf(t)
    BY DEF Init, JptmInit, ReaderOf, Own
  <2> QED BY <2>2, <2>3 DEF RamInv
<1>2. SendInv /\ RamInv /\ [Next]_vars => RamInv'
  BY RamStep
<1>3. SendInv /\ RamInv => RamIsGivenBack
  <2> SUFFICES ASSUME SendInv, RamInv PROVE RamIsGivenBack
    OBVIOUS
  <2>1. ASSUME NEW c \in AllChunks, buffer[c] PROVE xpc[c[1]] # "done"
    <3>1. c[1] \in Transfers /\ c \in Own(c[1])
      BY ChunkShape
    <3>2. ReaderOf(c[1]) /\ ChunksOf(c[1]) /\ LockOf(c[1]) /\ PlaceType
      BY <3>1 DEF RamInv, SendInv, TransferInv, TypeOK, PlaceType
    <3>3. CASE chunk[c] \in {"queued", "sending"}
      BY <3>1, <3>2, <3>3, ActiveChunk DEF Scheduling
    <3>4. CASE xpc[c[1]] = "dispatch"
      BY <3>4
    <3> QED BY <2>1, <3>1, <3>2, <3>3, <3>4 DEF ReaderOf
  <2>2. Holders = {c \in AllChunks : \/ buffer[c]
                                     \/ chunk[c] = "readDisk" /\ xpc[c[1]] = "prefetch"}
    BY DEF Holders, Reading
  <2> QED BY <2>1, <2>2 DEF RamInv, CountInv, RamIsGivenBack
<1> QED BY <1>1, <1>2, <1>3, SendInvHolds, PTL DEF Spec
=============================================================================
