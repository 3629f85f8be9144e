----------------------- MODULE DownloadTransferProofs -----------------------
(***************************************************************************)
(* Proofs about DownloadTransfer and its ChunkedFileWriter, for any set of *)
(* transfers, any destinations they share, any number of chunks and        *)
(* workers, all limits and all faults: a file under its final name is      *)
(* whole, a success has been delivered, files change only under their      *)
(* lock, nothing is left behind, and the RAM that is counted is that of    *)
(* chunks which are pending, as long as nothing fails.                     *)
(***************************************************************************)
EXTENDS DownloadTransfer, FiniteSetTheorems, TLAPS

Own(t) == {c \in AllChunks : c[1] = t}
DoneOf(t) == {c \in Own(t) : chunk[c] = "done"}
Elements(q) == {q[i] : i \in 1 .. Len(q)}
NoDuplicates(q) == \A i, j \in 1 .. Len(q) : i # j => q[i] # q[j]

Working == {"select", "process", "save", "sendMd5"}
Arrived == {"reportBytes", "count", "done"}
AfterFlush == {"verify", "checkLength", "rename", "complete", "succeed", "unlock", "report",
               "done", "panicked"}
WithLock == {"create", "schedule", "chunks", "flush", "flushing", "flushed", "flushFailed",
             "verify", "checkLength", "rename", "succeed"}

(* TypeOK, but for the limits of RAM and of open files, by what it is of.  *)
StatusType ==
    /\ status \in [Transfers -> Unsettled \cup {"Success", "Failed", "Cancelled", "Skipped"}]
    /\ ctxDone \in [Transfers -> BOOLEAN] /\ destModified \in [Transfers -> BOOLEAN]
LockType ==
    /\ lockHeld \in [Transfers -> BOOLEAN] /\ lockedDestinations \subseteq Destinations
CountType ==
    /\ chunksDone \in [Transfers -> Nat] /\ successfulBytes \in [Transfers -> Nat]
    /\ timesReported \in [Transfers -> Nat] /\ bytesInActiveFiles \in Int
PlaceType ==
    /\ xpc \in [Transfers -> {"start", "lock", "create", "schedule", "chunks", "done", "panicked"}
                              \cup InEpilogue]
    /\ nextChunk \in [Transfers -> Nat]
    /\ chunk \in [AllChunks -> {"unscheduled", "queued", "downloading", "enqueue", "reportBytes",
                                 "count", "done"}]
    /\ wpc \in [Transfers -> {"none", "select", "process", "save", "sendMd5", "cleanup", "exited"}]
QueueType ==
    /\ queue \in [Transfers -> Seq(Nat)] /\ \A t \in Transfers : queue[t] \in Seq(Chunk(t))
    /\ unsaved \in [Transfers -> SUBSET Nat] /\ \A t \in Transfers : unsaved[t] \subseteq Chunk(t)
    /\ closed \in [Transfers -> BOOLEAN] /\ nextToSave \in [Transfers -> Nat]
RamType == reserved \in [Transfers -> Int] /\ ram \in Int
FileType ==
    /\ temp \in [Destinations -> Seq(AllChunks) \cup {NoFile}]
    /\ final \in [Destinations -> Seq(AllChunks) \cup {NoFile}]

(* The places of a transfer, of its writer and of its chunks. *)
PlaceOf(t) ==
    /\ xpc[t] \in {"start", "lock", "create"} => wpc[t] = "none"
    /\ xpc[t] \in WithLock \ {"create"} => wpc[t] # "none"
    /\ nextChunk[t] <= NumChunks[t]
    /\ wpc[t] = "none" => nextChunk[t] = 0
    /\ xpc[t] = "schedule" => nextChunk[t] < NumChunks[t]
    /\ wpc[t] # "none" /\ xpc[t] # "schedule" => nextChunk[t] = NumChunks[t]
    /\ wpc[t] \in Working => xpc[t] \in {"schedule", "chunks", "epilogue", "flush", "flushing"}
    /\ \A c \in Own(t) : chunk[c] = "unscheduled" <=> c[2] >= nextChunk[t]
    /\ xpc[t] \notin {"schedule", "chunks"} =>
           \A c \in Own(t) : chunk[c] \in {"unscheduled", "done"}
    /\ closed[t] => xpc[t] \in {"flushing", "flushed", "flushFailed"} \cup AfterFlush
    /\ wpc[t] = "sendMd5" => closed[t]

(* The counter says how many chunks are done. *)
CountOf(t) == chunksDone[t] = Cardinality(DoneOf(t))

(* A transfer with a writer has its lock until the end of its epilogue. *)
LockOf(t) ==
    /\ lockHeld[t] =>
         xpc[t] \in WithLock \cup {"epilogue", "complete", "unlock", "panicked"}
    /\ xpc[t] \in WithLock => lockHeld[t]
    /\ wpc[t] # "none" /\ xpc[t] \in {"epilogue", "complete", "unlock"} => lockHeld[t]
    /\ xpc[t] = "lock" \/ lockHeld[t] => destModified[t]

(* One transfer at a time has the lock of a name, and a place among the    *)
(* open files.                                                             *)
Holders == {t \in Transfers : lockHeld[t]}

OneHolder ==
    /\ lockedDestinations = {Destination[t] : t \in Holders}
    /\ \A t, u \in Holders : Destination[t] = Destination[u] => t = u
    /\ IsFiniteSet(Holders) /\ openFiles = Cardinality(Holders) /\ openFiles <= FileLimit

(* What is in the channel and in the map of chunks is not saved yet, and   *)
(* is there once.                                                          *)
QueueOf(t) ==
    /\ NoDuplicates(queue[t]) /\ Elements(queue[t]) \cap unsaved[t] = {}
    /\ \A i \in Elements(queue[t]) \cup unsaved[t] : i >= nextToSave[t]
    /\ nextToSave[t] <= NumChunks[t]
    /\ wpc[t] = "save" => nextToSave[t] > 0
    /\ \A c \in Own(t) :
         c[2] < nextToSave[t] \/ c[2] \in Elements(queue[t]) \cup unsaved[t] =>
             chunk[c] \in Arrived

(* As long as nothing has happened to a transfer, a chunk that arrived is  *)
(* on its way to the file, and a chunk that can be saved is.               *)
OrderOf(t) ==
    ~ctxDone[t] =>
        /\ wpc[t] \in Working =>
             \A c \in Own(t) : chunk[c] \in Arrived =>
                 c[2] < nextToSave[t] \/ c[2] \in Elements(queue[t]) \cup unsaved[t]
        /\ wpc[t] \in {"select", "sendMd5"} => nextToSave[t] \notin unsaved[t]
        /\ wpc[t] = "sendMd5" => queue[t] = <<>>

(* The first n chunks of a file, and all of them. *)
FirstOf(t, n) == [i \in 1 .. n |-> <<t, i - 1>>]
Whole(t) == FirstOf(t, NumChunks[t])

ContentOf(t) ==
    LET d == Destination[t]
    IN  /\ wpc[t] \in {"select", "process", "sendMd5"} => temp[d] = FirstOf(t, nextToSave[t])
        /\ wpc[t] = "save" => temp[d] = FirstOf(t, nextToSave[t] - 1)
        /\ xpc[t] \in {"flushed", "verify"} /\ ~IsDead(t) => temp[d] = Whole(t)
        /\ xpc[t] \in {"checkLength", "rename"} => temp[d] = Whole(t)
        /\ xpc[t] = "succeed" \/ (xpc[t] = "complete" /\ ~IsDead(t)) =>
               temp[d] = NoFile /\ final[d] # NoFile
        /\ status[t] = "Success" => final[d] # NoFile

(* A transfer without a writer never gets to be a success. *)
SettledOf(t) ==
    /\ status[t] = "Success" => xpc[t] \in {"unlock", "report", "done"}
    /\ xpc[t] \in {"epilogue", "complete"} /\ wpc[t] = "none" => IsDead(t)

(* A temporary file is that of a transfer which will rename or delete it.  *)
TempIsOwned ==
    \A d \in Destinations : temp[d] # NoFile =>
        \E t \in WritersTo(d) :
            lockHeld[t] /\ xpc[t] \notin {"create", "succeed", "unlock", "panicked"}

(* The chunks of a transfer whose RAM somebody will give back.             *)
Needed(t) ==
    {c \in Own(t) : \/ chunk[c] \in {"downloading", "enqueue"}
                    \/ chunk[c] = "queued" /\ ~ctxDone[t]
                    \/ c[2] \in Elements(queue[t]) \cup unsaved[t]
                    \/ wpc[t] = "save" /\ c[2] = nextToSave[t] - 1}

(* held has the chunks whose RAM has not been given back: those that are   *)
(* counted in the transfer's reserve, until its Flush.                     *)
HeldOf(held, t) ==
    /\ xpc[t] \in AfterFlush => held \cap Own(t) = {}
    /\ xpc[t] \notin AfterFlush =>
           reserved[t] = Cardinality(held \cap Own(t)) /\ Needed(t) \subseteq held

Holds(held) ==
    /\ IsFiniteSet(held) /\ \A c \in held : chunk[c] # "unscheduled"
    /\ ram <= Cardinality(held)
    /\ \A t \in Transfers : HeldOf(held, t)

RamInv == ram <= RamLimit /\ \E held \in SUBSET AllChunks : Holds(held)

Types ==
    /\ StatusType /\ LockType /\ CountType /\ PlaceType /\ QueueType /\ RamType /\ FileType

DownInv ==
    /\ Types /\ OneHolder /\ TempIsOwned /\ FinalFilesAreWhole /\ RamInv
    /\ \A t \in Transfers :
         PlaceOf(t) /\ CountOf(t) /\ LockOf(t) /\ QueueOf(t) /\ OrderOf(t) /\ ContentOf(t)
         /\ SettledOf(t)

-----------------------------------------------------------------------------
(* Transfers and their chunks.                                             *)

(* A chunk is a pair of its transfer and its index. *)
LEMMA ChunkShape ==
    ASSUME NEW c \in AllChunks
    PROVE  /\ c[1] \in Transfers /\ c[2] \in Chunk(c[1]) /\ c = <<c[1], c[2]>>
           /\ c \in Own(c[1])
<1>1. PICK t \in Transfers : c \in {t} \X Chunk(t)
  BY DEF AllChunks
<1> QED BY <1>1 DEF Own

(* The chunks of a transfer are as many as it has.                         *)
LEMMA OwnShape ==
    ASSUME NEW t \in Transfers
    PROVE  /\ NumChunks[t] \in Nat \ {0} /\ Chunk(t) = 0 .. NumChunks[t] - 1
           /\ IsFiniteSet(Chunk(t)) /\ Chunk(t) \subseteq Nat
           /\ \A i \in Chunk(t) : <<t, i>> \in Own(t)
           /\ \A c \in Own(t) : /\ c \in AllChunks /\ c[1] = t /\ c[2] \in Chunk(t)
                                /\ c = <<t, c[2]>>
           /\ IsFiniteSet(Own(t)) /\ Cardinality(Own(t)) = NumChunks[t]
<1>1. NumChunks[t] \in Nat \ {0}
  BY TransferAssumption
<1>2. IsFiniteSet(Chunk(t)) /\ Cardinality(Chunk(t)) = NumChunks[t]
  <2>1. 0 \in Int /\ NumChunks[t] - 1 \in Int
    BY <1>1
  <2>2. /\ IsFiniteSet(0 .. NumChunks[t] - 1)
        /\ Cardinality(0 .. NumChunks[t] - 1) =
               IF 0 > NumChunks[t] - 1 THEN 0 ELSE (NumChunks[t] - 1) - 0 + 1
    BY <2>1, FS_Interval
  <2> QED BY <1>1, <2>2 DEF Chunk
<1>3. IsFiniteSet({t}) /\ Cardinality({t}) = 1
  BY FS_Singleton
<1>4. IsFiniteSet({t} \X Chunk(t)) /\ Cardinality({t} \X Chunk(t)) = 1 * NumChunks[t]
  BY <1>2, <1>3, FS_Product
<1>5. {t} \X Chunk(t) \subseteq AllChunks
  BY DEF AllChunks
<1>6. Own(t) = {t} \X Chunk(t)
  <2>1. \A c \in Own(t) : c \in {t} \X Chunk(t)
    BY ChunkShape DEF Own
  <2> QED BY <1>5, <2>1 DEF Own
<1>7. \A i \in Chunk(t) : <<t, i>> \in Own(t)
  BY <1>6
<1>8. \A c \in Own(t) : /\ c \in AllChunks /\ c[1] = t /\ c[2] \in Chunk(t) /\ c = <<t, c[2]>>
  BY ChunkShape DEF Own
<1>9. Cardinality(Own(t)) = NumChunks[t]
  BY <1>1, <1>4, <1>6
<1> QED BY <1>1, <1>2, <1>4, <1>6, <1>7, <1>8, <1>9 DEF Chunk

(* What a channel holds when a chunk is appended, or received.             *)
LEMMA QueueAppend ==
    ASSUME NEW S, NEW q \in Seq(S), NEW e \in S
    PROVE  /\ Append(q, e) \in Seq(S)
           /\ Elements(Append(q, e)) = Elements(q) \cup {e}
           /\ NoDuplicates(q) /\ e \notin Elements(q) => NoDuplicates(Append(q, e))
<1>1. /\ Len(q) \in Nat /\ Len(Append(q, e)) = Len(q) + 1
      /\ \A i \in 1 .. Len(q) : Append(q, e)[i] = q[i]
      /\ Append(q, e)[Len(q) + 1] = e
  OBVIOUS
<1>2. \A i \in 1 .. Len(q) + 1 : i \in 1 .. Len(q) \/ i = Len(q) + 1
  BY <1>1
<1> QED BY <1>1, <1>2 DEF Elements, NoDuplicates

(* What is received is no longer in the channel. *)
LEMMA QueueTail ==
    ASSUME NEW S, NEW q \in Seq(S), q # <<>>
    PROVE  /\ Tail(q) \in Seq(S) /\ Head(q) \in S
           /\ Elements(q) = Elements(Tail(q)) \cup {Head(q)}
           /\ NoDuplicates(q) => NoDuplicates(Tail(q)) /\ Head(q) \notin Elements(Tail(q))
<1>1. /\ Len(q) \in Nat \ {0} /\ Len(Tail(q)) = Len(q) - 1 /\ Head(q) = q[1]
      /\ \A i \in 1 .. Len(q) - 1 : Tail(q)[i] = q[i + 1]
      /\ Tail(q) \in Seq(S) /\ Head(q) \in S
  OBVIOUS
<1>2. \A i \in 1 .. Len(q) : i = 1 \/ (i - 1 \in 1 .. Len(q) - 1 /\ q[i] = Tail(q)[i - 1])
  BY <1>1
<1>3. \A i \in 1 .. Len(q) - 1 : i + 1 \in 1 .. Len(q) /\ i + 1 # 1
  BY <1>1
<1>4. Elements(q) = Elements(Tail(q)) \cup {Head(q)}
  BY <1>1, <1>2, <1>3 DEF Elements
<1>5. NoDuplicates(q) => NoDuplicates(Tail(q)) /\ Head(q) \notin Elements(Tail(q))
  <2> SUFFICES ASSUME NoDuplicates(q)
               PROVE  NoDuplicates(Tail(q)) /\ Head(q) \notin Elements(Tail(q))
    OBVIOUS
  <2>1. \A i \in 1 .. Len(q) - 1 : Tail(q)[i] # q[1]
    BY <1>1, <1>3 DEF NoDuplicates
  <2>2. \A i, j \in 1 .. Len(q) - 1 : i # j => Tail(q)[i] # Tail(q)[j]
    BY <1>1, <1>3 DEF NoDuplicates
  <2> QED BY <1>1, <2>1, <2>2 DEF Elements, NoDuplicates
<1> QED BY <1>1, <1>4, <1>5

(* An empty channel. *)
LEMMA QueueEmpty == Elements(<<>>) = {} /\ NoDuplicates(<<>>)
BY DEF Elements, NoDuplicates

(* A file that is written one chunk further.                               *)
LEMMA FirstChunks ==
    ASSUME NEW t \in Transfers
    PROVE  /\ FirstOf(t, 0) = <<>>
           /\ \A n \in 0 .. NumChunks[t] : FirstOf(t, n) \in Seq(AllChunks)
           /\ \A n \in 0 .. NumChunks[t] - 1 : Append(FirstOf(t, n), <<t, n>>) = FirstOf(t, n + 1)
           /\ \A n \in 0 .. NumChunks[t] : FirstOf(t, n) # NoFile
           /\ Whole(t) \in Seq(AllChunks) /\ Whole(t) # NoFile
<1>1. NumChunks[t] \in Nat \ {0} /\ \A i \in 0 .. NumChunks[t] - 1 : <<t, i>> \in AllChunks
  BY OwnShape DEF Own
<1>2. \A n \in 0 .. NumChunks[t] : FirstOf(t, n) \in Seq(AllChunks) /\ Len(FirstOf(t, n)) = n
  BY <1>1 DEF FirstOf
<1>3. ASSUME NEW n \in 0 .. NumChunks[t] - 1
      PROVE  Append(FirstOf(t, n), <<t, n>>) = FirstOf(t, n + 1)
  BY <1>1, <1>2 DEF FirstOf
<1>4. FirstOf(t, 0) = <<>>
  BY DEF FirstOf
<1> QED BY SMTT(30), <1>1, <1>2, <1>3, <1>4, WriterAssumption DEF Whole

(* Every step keeps the types.                                             *)
LEMMA StatusTypeStep ==
    ASSUME StatusType, Next
    PROVE  StatusType'
<1> USE TransferAssumption, ChunkShape DEF StatusType, Unsettled, jptmVars, lockVars, byteVars,
        writerVars, channelVars, orderVars, capacityVars
<1>1. ASSUME NEW t \in Transfers, InitialChecks(t) PROVE StatusType'
  BY <1>1 DEF InitialChecks, EndsEarly, SetStatus, GoTo
<1>2. ASSUME NEW t \in Transfers, WaitUntilLockDestination(t) PROVE StatusType'
  BY <1>2 DEF WaitUntilLockDestination, LockDestination, SetStatus, GoTo
<1>3. ASSUME NEW t \in Transfers, CreateFile(t) PROVE StatusType'
  BY <1>3 DEF CreateFile, WorkerGoesTo, SetStatus, GoTo
<1>4. ASSUME NEW t \in Transfers, EnterEpilogue(t) PROVE StatusType'
  BY <1>4 DEF EnterEpilogue, SetStatus, GoTo, EpilogueFrame
<1>5. ASSUME NEW t \in Transfers, CloseFile(t) PROVE StatusType'
  BY <1>5 DEF CloseFile, ReleaseCapacity, FailActive, SetStatus, GoTo, EpilogueFrame
<1>6. ASSUME NEW t \in Transfers, CheckMd5(t) PROVE StatusType'
  BY <1>6 DEF CheckMd5, FailActive, SetStatus, GoTo, VerifyFrame, EpilogueFrame
<1>7. ASSUME NEW t \in Transfers, CheckLength(t) PROVE StatusType'
  BY <1>7 DEF CheckLength, FailActive, SetStatus, GoTo, VerifyFrame, EpilogueFrame
<1>8. ASSUME NEW t \in Transfers, Rename(t) PROVE StatusType'
  BY <1>8 DEF Rename, FailActive, SetStatus, GoTo, VerifyFrame, EpilogueFrame
<1>9. ASSUME NEW t \in Transfers, Succeed(t) PROVE StatusType'
  BY <1>9 DEF Succeed, SetStatus, GoTo, VerifyFrame, EpilogueFrame
<1>10. ASSUME NEW t \in Transfers, Report(t) PROVE StatusType'
  BY <1>10 DEF Report, ReportTransferDone, SubtractBytes, GoTo
<1>11. ASSUME NEW t \in Transfers,
             \/ ScheduleChunk(t) \/ Flush(t) \/ FlushReturns(t) \/ Complete(t) \/ Unlock(t)
      PROVE  StatusType'
  <2>1. UNCHANGED <<status, ctxDone, destModified>>
    BY <1>11 DEF ScheduleChunk, Reserve, LimitFor, MoveChunk, GoTo, Flush, CloseChannel,
         EpilogueFrame, FlushReturns, WorkerGoesTo, WriterDone, Complete, IsDeadInflight,
         VerifyFrame, Unlock, EnsureDestinationUnlocked, jptmVars, lockVars, byteVars,
         writerVars, channelVars, orderVars, capacityVars
  <2> QED BY <2>1
<1>12. ASSUME NEW t \in Transfers,
             \/ ReceiveChunk(t) \/ ChannelIsClosed(t) \/ WorkerIsCancelled(t)
             \/ ProcessAvailableChunk(t) \/ SaveOneChunk(t) \/ WorkerExits(t),
             UNCHANGED <<jptmVars, xpc, nextChunk, chunk, openFiles, final>>
      PROVE  StatusType'
  <2>1. UNCHANGED <<status, ctxDone, destModified>>
    BY <1>12 DEF ReceiveChunk, WorkerGoesTo, ChannelIsClosed, WorkerIsCancelled,
         ProcessAvailableChunk, SaveOneChunk, Release, WorkerExits, jptmVars, lockVars,
         byteVars, writerVars, channelVars, orderVars, capacityVars
  <2> QED BY <2>1
<1>13. ASSUME NEW c \in AllChunks, RequestFails(c) PROVE StatusType'
  BY <1>13 DEF RequestFails, FailActive, SetStatus, MoveChunk, ChunkFrame
<1>14. ASSUME NEW c \in AllChunks, ReadBody(c) PROVE StatusType'
  BY <1>14 DEF ReadBody, Release, FailActive, SetStatus, MoveChunk, ChunkFrame
<1>15. ASSUME NEW c \in AllChunks, EnqueueChunk(c) PROVE StatusType'
  BY <1>15 DEF EnqueueChunk, ChannelHasRoom, Enqueue, WriterDone, Release, FailActive, SetStatus,
         MoveChunk, ChunkFrame
<1>16. ASSUME NEW c \in AllChunks,
             \/ StartChunk(c) \/ ReportChunkBytes(c) \/ ReportChunkDone(c)
      PROVE  StatusType'
  <2>1. UNCHANGED <<status, ctxDone, destModified>>
    BY <1>16 DEF StartChunk, MoveChunk, ChunkFrame, ReportChunkBytes, AddChunkBytes,
         ReportChunkDone, CountChunk, IsLastChunk, GoTo, jptmVars, lockVars, byteVars,
         writerVars, channelVars, orderVars, capacityVars
  <2> QED BY <2>1
<1>17. CASE CancelJob
  BY <1>17 DEF CancelJob, CancelContexts, EpilogueFrame
<1> QED BY <1>1, <1>2, <1>3, <1>4, <1>5, <1>6, <1>7, <1>8, <1>9, <1>10, <1>11, <1>12, <1>13,
           <1>14, <1>15, <1>16, <1>17 DEF Next, TransferStep, ChunkStep, WriterStep, WorkerStep

(* ...of the locks... *)
LEMMA LockTypeStep ==
    ASSUME LockType, Next
    PROVE  LockType'
<1> USE TransferAssumption DEF LockType, jptmVars, lockVars, byteVars, writerVars, channelVars,
        orderVars, capacityVars
<1>1. ASSUME NEW t \in Transfers, WaitUntilLockDestination(t) PROVE LockType'
  <2>1. LockDestination(t) \/ UNCHANGED lockVars
    BY <1>1 DEF WaitUntilLockDestination
  <2>2. CASE LockDestination(t)
    BY <2>2 DEF LockDestination
  <2>3. CASE UNCHANGED lockVars
    BY <2>3
  <2> QED BY <2>1, <2>2, <2>3
<1>2. ASSUME NEW t \in Transfers, Unlock(t) PROVE LockType'
  BY <1>2 DEF Unlock, EnsureDestinationUnlocked, GoTo, EpilogueFrame
<1>3. ASSUME NEW t \in Transfers,
             \/ InitialChecks(t) \/ CreateFile(t) \/ ScheduleChunk(t) \/ EnterEpilogue(t)
             \/ Flush(t) \/ FlushReturns(t) \/ CloseFile(t) \/ CheckMd5(t) \/ CheckLength(t)
             \/ Rename(t) \/ Complete(t) \/ Succeed(t) \/ Report(t)
      PROVE  LockType'
  <2>1. UNCHANGED <<lockHeld, lockedDestinations>>
    BY <1>3 DEF InitialChecks, EndsEarly, SetStatus, GoTo, CreateFile, WorkerGoesTo, ScheduleChunk,
         Reserve, LimitFor, MoveChunk, EnterEpilogue, EpilogueFrame, Flush, CloseChannel,
         FlushReturns, WriterDone, CloseFile, ReleaseCapacity, FailActive, CheckMd5,
         VerifyFrame, CheckLength, Rename, Complete, IsDeadInflight, Succeed, Report,
         ReportTransferDone, SubtractBytes, jptmVars, lockVars, byteVars, writerVars,
         channelVars, orderVars, capacityVars
  <2> QED BY <2>1
<1>4. ASSUME NEW t \in Transfers,
             \/ ReceiveChunk(t) \/ ChannelIsClosed(t) \/ WorkerIsCancelled(t)
             \/ ProcessAvailableChunk(t) \/ SaveOneChunk(t) \/ WorkerExits(t),
             UNCHANGED <<jptmVars, xpc, nextChunk, chunk, openFiles, final>>
      PROVE  LockType'
  <2>1. UNCHANGED <<lockHeld, lockedDestinations>>
    BY <1>4 DEF ReceiveChunk, WorkerGoesTo, ChannelIsClosed, WorkerIsCancelled,
         ProcessAvailableChunk, SaveOneChunk, Release, WorkerExits, jptmVars, lockVars,
         byteVars, writerVars, channelVars, orderVars, capacityVars
  <2> QED BY <2>1
<1>5. ASSUME NEW c \in AllChunks,
             \/ StartChunk(c) \/ RequestFails(c) \/ ReadBody(c) \/ EnqueueChunk(c)
             \/ ReportChunkBytes(c) \/ ReportChunkDone(c)
      PROVE  LockType'
  <2>1. UNCHANGED <<lockHeld, lockedDestinations>>
    BY <1>5 DEF StartChunk, MoveChunk, ChunkFrame, RequestFails, FailActive, SetStatus, ReadBody,
         Release, EnqueueChunk, ChannelHasRoom, Enqueue, WriterDone, ReportChunkBytes,
         AddChunkBytes, ReportChunkDone, CountChunk, IsLastChunk, GoTo, jptmVars, lockVars,
         byteVars, writerVars, channelVars, orderVars, capacityVars
  <2> QED BY <2>1
<1>6. CASE CancelJob
  BY <1>6 DEF CancelJob, CancelContexts, EpilogueFrame
<1> QED BY <1>1, <1>2, <1>3, <1>4, <1>5, <1>6 DEF Next, TransferStep, ChunkStep, WriterStep,
           WorkerStep

(* ...of the counters... *)
LEMMA CountTypeStep ==
    ASSUME CountType, Next
    PROVE  CountType'
<1> USE ChunkShape DEF CountType, jptmVars, lockVars, byteVars, writerVars, channelVars,
        orderVars, capacityVars
<1>1. ASSUME NEW t \in Transfers, Report(t) PROVE CountType'
  BY <1>1 DEF Report, ReportTransferDone, SubtractBytes, GoTo
<1>2. ASSUME NEW t \in Transfers,
             \/ InitialChecks(t) \/ WaitUntilLockDestination(t) \/ CreateFile(t)
             \/ ScheduleChunk(t) \/ EnterEpilogue(t) \/ Flush(t) \/ FlushReturns(t)
             \/ CloseFile(t) \/ CheckMd5(t) \/ CheckLength(t) \/ Rename(t) \/ Complete(t)
             \/ Succeed(t) \/ Unlock(t)
      PROVE  CountType'
  <2>1. UNCHANGED <<chunksDone, successfulBytes, timesReported, bytesInActiveFiles>>
    BY <1>2 DEF InitialChecks, EndsEarly, SetStatus, GoTo, WaitUntilLockDestination,
         LockDestination, CreateFile, WorkerGoesTo, ScheduleChunk, Reserve, LimitFor, MoveChunk,
         EnterEpilogue, EpilogueFrame, Flush, CloseChannel, FlushReturns, WriterDone, CloseFile,
         ReleaseCapacity, FailActive, CheckMd5, VerifyFrame, CheckLength, Rename, Complete,
         IsDeadInflight, Succeed, Unlock, EnsureDestinationUnlocked, jptmVars, lockVars,
         byteVars, writerVars, channelVars, orderVars, capacityVars
  <2> QED BY <2>1
<1>3. ASSUME NEW t \in Transfers,
             \/ ReceiveChunk(t) \/ ChannelIsClosed(t) \/ WorkerIsCancelled(t)
             \/ ProcessAvailableChunk(t) \/ SaveOneChunk(t) \/ WorkerExits(t),
             UNCHANGED <<jptmVars, xpc, nextChunk, chunk, openFiles, final>>
      PROVE  CountType'
  <2>1. UNCHANGED <<chunksDone, successfulBytes, timesReported, bytesInActiveFiles>>
    BY <1>3 DEF ReceiveChunk, WorkerGoesTo, ChannelIsClosed, WorkerIsCancelled,
         ProcessAvailableChunk, SaveOneChunk, Release, WorkerExits, jptmVars, lockVars,
         byteVars, writerVars, channelVars, orderVars, capacityVars
  <2> QED BY <2>1
<1>4. ASSUME NEW c \in AllChunks, ReportChunkBytes(c) PROVE CountType'
  BY <1>4 DEF ReportChunkBytes, AddChunkBytes, MoveChunk
<1>5. ASSUME NEW c \in AllChunks, ReportChunkDone(c) PROVE CountType'
  BY <1>5 DEF ReportChunkDone, CountChunk, IsLastChunk, GoTo, MoveChunk
<1>6. ASSUME NEW c \in AllChunks,
             \/ StartChunk(c) \/ RequestFails(c) \/ ReadBody(c) \/ EnqueueChunk(c)
      PROVE  CountType'
  <2>1. UNCHANGED <<chunksDone, successfulBytes, timesReported, bytesInActiveFiles>>
    BY <1>6 DEF StartChunk, MoveChunk, ChunkFrame, RequestFails, FailActive, SetStatus, ReadBody,
         Release, EnqueueChunk, ChannelHasRoom, Enqueue, WriterDone, jptmVars, lockVars,
         byteVars, writerVars, channelVars, orderVars, capacityVars
  <2> QED BY <2>1
<1>7. CASE CancelJob
  BY <1>7 DEF CancelJob, CancelContexts, EpilogueFrame
<1> QED BY <1>1, <1>2, <1>3, <1>4, <1>5, <1>6, <1>7 DEF Next, TransferStep, ChunkStep, WriterStep,
           WorkerStep

(* ...of the places... *)
LEMMA PlaceTypeStep ==
    ASSUME PlaceType, Next
    PROVE  PlaceType'
<1> USE ChunkShape DEF PlaceType, InEpilogue, jptmVars, lockVars, byteVars, writerVars,
        channelVars, orderVars, capacityVars
<1>1. ASSUME NEW t \in Transfers, InitialChecks(t) PROVE PlaceType'
  BY <1>1 DEF InitialChecks, EndsEarly, SetStatus, GoTo
<1>2. ASSUME NEW t \in Transfers, WaitUntilLockDestination(t) PROVE PlaceType'
  BY <1>2 DEF WaitUntilLockDestination, LockDestination, SetStatus, GoTo
<1>3. ASSUME NEW t \in Transfers, CreateFile(t) PROVE PlaceType'
  BY <1>3 DEF CreateFile, WorkerGoesTo, SetStatus, GoTo
<1>4. ASSUME NEW t \in Transfers, ScheduleChunk(t) PROVE PlaceType'
  <2>1. /\ xpc' \in [Transfers -> {"start", "lock", "create", "schedule", "chunks", "done",
                                   "panicked"} \cup InEpilogue]
        /\ nextChunk' \in [Transfers -> Nat] /\ wpc' = wpc
    BY <1>4 DEF ScheduleChunk, GoTo
  <2>2. chunk' \in [AllChunks -> {"unscheduled", "queued", "downloading", "enqueue",
                                  "reportBytes", "count", "done"}]
    BY <1>4 DEF ScheduleChunk, MoveChunk
  <2> QED BY <2>1, <2>2
<1>5. ASSUME NEW t \in Transfers, EnterEpilogue(t) PROVE PlaceType'
  BY <1>5 DEF EnterEpilogue, SetStatus, GoTo, EpilogueFrame
<1>6. ASSUME NEW t \in Transfers, Flush(t) PROVE PlaceType'
  BY <1>6 DEF Flush, CloseChannel, GoTo, EpilogueFrame
<1>7. ASSUME NEW t \in Transfers, FlushReturns(t) PROVE PlaceType'
  BY <1>7 DEF FlushReturns, WorkerGoesTo, WriterDone, GoTo, EpilogueFrame
<1>8. ASSUME NEW t \in Transfers, CloseFile(t) PROVE PlaceType'
  BY <1>8 DEF CloseFile, ReleaseCapacity, FailActive, SetStatus, GoTo, EpilogueFrame
<1>9. ASSUME NEW t \in Transfers, CheckMd5(t) PROVE PlaceType'
  BY <1>9 DEF CheckMd5, FailActive, SetStatus, GoTo, VerifyFrame, EpilogueFrame
<1>10. ASSUME NEW t \in Transfers, CheckLength(t) PROVE PlaceType'
  BY <1>10 DEF CheckLength, FailActive, SetStatus, GoTo, VerifyFrame, EpilogueFrame
<1>11. ASSUME NEW t \in Transfers, Rename(t) PROVE PlaceType'
  BY <1>11 DEF Rename, FailActive, SetStatus, GoTo, VerifyFrame, EpilogueFrame
<1>12. ASSUME NEW t \in Transfers, Complete(t) PROVE PlaceType'
  BY <1>12 DEF Complete, IsDeadInflight, GoTo, VerifyFrame, EpilogueFrame
<1>13. ASSUME NEW t \in Transfers, Succeed(t) PROVE PlaceType'
  BY <1>13 DEF Succeed, SetStatus, GoTo, VerifyFrame, EpilogueFrame
<1>14. ASSUME NEW t \in Transfers, Unlock(t) PROVE PlaceType'
  BY <1>14 DEF Unlock, EnsureDestinationUnlocked, GoTo, EpilogueFrame
<1>15. ASSUME NEW t \in Transfers, Report(t) PROVE PlaceType'
  BY <1>15 DEF Report, ReportTransferDone, SubtractBytes, GoTo
<1>16. ASSUME NEW t \in Transfers, ReceiveChunk(t),
             UNCHANGED <<jptmVars, xpc, nextChunk, chunk, openFiles, final>>
      PROVE  PlaceType'
  BY <1>16 DEF ReceiveChunk, WorkerGoesTo
<1>17. ASSUME NEW t \in Transfers, ChannelIsClosed(t),
             UNCHANGED <<jptmVars, xpc, nextChunk, chunk, openFiles, final>>
      PROVE  PlaceType'
  BY <1>17 DEF ChannelIsClosed, WorkerGoesTo
<1>18. ASSUME NEW t \in Transfers, WorkerIsCancelled(t),
             UNCHANGED <<jptmVars, xpc, nextChunk, chunk, openFiles, final>>
      PROVE  PlaceType'
  BY <1>18 DEF WorkerIsCancelled, WorkerGoesTo
<1>19. ASSUME NEW t \in Transfers, ProcessAvailableChunk(t),
             UNCHANGED <<jptmVars, xpc, nextChunk, chunk, openFiles, final>>
      PROVE  PlaceType'
  BY <1>19 DEF ProcessAvailableChunk, WorkerGoesTo
<1>20. ASSUME NEW t \in Transfers, SaveOneChunk(t),
             UNCHANGED <<jptmVars, xpc, nextChunk, chunk, openFiles, final>>
      PROVE  PlaceType'
  BY <1>20 DEF SaveOneChunk, WorkerGoesTo, Release
<1>21. ASSUME NEW t \in Transfers, WorkerExits(t),
             UNCHANGED <<jptmVars, xpc, nextChunk, chunk, openFiles, final>>
      PROVE  PlaceType'
  BY <1>21 DEF WorkerExits, WorkerGoesTo, Release
<1>22. ASSUME NEW c \in AllChunks, StartChunk(c) PROVE PlaceType'
  BY <1>22 DEF StartChunk, MoveChunk, ChunkFrame
<1>23. ASSUME NEW c \in AllChunks, RequestFails(c) PROVE PlaceType'
  BY <1>23 DEF RequestFails, FailActive, SetStatus, MoveChunk, ChunkFrame
<1>24. ASSUME NEW c \in AllChunks, ReadBody(c) PROVE PlaceType'
  BY <1>24 DEF ReadBody, Release, FailActive, SetStatus, MoveChunk, ChunkFrame
<1>25. ASSUME NEW c \in AllChunks, EnqueueChunk(c) PROVE PlaceType'
  BY <1>25 DEF EnqueueChunk, ChannelHasRoom, Enqueue, WriterDone, Release, FailActive, SetStatus,
         MoveChunk, ChunkFrame
<1>26. ASSUME NEW c \in AllChunks, ReportChunkBytes(c) PROVE PlaceType'
  BY <1>26 DEF ReportChunkBytes, AddChunkBytes, MoveChunk
<1>27. ASSUME NEW c \in AllChunks, ReportChunkDone(c) PROVE PlaceType'
  <2>1. /\ xpc' \in [Transfers -> {"start", "lock", "create", "schedule", "chunks", "done",
                                   "panicked"} \cup InEpilogue]
        /\ nextChunk' = nextChunk /\ wpc' = wpc
    BY <1>27 DEF ReportChunkDone, GoTo
  <2>2. chunk' \in [AllChunks -> {"unscheduled", "queued", "downloading", "enqueue",
                                  "reportBytes", "count", "done"}]
    BY <1>27 DEF ReportChunkDone, MoveChunk
  <2> QED BY <2>1, <2>2
<1>28. CASE CancelJob
  BY <1>28 DEF CancelJob, CancelContexts, EpilogueFrame
<1> QED BY <1>1, <1>2, <1>3, <1>4, <1>5, <1>6, <1>7, <1>8, <1>9, <1>10, <1>11, <1>12, <1>13,
           <1>14, <1>15, <1>16, <1>17, <1>18, <1>19, <1>20, <1>21, <1>22, <1>23, <1>24, <1>25,
           <1>26, <1>27, <1>28 DEF Next, TransferStep, ChunkStep, WriterStep, WorkerStep

(* ...of the writers' channels and maps... *)
LEMMA QueueTypeStep ==
    ASSUME QueueType, Next
    PROVE  QueueType'
<1> USE DEF QueueType, jptmVars, lockVars, byteVars, writerVars, channelVars, orderVars,
        capacityVars
<1>1. ASSUME NEW t \in Transfers, Flush(t) PROVE QueueType'
  BY <1>1 DEF Flush, CloseChannel, GoTo, EpilogueFrame
<1>2. ASSUME NEW t \in Transfers,
             \/ InitialChecks(t) \/ WaitUntilLockDestination(t) \/ CreateFile(t)
             \/ ScheduleChunk(t) \/ EnterEpilogue(t) \/ FlushReturns(t) \/ CloseFile(t)
             \/ CheckMd5(t) \/ CheckLength(t) \/ Rename(t) \/ Complete(t) \/ Succeed(t)
             \/ Unlock(t) \/ Report(t)
      PROVE  QueueType'
  <2>1. UNCHANGED <<queue, unsaved, closed, nextToSave>>
    BY <1>2 DEF InitialChecks, EndsEarly, SetStatus, GoTo, WaitUntilLockDestination,
         LockDestination, CreateFile, WorkerGoesTo, ScheduleChunk, Reserve, LimitFor, MoveChunk,
         EnterEpilogue, EpilogueFrame, FlushReturns, WriterDone, CloseFile, ReleaseCapacity,
         FailActive, CheckMd5, VerifyFrame, CheckLength, Rename, Complete, IsDeadInflight,
         Succeed, Unlock, EnsureDestinationUnlocked, Report, ReportTransferDone, SubtractBytes,
         jptmVars, lockVars, byteVars, writerVars, channelVars, orderVars, capacityVars
  <2> QED BY <2>1
<1>3. ASSUME NEW t \in Transfers, ReceiveChunk(t),
             UNCHANGED <<jptmVars, xpc, nextChunk, chunk, openFiles, final>>
      PROVE  QueueType'
  <2>1. /\ Tail(queue[t]) \in Seq(Chunk(t)) /\ Tail(queue[t]) \in Seq(Nat)
        /\ Head(queue[t]) \in Chunk(t) /\ Head(queue[t]) \in Nat
    BY <1>3, QueueTail DEF ReceiveChunk
  <2> QED BY <1>3, <2>1 DEF ReceiveChunk
<1>4. ASSUME NEW t \in Transfers, ProcessAvailableChunk(t),
             UNCHANGED <<jptmVars, xpc, nextChunk, chunk, openFiles, final>>
      PROVE  QueueType'
  <2>1. UNCHANGED <<queue, closed>>
    BY <1>4 DEF ProcessAvailableChunk
  <2>2. CASE UNCHANGED orderVars
    BY <2>1, <2>2
  <2>3. CASE ~UNCHANGED orderVars
    <3>1. /\ unsaved' = [unsaved EXCEPT ![t] = unsaved[t] \ {nextToSave[t]}]
          /\ nextToSave' = [nextToSave EXCEPT ![t] = nextToSave[t] + 1]
      BY <1>4, <2>3 DEF ProcessAvailableChunk
    <3> QED BY <2>1, <3>1
  <2> QED BY <2>2, <2>3
<1>5. ASSUME NEW t \in Transfers, WorkerExits(t),
             UNCHANGED <<jptmVars, xpc, nextChunk, chunk, openFiles, final>>
      PROVE  QueueType'
  BY <1>5 DEF WorkerExits, WorkerGoesTo, Release
<1>6. ASSUME NEW t \in Transfers,
             \/ ChannelIsClosed(t) \/ WorkerIsCancelled(t) \/ SaveOneChunk(t),
             UNCHANGED <<jptmVars, xpc, nextChunk, chunk, openFiles, final>>
      PROVE  QueueType'
  <2>1. UNCHANGED <<queue, unsaved, closed, nextToSave>>
    BY <1>6 DEF ChannelIsClosed, WorkerGoesTo, WorkerIsCancelled, SaveOneChunk, Release, jptmVars,
         lockVars, byteVars, writerVars, channelVars, orderVars, capacityVars
  <2> QED BY <2>1
<1>7. ASSUME NEW c \in AllChunks, EnqueueChunk(c) PROVE QueueType'
  <2>1. c[1] \in Transfers /\ c[2] \in Chunk(c[1]) /\ c[2] \in Nat
    BY ChunkShape, OwnShape
  <2>2. /\ Append(queue[c[1]], c[2]) \in Seq(Nat)
        /\ Append(queue[c[1]], c[2]) \in Seq(Chunk(c[1]))
    BY <2>1, QueueAppend
  <2>3. UNCHANGED <<unsaved, closed, nextToSave>>
    BY <1>7 DEF EnqueueChunk
  <2>4. queue' = queue \/ queue' = [queue EXCEPT ![c[1]] = Append(queue[c[1]], c[2])]
    BY <1>7 DEF EnqueueChunk, Enqueue
  <2> QED BY <2>1, <2>2, <2>3, <2>4
<1>8. ASSUME NEW c \in AllChunks,
             \/ StartChunk(c) \/ RequestFails(c) \/ ReadBody(c) \/ ReportChunkBytes(c)
             \/ ReportChunkDone(c)
      PROVE  QueueType'
  <2>1. UNCHANGED <<queue, unsaved, closed, nextToSave>>
    BY <1>8 DEF StartChunk, MoveChunk, ChunkFrame, RequestFails, FailActive, SetStatus, ReadBody,
         Release, ReportChunkBytes, AddChunkBytes, ReportChunkDone, CountChunk, IsLastChunk,
         GoTo, jptmVars, lockVars, byteVars, writerVars, channelVars, orderVars, capacityVars
  <2> QED BY <2>1
<1>9. CASE CancelJob
  BY <1>9 DEF CancelJob, CancelContexts, EpilogueFrame
<1> QED BY <1>1, <1>2, <1>3, <1>4, <1>5, <1>6, <1>7, <1>8, <1>9 DEF Next, TransferStep, ChunkStep,
           WriterStep, WorkerStep

(* ...of the RAM... *)
LEMMA RamTypeStep ==
    ASSUME RamType, QueueType, Next
    PROVE  RamType'
<1> USE ChunkShape DEF RamType, jptmVars, lockVars, byteVars, writerVars, channelVars, orderVars,
        capacityVars
<1>1. ASSUME NEW t \in Transfers, ScheduleChunk(t) PROVE RamType'
  BY <1>1 DEF ScheduleChunk, Reserve, LimitFor, MoveChunk, GoTo
<1>2. ASSUME NEW t \in Transfers, CloseFile(t) PROVE RamType'
  BY <1>2 DEF CloseFile, ReleaseCapacity, FailActive, SetStatus, GoTo, EpilogueFrame
<1>3. ASSUME NEW t \in Transfers,
             \/ InitialChecks(t) \/ WaitUntilLockDestination(t) \/ CreateFile(t)
             \/ EnterEpilogue(t) \/ Flush(t) \/ FlushReturns(t) \/ CheckMd5(t)
             \/ CheckLength(t) \/ Rename(t) \/ Complete(t) \/ Succeed(t) \/ Unlock(t)
             \/ Report(t)
      PROVE  RamType'
  <2>1. UNCHANGED <<reserved, ram>>
    BY <1>3 DEF InitialChecks, EndsEarly, SetStatus, GoTo, WaitUntilLockDestination,
         LockDestination, CreateFile, WorkerGoesTo, EnterEpilogue, EpilogueFrame, Flush,
         CloseChannel, FlushReturns, WriterDone, CheckMd5, FailActive, VerifyFrame, CheckLength,
         Rename, Complete, IsDeadInflight, Succeed, Unlock, EnsureDestinationUnlocked, Report,
         ReportTransferDone, SubtractBytes, jptmVars, lockVars, byteVars, writerVars,
         channelVars, orderVars, capacityVars
  <2> QED BY <2>1
<1>4. ASSUME NEW t \in Transfers, SaveOneChunk(t),
             UNCHANGED <<jptmVars, xpc, nextChunk, chunk, openFiles, final>>
      PROVE  RamType'
  BY <1>4 DEF SaveOneChunk, WorkerGoesTo, Release
<1>5. ASSUME NEW t \in Transfers, WorkerExits(t),
             UNCHANGED <<jptmVars, xpc, nextChunk, chunk, openFiles, final>>
      PROVE  RamType'
  <2>1. Cardinality(unsaved[t]) \in Int
    <3>1. unsaved[t] \subseteq Chunk(t) /\ IsFiniteSet(Chunk(t))
      BY OwnShape DEF QueueType
    <3>2. IsFiniteSet(unsaved[t])
      BY <3>1, FS_Subset
    <3> QED BY <3>2, FS_CardinalityType
  <2> QED BY <1>5, <2>1 DEF WorkerExits, Release
<1>6. ASSUME NEW t \in Transfers,
             \/ ReceiveChunk(t) \/ ChannelIsClosed(t) \/ WorkerIsCancelled(t)
             \/ ProcessAvailableChunk(t),
             UNCHANGED <<jptmVars, xpc, nextChunk, chunk, openFiles, final>>
      PROVE  RamType'
  <2>1. UNCHANGED <<reserved, ram>>
    BY <1>6 DEF ReceiveChunk, WorkerGoesTo, ChannelIsClosed, WorkerIsCancelled,
         ProcessAvailableChunk, jptmVars, lockVars, byteVars, writerVars, channelVars,
         orderVars, capacityVars
  <2> QED BY <2>1
<1>7. ASSUME NEW c \in AllChunks, ReadBody(c) PROVE RamType'
  BY <1>7 DEF ReadBody, Release, FailActive, SetStatus, MoveChunk, ChunkFrame
<1>8. ASSUME NEW c \in AllChunks, EnqueueChunk(c) PROVE RamType'
  BY <1>8 DEF EnqueueChunk, ChannelHasRoom, Enqueue, WriterDone, Release, FailActive, SetStatus,
         MoveChunk, ChunkFrame
<1>9. ASSUME NEW c \in AllChunks,
             \/ StartChunk(c) \/ RequestFails(c) \/ ReportChunkBytes(c) \/ ReportChunkDone(c)
      PROVE  RamType'
  <2>1. UNCHANGED <<reserved, ram>>
    BY <1>9 DEF StartChunk, MoveChunk, ChunkFrame, RequestFails, FailActive, SetStatus,
         ReportChunkBytes, AddChunkBytes, ReportChunkDone, CountChunk, IsLastChunk, GoTo,
         jptmVars, lockVars, byteVars, writerVars, channelVars, orderVars, capacityVars
  <2> QED BY <2>1
<1>10. CASE CancelJob
  BY <1>10 DEF CancelJob, CancelContexts, EpilogueFrame
<1> QED BY <1>1, <1>2, <1>3, <1>4, <1>5, <1>6, <1>7, <1>8, <1>9, <1>10 DEF Next, TransferStep,
           ChunkStep, WriterStep, WorkerStep

(* ...and of the files. *)
LEMMA FileTypeStep ==
    ASSUME FileType, QueueType, \A u \in Transfers : QueueOf(u), Next
    PROVE  FileType'
<1> USE TransferAssumption DEF FileType, jptmVars, lockVars, byteVars, writerVars, channelVars,
        orderVars, capacityVars
<1>1. ASSUME NEW t \in Transfers, CreateFile(t) PROVE FileType'
  <2>1. <<>> \in Seq(AllChunks)
    OBVIOUS
  <2>2. final' = final /\ (temp' = temp \/ temp' = [temp EXCEPT ![Destination[t]] = <<>>])
    BY <1>1 DEF CreateFile
  <2>3. CASE temp' = [temp EXCEPT ![Destination[t]] = <<>>]
    BY <2>1, <2>2, <2>3
  <2>4. CASE temp' = temp
    BY <2>2, <2>4
  <2> QED BY <2>2, <2>3, <2>4
<1>2. ASSUME NEW t \in Transfers, Rename(t) PROVE FileType'
  BY <1>2 DEF Rename, FailActive, SetStatus, GoTo, VerifyFrame, EpilogueFrame
<1>3. ASSUME NEW t \in Transfers, Complete(t) PROVE FileType'
  BY <1>3 DEF Complete, IsDeadInflight, GoTo, VerifyFrame, EpilogueFrame
<1>4. ASSUME NEW t \in Transfers,
             \/ InitialChecks(t) \/ WaitUntilLockDestination(t) \/ ScheduleChunk(t)
             \/ EnterEpilogue(t) \/ Flush(t) \/ FlushReturns(t) \/ CloseFile(t) \/ CheckMd5(t)
             \/ CheckLength(t) \/ Succeed(t) \/ Unlock(t) \/ Report(t)
      PROVE  FileType'
  <2>1. UNCHANGED <<temp, final>>
    BY <1>4 DEF InitialChecks, EndsEarly, SetStatus, GoTo, WaitUntilLockDestination,
         LockDestination, ScheduleChunk, Reserve, LimitFor, MoveChunk, EnterEpilogue,
         EpilogueFrame, Flush, CloseChannel, FlushReturns, WorkerGoesTo, WriterDone, CloseFile,
         ReleaseCapacity, FailActive, CheckMd5, VerifyFrame, CheckLength, Succeed, Unlock,
         EnsureDestinationUnlocked, Report, ReportTransferDone, SubtractBytes, jptmVars,
         lockVars, byteVars, writerVars, channelVars, orderVars, capacityVars
  <2> QED BY <2>1
<1>5. ASSUME NEW t \in Transfers, SaveOneChunk(t),
             UNCHANGED <<jptmVars, xpc, nextChunk, chunk, openFiles, final>>
      PROVE  FileType'
  <2> DEFINE c == <<t, nextToSave[t] - 1>>
  <2>1. nextToSave[t] - 1 \in Chunk(t)
    BY <1>5, OwnShape DEF SaveOneChunk, QueueOf, QueueType
  <2>2. c \in AllChunks
    BY <2>1, OwnShape DEF Own
  <2>3. \A file \in Seq(AllChunks) : Append(file, c) \in Seq(AllChunks)
    BY <2>2
  <2>4. final' = final /\ DOMAIN temp' = Destinations
    BY <1>5 DEF SaveOneChunk
  <2>5. ASSUME NEW d \in Destinations PROVE temp'[d] \in Seq(AllChunks) \cup {NoFile}
    <3>1. temp'[d] = temp[d] \/ (temp[d] # NoFile /\ temp'[d] = Append(temp[d], c))
      BY <1>5 DEF SaveOneChunk
    <3> QED BY <2>3, <3>1
  <2>6. temp' \in [Destinations -> Seq(AllChunks) \cup {NoFile}]
    <3>1. temp' = [d \in Destinations |-> temp'[d]]
      BY <1>5 DEF SaveOneChunk
    <3> QED BY <2>5, <3>1
  <2> QED BY <2>4, <2>6
<1>6. ASSUME NEW t \in Transfers,
             \/ ReceiveChunk(t) \/ ChannelIsClosed(t) \/ WorkerIsCancelled(t)
             \/ ProcessAvailableChunk(t) \/ WorkerExits(t),
             UNCHANGED <<jptmVars, xpc, nextChunk, chunk, openFiles, final>>
      PROVE  FileType'
  <2>1. UNCHANGED <<temp, final>>
    BY <1>6 DEF ReceiveChunk, WorkerGoesTo, ChannelIsClosed, WorkerIsCancelled,
         ProcessAvailableChunk, WorkerExits, Release, jptmVars, lockVars, byteVars, writerVars,
         channelVars, orderVars, capacityVars
  <2> QED BY <2>1
<1>7. ASSUME NEW c \in AllChunks,
             \/ StartChunk(c) \/ RequestFails(c) \/ ReadBody(c) \/ EnqueueChunk(c)
             \/ ReportChunkBytes(c) \/ ReportChunkDone(c)
      PROVE  FileType'
  <2>1. UNCHANGED <<temp, final>>
    BY <1>7 DEF StartChunk, MoveChunk, ChunkFrame, RequestFails, FailActive, SetStatus, ReadBody,
         Release, EnqueueChunk, ChannelHasRoom, Enqueue, WriterDone, ReportChunkBytes,
         AddChunkBytes, ReportChunkDone, CountChunk, IsLastChunk, GoTo, jptmVars, lockVars,
         byteVars, writerVars, channelVars, orderVars, capacityVars
  <2> QED BY <2>1
<1>8. CASE CancelJob
  BY <1>8 DEF CancelJob, CancelContexts, EpilogueFrame
<1> QED BY <1>1, <1>2, <1>3, <1>4, <1>5, <1>6, <1>7, <1>8 DEF Next, TransferStep, ChunkStep,
           WriterStep, WorkerStep

(* Every step keeps all the types. *)
LEMMA TypeStep ==
    ASSUME Types, \A u \in Transfers : QueueOf(u), Next
    PROVE  Types'
BY StatusTypeStep, LockTypeStep, CountTypeStep, PlaceTypeStep, QueueTypeStep, RamTypeStep,
   FileTypeStep DEF Types

-----------------------------------------------------------------------------
(* The places of the transfers, their chunks and their writers.            *)

(* When all chunks but one are counted as done, it is the others that are. *)
LEMMA LastChunk ==
    ASSUME NEW t \in Transfers, NEW c \in Own(t), chunk[c] # "done", CountOf(t), IsLastChunk(t)
    PROVE  \A d \in Own(t) \ {c} : chunk[d] = "done"
<1>1. IsFiniteSet(DoneOf(t)) /\ c \notin DoneOf(t) /\ DoneOf(t) \cup {c} \subseteq Own(t)
  <2>1. DoneOf(t) \subseteq Own(t) /\ c \notin DoneOf(t)
    BY DEF DoneOf
  <2>2. IsFiniteSet(Own(t))
    BY OwnShape
  <2> QED BY <2>1, <2>2, FS_Subset
<1>2. Cardinality(DoneOf(t) \cup {c}) = Cardinality(DoneOf(t)) + 1
  BY <1>1, FS_AddElement
<1>3. Cardinality(DoneOf(t) \cup {c}) = Cardinality(Own(t)) /\ IsFiniteSet(Own(t))
  BY <1>2, OwnShape DEF CountOf, IsLastChunk
<1>4. DoneOf(t) \cup {c} = Own(t)
  BY <1>1, <1>3, FS_Subset
<1> QED BY <1>4 DEF DoneOf

(* What is the same for the chunks of every transfer. *)
LEMMA Chunks ==
    /\ \A u \in Transfers : NumChunks[u] \in Nat \ {0}
    /\ \A c \in AllChunks : /\ c[1] \in Transfers /\ c[2] \in Nat /\ c[2] < NumChunks[c[1]]
                            /\ c \in Own(c[1])
    /\ \A u \in Transfers : \A c \in Own(u) : c \in AllChunks /\ c[1] = u
    /\ \A u \in Transfers : \A i \in Nat : i < NumChunks[u] => <<u, i>> \in Own(u)
<1>1. \A u \in Transfers : NumChunks[u] \in Nat \ {0} /\ \A i \in Nat :
          i < NumChunks[u] => <<u, i>> \in Own(u)
  BY OwnShape
<1>2. \A c \in AllChunks : /\ c[1] \in Transfers /\ c[2] \in Nat /\ c[2] < NumChunks[c[1]]
                           /\ c \in Own(c[1])
  BY ChunkShape, OwnShape
<1> QED BY <1>1, <1>2 DEF Own

(* Every step keeps the places.                                            *)
LEMMA PlaceStep ==
    ASSUME PlaceType, NEW u \in Transfers, PlaceOf(u), CountOf(u), SettledOf(u), Next
    PROVE  PlaceOf(u)'
<1> USE Chunks DEF PlaceType, PlaceOf, InEpilogue, WithLock, Working, AfterFlush, jptmVars,
        lockVars, byteVars, writerVars, channelVars, orderVars, capacityVars
<1>1. ASSUME NEW t \in Transfers, InitialChecks(t) PROVE PlaceOf(u)'
  BY <1>1 DEF InitialChecks, EndsEarly, SetStatus, GoTo
<1>2. ASSUME NEW t \in Transfers, WaitUntilLockDestination(t) PROVE PlaceOf(u)'
  BY <1>2 DEF WaitUntilLockDestination, LockDestination, SetStatus, GoTo
<1>3. ASSUME NEW t \in Transfers, CreateFile(t) PROVE PlaceOf(u)'
  BY <1>3 DEF CreateFile, WorkerGoesTo, SetStatus, GoTo
<1>4. ASSUME NEW t \in Transfers, ScheduleChunk(t) PROVE PlaceOf(u)'
  <2>1. CASE t # u
    <3>1. xpc'[u] = xpc[u] /\ nextChunk'[u] = nextChunk[u] /\ Own(u)' = Own(u)
      BY <1>4, <2>1 DEF ScheduleChunk, GoTo, Own
    <3>2. \A c \in Own(u) : chunk'[c] = chunk[c]
      BY <1>4, <2>1 DEF ScheduleChunk, MoveChunk
    <3> QED BY <1>4, <3>1, <3>2 DEF ScheduleChunk
  <2>2. CASE t = u
    <3>1. /\ nextChunk'[u] = nextChunk[u] + 1 /\ Own(u)' = Own(u)
          /\ xpc'[u] = IF nextChunk[u] + 1 = NumChunks[u] THEN "chunks" ELSE "schedule"
      BY <1>4, <2>2 DEF ScheduleChunk, GoTo, Own
    <3>2. \A c \in Own(u) : chunk'[c] = IF c[2] = nextChunk[u] THEN "queued" ELSE chunk[c]
      <4>1. \A c \in Own(u) : c \in AllChunks /\ c = <<u, c[2]>>
        BY OwnShape
      <4>2. chunk' = [chunk EXCEPT ![<<u, nextChunk[u]>>] = "queued"]
        BY <1>4, <2>2 DEF ScheduleChunk, MoveChunk
      <4> QED BY <4>1, <4>2
    <3>3. xpc[u] = "schedule" /\ wpc'[u] = wpc[u] /\ closed'[u] = closed[u]
      BY <1>4, <2>2 DEF ScheduleChunk
    <3>4. \A c \in Own(u) : chunk'[c] = "unscheduled" <=> c[2] >= nextChunk'[u]
      BY <3>1, <3>2
    <3> QED BY <3>1, <3>3, <3>4
  <2> QED BY <2>1, <2>2
<1>5. ASSUME NEW t \in Transfers, EnterEpilogue(t) PROVE PlaceOf(u)'
  BY <1>5 DEF EnterEpilogue, SetStatus, GoTo, EpilogueFrame
<1>6. ASSUME NEW t \in Transfers, Flush(t) PROVE PlaceOf(u)'
  BY <1>6 DEF Flush, CloseChannel, GoTo, EpilogueFrame
<1>7. ASSUME NEW t \in Transfers, FlushReturns(t) PROVE PlaceOf(u)'
  BY <1>7 DEF FlushReturns, WorkerGoesTo, WriterDone, GoTo, EpilogueFrame
<1>8. ASSUME NEW t \in Transfers, CloseFile(t) PROVE PlaceOf(u)'
  BY <1>8 DEF CloseFile, ReleaseCapacity, FailActive, SetStatus, GoTo, EpilogueFrame
<1>9. ASSUME NEW t \in Transfers, CheckMd5(t) PROVE PlaceOf(u)'
  BY <1>9 DEF CheckMd5, FailActive, SetStatus, GoTo, VerifyFrame, EpilogueFrame
<1>10. ASSUME NEW t \in Transfers, CheckLength(t) PROVE PlaceOf(u)'
  BY <1>10 DEF CheckLength, FailActive, SetStatus, GoTo, VerifyFrame, EpilogueFrame
<1>11. ASSUME NEW t \in Transfers, Rename(t) PROVE PlaceOf(u)'
  BY <1>11 DEF Rename, FailActive, SetStatus, GoTo, VerifyFrame, EpilogueFrame
<1>12. ASSUME NEW t \in Transfers, Complete(t) PROVE PlaceOf(u)'
  <2>1. t = u /\ wpc[u] = "none" => xpc'[u] # "succeed"
    BY <1>12 DEF Complete, GoTo, SettledOf
  <2> QED BY <1>12, <2>1 DEF Complete, GoTo, VerifyFrame, EpilogueFrame
<1>13. ASSUME NEW t \in Transfers, Succeed(t) PROVE PlaceOf(u)'
  BY <1>13 DEF Succeed, SetStatus, GoTo, VerifyFrame, EpilogueFrame
<1>14. ASSUME NEW t \in Transfers, Unlock(t) PROVE PlaceOf(u)'
  BY <1>14 DEF Unlock, EnsureDestinationUnlocked, GoTo, EpilogueFrame
<1>15. ASSUME NEW t \in Transfers, Report(t) PROVE PlaceOf(u)'
  BY <1>15 DEF Report, ReportTransferDone, SubtractBytes, GoTo
<1>16. ASSUME NEW t \in Transfers, ReceiveChunk(t),
             UNCHANGED <<jptmVars, xpc, nextChunk, chunk, openFiles, final>>
      PROVE  PlaceOf(u)'
  BY <1>16 DEF ReceiveChunk, WorkerGoesTo
<1>17. ASSUME NEW t \in Transfers, ChannelIsClosed(t),
             UNCHANGED <<jptmVars, xpc, nextChunk, chunk, openFiles, final>>
      PROVE  PlaceOf(u)'
  BY <1>17 DEF ChannelIsClosed, WorkerGoesTo
<1>18. ASSUME NEW t \in Transfers, WorkerIsCancelled(t),
             UNCHANGED <<jptmVars, xpc, nextChunk, chunk, openFiles, final>>
      PROVE  PlaceOf(u)'
  BY <1>18 DEF WorkerIsCancelled, WorkerGoesTo
<1>19. ASSUME NEW t \in Transfers, ProcessAvailableChunk(t),
             UNCHANGED <<jptmVars, xpc, nextChunk, chunk, openFiles, final>>
      PROVE  PlaceOf(u)'
  BY <1>19 DEF ProcessAvailableChunk, WorkerGoesTo
<1>20. ASSUME NEW t \in Transfers, SaveOneChunk(t),
             UNCHANGED <<jptmVars, xpc, nextChunk, chunk, openFiles, final>>
      PROVE  PlaceOf(u)'
  BY <1>20 DEF SaveOneChunk, WorkerGoesTo, Release
<1>21. ASSUME NEW t \in Transfers, WorkerExits(t),
             UNCHANGED <<jptmVars, xpc, nextChunk, chunk, openFiles, final>>
      PROVE  PlaceOf(u)'
  BY <1>21 DEF WorkerExits, WorkerGoesTo, Release
<1>22. ASSUME NEW c \in AllChunks, StartChunk(c) PROVE PlaceOf(u)'
  BY <1>22 DEF StartChunk, MoveChunk, ChunkFrame
<1>23. ASSUME NEW c \in AllChunks, RequestFails(c) PROVE PlaceOf(u)'
  BY <1>23 DEF RequestFails, FailActive, SetStatus, MoveChunk, ChunkFrame
<1>24. ASSUME NEW c \in AllChunks, ReadBody(c) PROVE PlaceOf(u)'
  BY <1>24 DEF ReadBody, Release, FailActive, SetStatus, MoveChunk, ChunkFrame
<1>25. ASSUME NEW c \in AllChunks, EnqueueChunk(c) PROVE PlaceOf(u)'
  BY <1>25 DEF EnqueueChunk, ChannelHasRoom, Enqueue, WriterDone, Release, FailActive, SetStatus,
         MoveChunk, ChunkFrame
<1>26. ASSUME NEW c \in AllChunks, ReportChunkBytes(c) PROVE PlaceOf(u)'
  BY <1>26 DEF ReportChunkBytes, AddChunkBytes, MoveChunk
<1>27. ASSUME NEW c \in AllChunks, ReportChunkDone(c) PROVE PlaceOf(u)'
  <2>1. CASE c[1] # u
    BY <1>27, <2>1 DEF ReportChunkDone, MoveChunk, GoTo
  <2>2. CASE c[1] = u /\ ~IsLastChunk(u)
    BY <1>27, <2>2 DEF ReportChunkDone, MoveChunk
  <2>3. CASE c[1] = u /\ IsLastChunk(u)
    <3>1. \A d \in Own(u)' : chunk'[d] = "done"
      BY <1>27, <2>3, LastChunk DEF ReportChunkDone, MoveChunk, Own
    <3>2. nextChunk[u] = NumChunks[u]
      <4>1. <<u, NumChunks[u] - 1>> \in Own(u) /\ chunk'[<<u, NumChunks[u] - 1>>] = "done"
        BY <3>1 DEF Own
      <4>2. chunk[<<u, NumChunks[u] - 1>>] # "unscheduled"
        BY <1>27, <4>1 DEF ReportChunkDone, MoveChunk
      <4>3. NumChunks[u] - 1 < nextChunk[u]
        BY <4>1, <4>2
      <4> QED BY <4>3
    <3> QED BY <1>27, <2>3, <3>1, <3>2 DEF ReportChunkDone, MoveChunk, GoTo
  <2> QED BY <2>1, <2>2, <2>3
<1>28. CASE CancelJob
  BY <1>28 DEF CancelJob, CancelContexts, EpilogueFrame
<1> QED BY <1>1, <1>2, <1>3, <1>4, <1>5, <1>6, <1>7, <1>8, <1>9, <1>10, <1>11, <1>12, <1>13,
           <1>14, <1>15, <1>16, <1>17, <1>18, <1>19, <1>20, <1>21, <1>22, <1>23, <1>24, <1>25,
           <1>26, <1>27, <1>28 DEF Next, TransferStep, ChunkStep, WriterStep, WorkerStep

(* Every step keeps the counts of chunks that are done.                     *)
LEMMA CountStep ==
    ASSUME PlaceType, CountType, NEW u \in Transfers, PlaceOf(u), CountOf(u), Next
    PROVE  CountOf(u)'
<1> USE Chunks DEF CountType, PlaceType, PlaceOf, jptmVars, lockVars, byteVars, writerVars,
        channelVars, orderVars, capacityVars
<1>a. ASSUME chunksDone'[u] = chunksDone[u],
             \A d \in Own(u) : chunk'[d] = "done" <=> chunk[d] = "done"
      PROVE  CountOf(u)'
  <2>1. DoneOf(u)' = DoneOf(u)
    BY <1>a DEF DoneOf, Own
  <2> QED BY <2>1, <1>a DEF CountOf
<1>1. ASSUME NEW t \in Transfers, ScheduleChunk(t) PROVE CountOf(u)'
  BY <1>1, <1>a DEF ScheduleChunk, Reserve, LimitFor, MoveChunk, GoTo
<1>2. ASSUME NEW t \in Transfers,
             \/ InitialChecks(t) \/ WaitUntilLockDestination(t) \/ CreateFile(t)
             \/ EnterEpilogue(t) \/ Flush(t) \/ FlushReturns(t) \/ CloseFile(t) \/ CheckMd5(t)
             \/ CheckLength(t) \/ Rename(t) \/ Complete(t) \/ Succeed(t) \/ Unlock(t)
             \/ Report(t)
      PROVE  CountOf(u)'
  <2>1. UNCHANGED <<chunk, chunksDone>>
    BY <1>2 DEF InitialChecks, EndsEarly, SetStatus, GoTo, WaitUntilLockDestination,
         LockDestination, CreateFile, WorkerGoesTo, EnterEpilogue, EpilogueFrame, Flush,
         CloseChannel, FlushReturns, WriterDone, CloseFile, ReleaseCapacity, FailActive,
         CheckMd5, VerifyFrame, CheckLength, Rename, Complete, IsDeadInflight, Succeed, Unlock,
         EnsureDestinationUnlocked, Report, ReportTransferDone, SubtractBytes, jptmVars,
         lockVars, byteVars, writerVars, channelVars, orderVars, capacityVars
  <2> QED BY <2>1, <1>a
<1>3. ASSUME NEW t \in Transfers,
             \/ ReceiveChunk(t) \/ ChannelIsClosed(t) \/ WorkerIsCancelled(t)
             \/ ProcessAvailableChunk(t) \/ SaveOneChunk(t) \/ WorkerExits(t),
             UNCHANGED <<jptmVars, xpc, nextChunk, chunk, openFiles, final>>
      PROVE  CountOf(u)'
  <2>1. UNCHANGED <<chunk, chunksDone>>
    BY <1>3 DEF ReceiveChunk, WorkerGoesTo, ChannelIsClosed, WorkerIsCancelled,
         ProcessAvailableChunk, SaveOneChunk, Release, WorkerExits, jptmVars, lockVars,
         byteVars, writerVars, channelVars, orderVars, capacityVars
  <2> QED BY <2>1, <1>a
<1>4. ASSUME NEW c \in AllChunks, StartChunk(c) PROVE CountOf(u)'
  BY <1>4, <1>a DEF StartChunk, MoveChunk, ChunkFrame
<1>5. ASSUME NEW c \in AllChunks, RequestFails(c) PROVE CountOf(u)'
  BY <1>5, <1>a DEF RequestFails, FailActive, SetStatus, MoveChunk, ChunkFrame
<1>6. ASSUME NEW c \in AllChunks, ReadBody(c) PROVE CountOf(u)'
  BY <1>6, <1>a DEF ReadBody, Release, FailActive, SetStatus, MoveChunk, ChunkFrame
<1>7. ASSUME NEW c \in AllChunks, EnqueueChunk(c) PROVE CountOf(u)'
  BY <1>7, <1>a DEF EnqueueChunk, ChannelHasRoom, Enqueue, WriterDone, Release, FailActive,
         SetStatus, MoveChunk, ChunkFrame
<1>8. ASSUME NEW c \in AllChunks, ReportChunkBytes(c) PROVE CountOf(u)'
  BY <1>8, <1>a DEF ReportChunkBytes, AddChunkBytes, MoveChunk
<1>9. ASSUME NEW c \in AllChunks, ReportChunkDone(c) PROVE CountOf(u)'
  <2>1. CASE c[1] # u
    BY <1>9, <1>a, <2>1 DEF ReportChunkDone, MoveChunk, CountChunk
  <2>2. CASE c[1] = u
    <3>1. c \notin DoneOf(u) /\ IsFiniteSet(DoneOf(u))
      <4>1. DoneOf(u) \subseteq Own(u) /\ IsFiniteSet(Own(u)) /\ c \notin DoneOf(u)
        BY <1>9, OwnShape DEF DoneOf, ReportChunkDone
      <4> QED BY <4>1, FS_Subset
    <3>2. DoneOf(u)' = DoneOf(u) \cup {c}
      BY <1>9, <2>2 DEF ReportChunkDone, MoveChunk, DoneOf, Own
    <3>3. Cardinality(DoneOf(u) \cup {c}) = Cardinality(DoneOf(u)) + 1
      BY <3>1, FS_AddElement
    <3>4. chunksDone'[u] = chunksDone[u] + 1
      BY <1>9, <2>2 DEF ReportChunkDone, CountChunk
    <3> QED BY <3>2, <3>3, <3>4 DEF CountOf
  <2> QED BY <2>1, <2>2
<1>10. CASE CancelJob
  BY <1>10, <1>a DEF CancelJob, CancelContexts, EpilogueFrame
<1> QED BY <1>1, <1>2, <1>3, <1>4, <1>5, <1>6, <1>7, <1>8, <1>9, <1>10 DEF Next, TransferStep,
           ChunkStep, WriterStep, WorkerStep

-----------------------------------------------------------------------------
(* Locks, and what becomes of a transfer.                                  *)

(* Every step keeps that a transfer with a writer has its lock.            *)
LEMMA LockStep ==
    ASSUME StatusType, PlaceType, LockType, NEW u \in Transfers, PlaceOf(u), LockOf(u),
           SettledOf(u), Next
    PROVE  LockOf(u)'
<1> USE Chunks DEF StatusType, LockType, PlaceType, PlaceOf, LockOf, InEpilogue, WithLock,
        AfterFlush, jptmVars, lockVars, byteVars, writerVars, channelVars, orderVars, capacityVars
<1>1. ASSUME NEW t \in Transfers, InitialChecks(t) PROVE LockOf(u)'
  BY <1>1 DEF InitialChecks, EndsEarly, SetStatus, GoTo
<1>2. ASSUME NEW t \in Transfers, WaitUntilLockDestination(t) PROVE LockOf(u)'
  BY <1>2 DEF WaitUntilLockDestination, LockDestination, SetStatus, GoTo
<1>3. ASSUME NEW t \in Transfers, CreateFile(t) PROVE LockOf(u)'
  BY <1>3 DEF CreateFile, WorkerGoesTo, SetStatus, GoTo
<1>4. ASSUME NEW t \in Transfers, ScheduleChunk(t) PROVE LockOf(u)'
  BY <1>4 DEF ScheduleChunk, Reserve, LimitFor, MoveChunk, GoTo
<1>5. ASSUME NEW t \in Transfers, EnterEpilogue(t) PROVE LockOf(u)'
  BY <1>5 DEF EnterEpilogue, SetStatus, GoTo, EpilogueFrame
<1>6. ASSUME NEW t \in Transfers, Flush(t) PROVE LockOf(u)'
  BY <1>6 DEF Flush, CloseChannel, GoTo, EpilogueFrame
<1>7. ASSUME NEW t \in Transfers, FlushReturns(t) PROVE LockOf(u)'
  BY <1>7 DEF FlushReturns, WorkerGoesTo, WriterDone, GoTo, EpilogueFrame
<1>8. ASSUME NEW t \in Transfers, CloseFile(t) PROVE LockOf(u)'
  BY <1>8 DEF CloseFile, ReleaseCapacity, FailActive, SetStatus, GoTo, EpilogueFrame
<1>9. ASSUME NEW t \in Transfers, CheckMd5(t) PROVE LockOf(u)'
  BY <1>9 DEF CheckMd5, FailActive, SetStatus, GoTo, VerifyFrame, EpilogueFrame
<1>10. ASSUME NEW t \in Transfers, CheckLength(t) PROVE LockOf(u)'
  BY <1>10 DEF CheckLength, FailActive, SetStatus, GoTo, VerifyFrame, EpilogueFrame
<1>11. ASSUME NEW t \in Transfers, Rename(t) PROVE LockOf(u)'
  BY <1>11 DEF Rename, FailActive, SetStatus, GoTo, VerifyFrame, EpilogueFrame
<1>12. ASSUME NEW t \in Transfers, Complete(t) PROVE LockOf(u)'
  BY <1>12 DEF Complete, IsDeadInflight, GoTo, VerifyFrame, EpilogueFrame, SettledOf
<1>13. ASSUME NEW t \in Transfers, Succeed(t) PROVE LockOf(u)'
  BY <1>13 DEF Succeed, SetStatus, GoTo, VerifyFrame, EpilogueFrame
<1>14. ASSUME NEW t \in Transfers, Unlock(t) PROVE LockOf(u)'
  BY <1>14 DEF Unlock, EnsureDestinationUnlocked, GoTo, EpilogueFrame
<1>15. ASSUME NEW t \in Transfers, Report(t) PROVE LockOf(u)'
  BY <1>15 DEF Report, ReportTransferDone, SubtractBytes, GoTo
<1>16. ASSUME NEW t \in Transfers, ReceiveChunk(t),
             UNCHANGED <<jptmVars, xpc, nextChunk, chunk, openFiles, final>>
      PROVE  LockOf(u)'
  BY <1>16 DEF ReceiveChunk, WorkerGoesTo
<1>17. ASSUME NEW t \in Transfers, ChannelIsClosed(t),
             UNCHANGED <<jptmVars, xpc, nextChunk, chunk, openFiles, final>>
      PROVE  LockOf(u)'
  BY <1>17 DEF ChannelIsClosed, WorkerGoesTo
<1>18. ASSUME NEW t \in Transfers, WorkerIsCancelled(t),
             UNCHANGED <<jptmVars, xpc, nextChunk, chunk, openFiles, final>>
      PROVE  LockOf(u)'
  BY <1>18 DEF WorkerIsCancelled, WorkerGoesTo
<1>19. ASSUME NEW t \in Transfers, ProcessAvailableChunk(t),
             UNCHANGED <<jptmVars, xpc, nextChunk, chunk, openFiles, final>>
      PROVE  LockOf(u)'
  BY <1>19 DEF ProcessAvailableChunk, WorkerGoesTo
<1>20. ASSUME NEW t \in Transfers, SaveOneChunk(t),
             UNCHANGED <<jptmVars, xpc, nextChunk, chunk, openFiles, final>>
      PROVE  LockOf(u)'
  BY <1>20 DEF SaveOneChunk, WorkerGoesTo, Release
<1>21. ASSUME NEW t \in Transfers, WorkerExits(t),
             UNCHANGED <<jptmVars, xpc, nextChunk, chunk, openFiles, final>>
      PROVE  LockOf(u)'
  BY <1>21 DEF WorkerExits, WorkerGoesTo, Release
<1>22. ASSUME NEW c \in AllChunks, ReportChunkDone(c) PROVE LockOf(u)'
  BY <1>22 DEF ReportChunkDone, CountChunk, IsLastChunk, GoTo, MoveChunk
<1>23. ASSUME NEW c \in AllChunks,
             \/ StartChunk(c) \/ RequestFails(c) \/ ReadBody(c) \/ EnqueueChunk(c)
             \/ ReportChunkBytes(c)
      PROVE  LockOf(u)'
  <2>1. UNCHANGED <<xpc, wpc, lockHeld, destModified>>
    BY <1>23 DEF StartChunk, MoveChunk, ChunkFrame, RequestFails, FailActive, SetStatus, ReadBody,
         Release, EnqueueChunk, ChannelHasRoom, Enqueue, WriterDone, ReportChunkBytes,
         AddChunkBytes, jptmVars, lockVars, byteVars, writerVars, channelVars, orderVars,
         capacityVars
  <2> QED BY <2>1
<1>24. CASE CancelJob
  BY <1>24 DEF CancelJob, CancelContexts, EpilogueFrame
<1> QED BY <1>1, <1>2, <1>3, <1>4, <1>5, <1>6, <1>7, <1>8, <1>9, <1>10, <1>11, <1>12, <1>13,
           <1>14, <1>15, <1>16, <1>17, <1>18, <1>19, <1>20, <1>21, <1>22, <1>23, <1>24 DEF Next,
           TransferStep, ChunkStep, WriterStep, WorkerStep

(* Every step keeps that one transfer has the lock of a name.              *)
LEMMA OneHolderStep ==
    ASSUME LockType, PlaceType, OneHolder, \A u \in Transfers : LockOf(u), Next
    PROVE  OneHolder'
<1> USE TransferAssumption, DownloadAssumption DEF LockType, jptmVars, lockVars, byteVars,
        writerVars, channelVars, orderVars, capacityVars
<1>1. ASSUME NEW t \in Transfers, WaitUntilLockDestination(t) PROVE OneHolder'
  <2>1. CASE LockDestination(t)
    <3>1. Holders' = Holders \cup {t} /\ t \notin Holders
      BY <1>1, <2>1 DEF WaitUntilLockDestination, LockDestination, Holders, LockOf, WithLock
    <3>2. openFiles' = openFiles + 1 /\ openFiles < FileLimit
      BY <1>1, <2>1 DEF WaitUntilLockDestination, LockDestination
    <3>3. IsFiniteSet(Holders') /\ Cardinality(Holders') = Cardinality(Holders) + 1
      BY <3>1, FS_AddElement DEF OneHolder
    <3>4. openFiles \in Nat
      BY FS_CardinalityType DEF OneHolder
    <3> HIDE DEF Holders
    <3>5. /\ lockedDestinations' = {Destination[x] : x \in Holders'}
          /\ \A x, y \in Holders' : Destination[x] = Destination[y] => x = y
      BY <2>1, <3>1 DEF LockDestination, OneHolder
    <3> QED BY <3>2, <3>3, <3>4, <3>5 DEF OneHolder
  <2>2. CASE UNCHANGED <<lockVars, openFiles>>
    BY <2>2 DEF OneHolder, Holders
  <2> QED BY <1>1, <2>1, <2>2 DEF WaitUntilLockDestination
<1>2. ASSUME NEW t \in Transfers, Unlock(t) PROVE OneHolder'
  <2>1. CASE lockHeld[t]
    <3>1. Holders' = Holders \ {t} /\ t \in Holders
      BY <1>2, <2>1 DEF Unlock, EnsureDestinationUnlocked, Holders
    <3>2. openFiles' = openFiles - 1
      BY <1>2, <2>1 DEF Unlock
    <3>3. IsFiniteSet(Holders') /\ Cardinality(Holders') = Cardinality(Holders) - 1
      BY <3>1, FS_RemoveElement DEF OneHolder
    <3>4. openFiles \in Nat
      BY FS_CardinalityType DEF OneHolder
    <3> HIDE DEF Holders
    <3>5. lockedDestinations' = lockedDestinations \ {Destination[t]}
      BY <1>2, <2>1 DEF Unlock, EnsureDestinationUnlocked
    <3>6. /\ lockedDestinations' = {Destination[x] : x \in Holders'}
          /\ \A x, y \in Holders' : Destination[x] = Destination[y] => x = y
      BY <3>1, <3>5 DEF OneHolder
    <3> QED BY <3>2, <3>3, <3>4, <3>6 DEF OneHolder
  <2>2. CASE ~lockHeld[t]
    <3>1. Holders' = Holders /\ UNCHANGED <<lockedDestinations, openFiles>>
      BY <1>2, <2>2 DEF Unlock, EnsureDestinationUnlocked, Holders
    <3> QED BY <3>1 DEF OneHolder
  <2> QED BY <2>1, <2>2
<1>3. ASSUME NEW t \in Transfers,
             \/ InitialChecks(t) \/ CreateFile(t) \/ ScheduleChunk(t) \/ EnterEpilogue(t)
             \/ Flush(t) \/ FlushReturns(t) \/ CloseFile(t) \/ CheckMd5(t) \/ CheckLength(t)
             \/ Rename(t) \/ Complete(t) \/ Succeed(t) \/ Report(t)
      PROVE  OneHolder'
  <2>1. UNCHANGED <<lockHeld, lockedDestinations, openFiles>>
    BY <1>3 DEF InitialChecks, EndsEarly, SetStatus, GoTo, CreateFile, WorkerGoesTo, ScheduleChunk,
         Reserve, LimitFor, MoveChunk, EnterEpilogue, EpilogueFrame, Flush, CloseChannel,
         FlushReturns, WriterDone, CloseFile, ReleaseCapacity, FailActive, CheckMd5,
         VerifyFrame, CheckLength, Rename, Complete, IsDeadInflight, Succeed, Report,
         ReportTransferDone, SubtractBytes, jptmVars, lockVars, byteVars, writerVars,
         channelVars, orderVars, capacityVars
  <2> QED BY <2>1 DEF OneHolder, Holders
<1>4. ASSUME NEW t \in Transfers,
             \/ ReceiveChunk(t) \/ ChannelIsClosed(t) \/ WorkerIsCancelled(t)
             \/ ProcessAvailableChunk(t) \/ SaveOneChunk(t) \/ WorkerExits(t),
             UNCHANGED <<jptmVars, xpc, nextChunk, chunk, openFiles, final>>
      PROVE  OneHolder'
  <2>1. UNCHANGED <<lockHeld, lockedDestinations, openFiles>>
    BY <1>4 DEF ReceiveChunk, WorkerGoesTo, ChannelIsClosed, WorkerIsCancelled,
         ProcessAvailableChunk, SaveOneChunk, Release, WorkerExits, jptmVars, lockVars,
         byteVars, writerVars, channelVars, orderVars, capacityVars
  <2> QED BY <2>1 DEF OneHolder, Holders
<1>5. ASSUME NEW c \in AllChunks,
             \/ StartChunk(c) \/ RequestFails(c) \/ ReadBody(c) \/ EnqueueChunk(c)
             \/ ReportChunkBytes(c) \/ ReportChunkDone(c)
      PROVE  OneHolder'
  <2>1. UNCHANGED <<lockHeld, lockedDestinations, openFiles>>
    BY <1>5 DEF StartChunk, MoveChunk, ChunkFrame, RequestFails, FailActive, SetStatus, ReadBody,
         Release, EnqueueChunk, ChannelHasRoom, Enqueue, WriterDone, ReportChunkBytes,
         AddChunkBytes, ReportChunkDone, CountChunk, IsLastChunk, GoTo, jptmVars, lockVars,
         byteVars, writerVars, channelVars, orderVars, capacityVars
  <2> QED BY <2>1 DEF OneHolder, Holders
<1>6. CASE CancelJob
  BY <1>6 DEF CancelJob, CancelContexts, EpilogueFrame, OneHolder, Holders
<1> QED BY <1>1, <1>2, <1>3, <1>4, <1>5, <1>6 DEF Next, TransferStep, ChunkStep, WriterStep,
           WorkerStep

(* Every step keeps what becomes of a transfer.                            *)
LEMMA SettledStep ==
    ASSUME StatusType, PlaceType, NEW u \in Transfers, PlaceOf(u), SettledOf(u), Next
    PROVE  SettledOf(u)'
<1> USE Chunks DEF StatusType, PlaceType, PlaceOf, SettledOf, IsDead, Unsettled, InEpilogue,
        WithLock, Working, AfterFlush, jptmVars, lockVars, byteVars, writerVars, channelVars,
        orderVars, capacityVars
<1>1. ASSUME NEW t \in Transfers, InitialChecks(t) PROVE SettledOf(u)'
  BY <1>1 DEF InitialChecks, EndsEarly, SetStatus, GoTo
<1>2. ASSUME NEW t \in Transfers, WaitUntilLockDestination(t) PROVE SettledOf(u)'
  BY <1>2 DEF WaitUntilLockDestination, LockDestination, SetStatus, GoTo
<1>3. ASSUME NEW t \in Transfers, CreateFile(t) PROVE SettledOf(u)'
  BY <1>3 DEF CreateFile, WorkerGoesTo, SetStatus, GoTo
<1>4. ASSUME NEW t \in Transfers, ScheduleChunk(t) PROVE SettledOf(u)'
  BY <1>4 DEF ScheduleChunk, Reserve, LimitFor, MoveChunk, GoTo
<1>5. ASSUME NEW t \in Transfers, EnterEpilogue(t) PROVE SettledOf(u)'
  BY <1>5 DEF EnterEpilogue, SetStatus, GoTo, EpilogueFrame
<1>6. ASSUME NEW t \in Transfers, Flush(t) PROVE SettledOf(u)'
  BY <1>6 DEF Flush, CloseChannel, GoTo, EpilogueFrame
<1>7. ASSUME NEW t \in Transfers, FlushReturns(t) PROVE SettledOf(u)'
  BY <1>7 DEF FlushReturns, WorkerGoesTo, WriterDone, GoTo, EpilogueFrame
<1>8. ASSUME NEW t \in Transfers, CloseFile(t) PROVE SettledOf(u)'
  BY <1>8 DEF CloseFile, ReleaseCapacity, FailActive, SetStatus, GoTo, EpilogueFrame
<1>9. ASSUME NEW t \in Transfers, CheckMd5(t) PROVE SettledOf(u)'
  BY <1>9 DEF CheckMd5, FailActive, SetStatus, GoTo, VerifyFrame, EpilogueFrame
<1>10. ASSUME NEW t \in Transfers, CheckLength(t) PROVE SettledOf(u)'
  BY <1>10 DEF CheckLength, FailActive, SetStatus, GoTo, VerifyFrame, EpilogueFrame
<1>11. ASSUME NEW t \in Transfers, Rename(t) PROVE SettledOf(u)'
  BY <1>11 DEF Rename, FailActive, SetStatus, GoTo, VerifyFrame, EpilogueFrame
<1>12. ASSUME NEW t \in Transfers, Complete(t) PROVE SettledOf(u)'
  BY <1>12 DEF Complete, IsDeadInflight, GoTo, VerifyFrame, EpilogueFrame
<1>13. ASSUME NEW t \in Transfers, Succeed(t) PROVE SettledOf(u)'
  BY <1>13 DEF Succeed, SetStatus, GoTo, VerifyFrame, EpilogueFrame
<1>14. ASSUME NEW t \in Transfers, Unlock(t) PROVE SettledOf(u)'
  BY <1>14 DEF Unlock, EnsureDestinationUnlocked, GoTo, EpilogueFrame
<1>15. ASSUME NEW t \in Transfers, Report(t) PROVE SettledOf(u)'
  BY <1>15 DEF Report, ReportTransferDone, SubtractBytes, GoTo
<1>16. ASSUME NEW t \in Transfers, ReceiveChunk(t),
             UNCHANGED <<jptmVars, xpc, nextChunk, chunk, openFiles, final>>
      PROVE  SettledOf(u)'
  BY <1>16 DEF ReceiveChunk, WorkerGoesTo
<1>17. ASSUME NEW t \in Transfers, ChannelIsClosed(t),
             UNCHANGED <<jptmVars, xpc, nextChunk, chunk, openFiles, final>>
      PROVE  SettledOf(u)'
  BY <1>17 DEF ChannelIsClosed, WorkerGoesTo
<1>18. ASSUME NEW t \in Transfers, WorkerIsCancelled(t),
             UNCHANGED <<jptmVars, xpc, nextChunk, chunk, openFiles, final>>
      PROVE  SettledOf(u)'
  BY <1>18 DEF WorkerIsCancelled, WorkerGoesTo
<1>19. ASSUME NEW t \in Transfers, ProcessAvailableChunk(t),
             UNCHANGED <<jptmVars, xpc, nextChunk, chunk, openFiles, final>>
      PROVE  SettledOf(u)'
  BY <1>19 DEF ProcessAvailableChunk, WorkerGoesTo
<1>20. ASSUME NEW t \in Transfers, SaveOneChunk(t),
             UNCHANGED <<jptmVars, xpc, nextChunk, chunk, openFiles, final>>
      PROVE  SettledOf(u)'
  BY <1>20 DEF SaveOneChunk, WorkerGoesTo, Release
<1>21. ASSUME NEW t \in Transfers, WorkerExits(t),
             UNCHANGED <<jptmVars, xpc, nextChunk, chunk, openFiles, final>>
      PROVE  SettledOf(u)'
  BY <1>21 DEF WorkerExits, WorkerGoesTo, Release
<1>22. ASSUME NEW c \in AllChunks, RequestFails(c) PROVE SettledOf(u)'
  BY <1>22 DEF RequestFails, FailActive, SetStatus, MoveChunk, ChunkFrame
<1>23. ASSUME NEW c \in AllChunks, ReadBody(c) PROVE SettledOf(u)'
  BY <1>23 DEF ReadBody, Release, FailActive, SetStatus, MoveChunk, ChunkFrame
<1>24. ASSUME NEW c \in AllChunks, EnqueueChunk(c) PROVE SettledOf(u)'
  BY <1>24 DEF EnqueueChunk, ChannelHasRoom, Enqueue, WriterDone, Release, FailActive, SetStatus,
         MoveChunk, ChunkFrame
<1>25. ASSUME NEW c \in AllChunks, ReportChunkDone(c) PROVE SettledOf(u)'
  BY <1>25 DEF ReportChunkDone, CountChunk, IsLastChunk, GoTo, MoveChunk
<1>26. ASSUME NEW c \in AllChunks,
             \/ StartChunk(c) \/ ReportChunkBytes(c)
      PROVE  SettledOf(u)'
  <2>1. UNCHANGED <<status, ctxDone, xpc, wpc>>
    BY <1>26 DEF StartChunk, MoveChunk, ChunkFrame, ReportChunkBytes, AddChunkBytes, jptmVars,
         lockVars, byteVars, writerVars, channelVars, orderVars, capacityVars
  <2> QED BY <2>1
<1>27. CASE CancelJob
  BY <1>27 DEF CancelJob, CancelContexts, EpilogueFrame
<1> QED BY <1>1, <1>2, <1>3, <1>4, <1>5, <1>6, <1>7, <1>8, <1>9, <1>10, <1>11, <1>12, <1>13,
           <1>14, <1>15, <1>16, <1>17, <1>18, <1>19, <1>20, <1>21, <1>22, <1>23, <1>24, <1>25,
           <1>26, <1>27 DEF Next, TransferStep, ChunkStep, WriterStep, WorkerStep

-----------------------------------------------------------------------------
(* The writer: what is on its way to the file, and what is in it.          *)

(* A chunk is put into the channel. *)
LEMMA Enqueued ==
    ASSUME QueueType, NEW u \in Transfers, NEW c \in Own(u)
    PROVE  /\ Elements(Append(queue[u], c[2])) = Elements(queue[u]) \cup {c[2]}
           /\ NoDuplicates(queue[u]) /\ c[2] \notin Elements(queue[u]) =>
                  NoDuplicates(Append(queue[u], c[2]))
<1>1. queue[u] \in Seq(Nat) /\ c[2] \in Nat
  BY Chunks DEF QueueType
<1> QED BY <1>1, QueueAppend

(* Every step keeps that a chunk on its way is there once.                 *)
LEMMA QueueStep ==
    ASSUME PlaceType, QueueType, NEW u \in Transfers, PlaceOf(u), QueueOf(u), Next
    PROVE  QueueOf(u)'
<1> USE Chunks DEF PlaceType, QueueType, QueueOf, Arrived, jptmVars, lockVars, byteVars,
        writerVars, channelVars, orderVars, capacityVars
<1>1. ASSUME NEW t \in Transfers, CreateFile(t) PROVE QueueOf(u)'
  BY <1>1 DEF CreateFile, WorkerGoesTo, SetStatus, GoTo
<1>2. ASSUME NEW t \in Transfers, ScheduleChunk(t) PROVE QueueOf(u)'
  <2>1. t = u => chunk[<<t, nextChunk[t]>>] \notin Arrived
    BY <1>2 DEF PlaceOf, ScheduleChunk
  <2> QED BY <1>2, <2>1 DEF ScheduleChunk, MoveChunk
<1>3. ASSUME NEW t \in Transfers, FlushReturns(t) PROVE QueueOf(u)'
  BY <1>3 DEF FlushReturns, WorkerGoesTo, WriterDone, GoTo, EpilogueFrame
<1>4. ASSUME NEW t \in Transfers,
             \/ InitialChecks(t) \/ WaitUntilLockDestination(t) \/ EnterEpilogue(t) \/ Flush(t)
             \/ CloseFile(t) \/ CheckMd5(t) \/ CheckLength(t) \/ Rename(t) \/ Complete(t)
             \/ Succeed(t) \/ Unlock(t) \/ Report(t)
      PROVE  QueueOf(u)'
  <2>1. UNCHANGED <<queue, unsaved, nextToSave, chunk, wpc>>
    BY <1>4 DEF InitialChecks, EndsEarly, SetStatus, GoTo, WaitUntilLockDestination,
         LockDestination, EnterEpilogue, EpilogueFrame, Flush, CloseChannel, CloseFile,
         ReleaseCapacity, FailActive, CheckMd5, VerifyFrame, CheckLength, Rename, Complete,
         IsDeadInflight, Succeed, Unlock, EnsureDestinationUnlocked, Report, ReportTransferDone,
         SubtractBytes, jptmVars, lockVars, byteVars, writerVars, channelVars, orderVars,
         capacityVars
  <2> QED BY <2>1 DEF Own
<1>5. ASSUME NEW t \in Transfers, ReceiveChunk(t),
             UNCHANGED <<jptmVars, xpc, nextChunk, chunk, openFiles, final>>
      PROVE  QueueOf(u)'
  <2>1. CASE t = u
    <3>1. /\ queue'[u] = Tail(queue[u]) /\ unsaved'[u] = unsaved[u] \cup {Head(queue[u])}
          /\ UNCHANGED <<nextToSave, chunk>> /\ wpc'[u] = "process"
      BY <1>5, <2>1 DEF ReceiveChunk, WorkerGoesTo
    <3>2. /\ Elements(queue[u]) = Elements(queue'[u]) \cup {Head(queue[u])}
          /\ NoDuplicates(queue'[u]) /\ Head(queue[u]) \notin Elements(queue'[u])
      BY <1>5, <2>1, <3>1, QueueTail DEF ReceiveChunk
    <3> QED BY <3>1, <3>2 DEF Own
  <2>2. CASE t # u
    BY <1>5, <2>2 DEF ReceiveChunk, WorkerGoesTo, Own
  <2> QED BY <2>1, <2>2
<1>6. ASSUME NEW t \in Transfers, ChannelIsClosed(t),
             UNCHANGED <<jptmVars, xpc, nextChunk, chunk, openFiles, final>>
      PROVE  QueueOf(u)'
  BY <1>6 DEF ChannelIsClosed, WorkerGoesTo
<1>7. ASSUME NEW t \in Transfers, WorkerIsCancelled(t),
             UNCHANGED <<jptmVars, xpc, nextChunk, chunk, openFiles, final>>
      PROVE  QueueOf(u)'
  BY <1>7 DEF WorkerIsCancelled, WorkerGoesTo
<1>8. ASSUME NEW t \in Transfers, ProcessAvailableChunk(t),
             UNCHANGED <<jptmVars, xpc, nextChunk, chunk, openFiles, final>>
      PROVE  QueueOf(u)'
  <2>1. CASE t # u
    BY <1>8, <2>1 DEF ProcessAvailableChunk, WorkerGoesTo
  <2>2. CASE t = u /\ UNCHANGED orderVars
    BY <1>8, <2>2 DEF ProcessAvailableChunk, WorkerGoesTo
  <2>3. CASE t = u /\ ~UNCHANGED orderVars
    <3>1. /\ nextToSave[u] \in unsaved[u] /\ nextToSave'[u] = nextToSave[u] + 1
          /\ unsaved'[u] = unsaved[u] \ {nextToSave[u]} /\ wpc'[u] = "save"
          /\ UNCHANGED <<queue, chunk>>
      BY <1>8, <2>3 DEF ProcessAvailableChunk, WorkerGoesTo
    <3>2. nextToSave[u] \in Nat /\ nextToSave[u] < NumChunks[u]
      BY <3>1, OwnShape
    <3>3. /\ \A i \in Elements(queue[u]) \cup unsaved[u] : i \in Nat
          /\ nextToSave[u] \notin Elements(queue[u])
      BY <3>1 DEF Elements
    <3>4. \A c \in Own(u) : c[2] = nextToSave[u] => chunk[c] \in Arrived
      BY <3>1
    <3> QED BY <3>1, <3>2, <3>3, <3>4
  <2> QED BY <2>1, <2>2, <2>3
<1>9. ASSUME NEW t \in Transfers, SaveOneChunk(t),
             UNCHANGED <<jptmVars, xpc, nextChunk, chunk, openFiles, final>>
      PROVE  QueueOf(u)'
  BY <1>9 DEF SaveOneChunk, WorkerGoesTo, Release
<1>10. ASSUME NEW t \in Transfers, WorkerExits(t),
             UNCHANGED <<jptmVars, xpc, nextChunk, chunk, openFiles, final>>
      PROVE  QueueOf(u)'
  BY <1>10 DEF WorkerExits, WorkerGoesTo, Release
<1>11. ASSUME NEW c \in AllChunks, StartChunk(c) PROVE QueueOf(u)'
  BY <1>11 DEF StartChunk, MoveChunk, ChunkFrame
<1>12. ASSUME NEW c \in AllChunks, RequestFails(c) PROVE QueueOf(u)'
  BY <1>12 DEF RequestFails, FailActive, SetStatus, MoveChunk, ChunkFrame
<1>13. ASSUME NEW c \in AllChunks, ReadBody(c) PROVE QueueOf(u)'
  <2>1. UNCHANGED <<queue, unsaved, nextToSave, wpc>>
    BY <1>13 DEF ReadBody, ChunkFrame
  <2>2. \A d \in AllChunks : chunk[d] \in Arrived => chunk'[d] \in Arrived
    BY <1>13 DEF ReadBody, MoveChunk
  <2> QED BY <2>1, <2>2
<1>14. ASSUME NEW c \in AllChunks, EnqueueChunk(c) PROVE QueueOf(u)'
  <2>1. CASE c[1] = u /\ queue' # queue
    <3>1. /\ queue'[u] = Append(queue[u], c[2]) /\ UNCHANGED <<unsaved, nextToSave, wpc>>
          /\ chunk[c] = "enqueue"
      BY <1>14, <2>1 DEF EnqueueChunk, Enqueue
    <3>2. \A d \in Own(u) : chunk'[d] = IF d = c THEN "reportBytes" ELSE chunk[d]
      BY <1>14, <2>1 DEF EnqueueChunk, MoveChunk
    <3>3. c \in Own(u) /\ c[2] \notin Elements(queue[u]) \cup unsaved[u] /\ c[2] >= nextToSave[u]
      <4>1. c \in Own(u) /\ c[2] \in Nat /\ chunk[c] \notin Arrived
        BY <2>1, <3>1
      <4> QED BY <4>1
    <3>4. /\ Elements(queue'[u]) = Elements(queue[u]) \cup {c[2]}
          /\ NoDuplicates(queue'[u])
      BY <2>1, <3>1, <3>3, Enqueued
    <3>5. Own(u)' = Own(u)
      BY DEF Own
    <3>6. \A d \in Own(u) : d[2] = c[2] => d = c
      <4>1. \A d \in Own(u) : d = <<u, d[2]>>
        BY OwnShape
      <4> QED BY <3>3, <4>1
    <3> QED BY <3>1, <3>2, <3>3, <3>4, <3>5, <3>6
  <2>2. CASE queue'[u] = queue[u]
    BY <1>14, <2>2 DEF EnqueueChunk, MoveChunk, Own
  <2>3. c[1] # u => queue'[u] = queue[u]
    BY <1>14 DEF EnqueueChunk, Enqueue
  <2> QED BY <2>1, <2>2, <2>3
<1>15. ASSUME NEW c \in AllChunks, ReportChunkBytes(c) PROVE QueueOf(u)'
  BY <1>15 DEF ReportChunkBytes, AddChunkBytes, MoveChunk
<1>16. ASSUME NEW c \in AllChunks, ReportChunkDone(c) PROVE QueueOf(u)'
  BY <1>16 DEF ReportChunkDone, CountChunk, IsLastChunk, GoTo, MoveChunk
<1>17. CASE CancelJob
  BY <1>17 DEF CancelJob, CancelContexts, EpilogueFrame
<1> QED BY <1>1, <1>2, <1>3, <1>4, <1>5, <1>6, <1>7, <1>8, <1>9, <1>10, <1>11, <1>12, <1>13,
           <1>14, <1>15, <1>16, <1>17 DEF Next, TransferStep, ChunkStep, WriterStep, WorkerStep

(* A context that is done stays done. *)
LEMMA StaysDone ==
    ASSUME StatusType, NEW t \in Transfers, FailActive(t) \/ UNCHANGED ctxDone
    PROVE  \A u \in Transfers : ctxDone[u] => ctxDone'[u]
BY DEF StatusType, FailActive

(* Every step keeps the order of what is saved.                            *)
LEMMA OrderStep ==
    ASSUME StatusType, PlaceType, QueueType, NEW u \in Transfers, PlaceOf(u), QueueOf(u),
           OrderOf(u), Next
    PROVE  OrderOf(u)'
<1> USE Chunks DEF StatusType, PlaceType, QueueType, OrderOf, Arrived, Working, jptmVars,
        lockVars, byteVars, writerVars, channelVars, orderVars, capacityVars
<1>1. ASSUME NEW t \in Transfers, CreateFile(t) PROVE OrderOf(u)'
  <2>1. CASE t = u
    <3>1. /\ \A c \in Own(u) : chunk[c] \notin Arrived
          /\ UNCHANGED <<ctxDone, queue, unsaved, nextToSave, chunk>> /\ wpc'[u] # "sendMd5"
      <4>1. xpc[u] = "create" /\ wpc[u] = "none" /\ wpc'[u] \in {"none", "select"}
        BY <1>1, <2>1 DEF CreateFile, PlaceOf, WorkerGoesTo
      <4>2. \A c \in Own(u) : chunk[c] = "unscheduled"
        <5>1. nextChunk[u] = 0 /\ \A c \in Own(u) : c[2] \in Nat
          BY <4>1 DEF PlaceOf
        <5>2. \A c \in Own(u) : chunk[c] = "unscheduled" <=> c[2] >= nextChunk[u]
          BY DEF PlaceOf
        <5> SUFFICES ASSUME NEW c \in Own(u) PROVE chunk[c] = "unscheduled"
          OBVIOUS
        <5>3. c[2] >= nextChunk[u]
          BY <5>1
        <5> QED BY <5>2, <5>3
      <4> QED BY <1>1, <4>1, <4>2 DEF CreateFile
    <3>2. nextToSave[u] \notin unsaved[u]
      BY ZenonT(30), <3>1, OwnShape DEF QueueOf
    <3> QED BY <3>1, <3>2
  <2>2. CASE t # u
    BY <1>1, <2>2 DEF CreateFile, WorkerGoesTo
  <2> QED BY <2>1, <2>2
<1>2. ASSUME NEW t \in Transfers, ScheduleChunk(t) PROVE OrderOf(u)'
  BY <1>2 DEF ScheduleChunk, Reserve, LimitFor, MoveChunk, GoTo
<1>3. ASSUME NEW t \in Transfers, FlushReturns(t) PROVE OrderOf(u)'
  BY <1>3 DEF FlushReturns, WorkerGoesTo, WriterDone, GoTo, EpilogueFrame
<1>4. ASSUME NEW t \in Transfers, CloseFile(t) PROVE OrderOf(u)'
  <2>1. FailActive(t) \/ UNCHANGED ctxDone
    BY <1>4 DEF CloseFile
  <2>2. UNCHANGED <<queue, unsaved, nextToSave, chunk, wpc>>
    BY <1>4 DEF CloseFile, EpilogueFrame
  <2>3. ~ctxDone'[u] => ~ctxDone[u]
    BY <2>1, StaysDone
  <2> QED BY <2>2, <2>3
<1>5. ASSUME NEW t \in Transfers, CheckMd5(t) PROVE OrderOf(u)'
  <2>1. FailActive(t) \/ UNCHANGED ctxDone
    BY <1>5 DEF CheckMd5
  <2>2. UNCHANGED <<queue, unsaved, nextToSave, chunk, wpc>>
    BY <1>5 DEF CheckMd5, VerifyFrame, EpilogueFrame
  <2>3. ~ctxDone'[u] => ~ctxDone[u]
    BY <2>1, StaysDone
  <2> QED BY <2>2, <2>3
<1>6. ASSUME NEW t \in Transfers, CheckLength(t) PROVE OrderOf(u)'
  <2>1. FailActive(t) \/ UNCHANGED ctxDone
    BY <1>6 DEF CheckLength
  <2>2. UNCHANGED <<queue, unsaved, nextToSave, chunk, wpc>>
    BY <1>6 DEF CheckLength, VerifyFrame, EpilogueFrame
  <2>3. ~ctxDone'[u] => ~ctxDone[u]
    BY <2>1, StaysDone
  <2> QED BY <2>2, <2>3
<1>7. ASSUME NEW t \in Transfers, Rename(t) PROVE OrderOf(u)'
  <2>1. FailActive(t) \/ UNCHANGED ctxDone
    BY <1>7 DEF Rename
  <2>2. UNCHANGED <<queue, unsaved, nextToSave, chunk, wpc>>
    BY <1>7 DEF Rename, VerifyFrame, EpilogueFrame
  <2>3. ~ctxDone'[u] => ~ctxDone[u]
    BY <2>1, StaysDone
  <2> QED BY <2>2, <2>3
<1>8. ASSUME NEW t \in Transfers, Report(t) PROVE OrderOf(u)'
  BY <1>8 DEF Report, ReportTransferDone, SubtractBytes, GoTo
<1>9. ASSUME NEW t \in Transfers,
             \/ InitialChecks(t) \/ WaitUntilLockDestination(t) \/ EnterEpilogue(t) \/ Flush(t)
             \/ Complete(t) \/ Succeed(t) \/ Unlock(t)
      PROVE  OrderOf(u)'
  <2>1. UNCHANGED <<ctxDone, queue, unsaved, nextToSave, chunk, wpc>>
    BY <1>9 DEF InitialChecks, EndsEarly, SetStatus, GoTo, WaitUntilLockDestination,
         LockDestination, EnterEpilogue, EpilogueFrame, Flush, CloseChannel, Complete,
         IsDeadInflight, VerifyFrame, Succeed, Unlock, EnsureDestinationUnlocked, jptmVars,
         lockVars, byteVars, writerVars, channelVars, orderVars, capacityVars
  <2> QED BY <2>1 DEF Own
<1>10. ASSUME NEW t \in Transfers, ReceiveChunk(t),
             UNCHANGED <<jptmVars, xpc, nextChunk, chunk, openFiles, final>>
      PROVE  OrderOf(u)'
  <2>1. CASE t = u
    <3>1. /\ queue'[u] = Tail(queue[u]) /\ unsaved'[u] = unsaved[u] \cup {Head(queue[u])}
          /\ UNCHANGED <<ctxDone, nextToSave, chunk>> /\ wpc[u] = "select" /\ wpc'[u] = "process"
      BY <1>10, <2>1 DEF ReceiveChunk, WorkerGoesTo
    <3>2. Elements(queue[u]) = Elements(queue'[u]) \cup {Head(queue[u])}
      BY <1>10, <2>1, <3>1, QueueTail DEF ReceiveChunk
    <3> QED BY <3>1, <3>2 DEF Own
  <2>2. CASE t # u
    BY <1>10, <2>2 DEF ReceiveChunk, WorkerGoesTo, Own
  <2> QED BY <2>1, <2>2
<1>11. ASSUME NEW t \in Transfers, ChannelIsClosed(t),
             UNCHANGED <<jptmVars, xpc, nextChunk, chunk, openFiles, final>>
      PROVE  OrderOf(u)'
  BY <1>11 DEF ChannelIsClosed, WorkerGoesTo
<1>12. ASSUME NEW t \in Transfers, WorkerIsCancelled(t),
             UNCHANGED <<jptmVars, xpc, nextChunk, chunk, openFiles, final>>
      PROVE  OrderOf(u)'
  BY <1>12 DEF WorkerIsCancelled, WorkerGoesTo
<1>13. ASSUME NEW t \in Transfers, ProcessAvailableChunk(t),
             UNCHANGED <<jptmVars, xpc, nextChunk, chunk, openFiles, final>>
      PROVE  OrderOf(u)'
  <2>1. CASE t # u
    BY <1>13, <2>1 DEF ProcessAvailableChunk, WorkerGoesTo
  <2>2. CASE t = u /\ (ctxDone[u] \/ nextToSave[u] \notin unsaved[u])
    BY <1>13, <2>2 DEF ProcessAvailableChunk, WorkerGoesTo
  <2>3. CASE t = u /\ ~ctxDone[u] /\ nextToSave[u] \in unsaved[u]
    <3>1. /\ nextToSave'[u] = nextToSave[u] + 1 /\ unsaved'[u] = unsaved[u] \ {nextToSave[u]}
          /\ wpc[u] = "process" /\ wpc'[u] = "save"
          /\ UNCHANGED <<queue, chunk>>
      BY <1>13, <2>3 DEF ProcessAvailableChunk, WorkerGoesTo
    <3>2. \A c \in Own(u) : c[2] \in Nat /\ (c[2] < nextToSave'[u] <=> c[2] <= nextToSave[u])
      BY <3>1
    <3> QED BY <2>3, <3>1, <3>2
  <2> QED BY <2>1, <2>2, <2>3
<1>14. ASSUME NEW t \in Transfers, SaveOneChunk(t),
             UNCHANGED <<jptmVars, xpc, nextChunk, chunk, openFiles, final>>
      PROVE  OrderOf(u)'
  BY <1>14 DEF SaveOneChunk, WorkerGoesTo, Release
<1>15. ASSUME NEW t \in Transfers, WorkerExits(t),
             UNCHANGED <<jptmVars, xpc, nextChunk, chunk, openFiles, final>>
      PROVE  OrderOf(u)'
  BY <1>15 DEF WorkerExits, WorkerGoesTo, Release
<1>16. ASSUME NEW c \in AllChunks, StartChunk(c) PROVE OrderOf(u)'
  BY <1>16 DEF StartChunk, MoveChunk, ChunkFrame
<1>17. ASSUME NEW c \in AllChunks, RequestFails(c) PROVE OrderOf(u)'
  BY <1>17 DEF RequestFails, FailActive, SetStatus, MoveChunk, ChunkFrame
<1>18. ASSUME NEW c \in AllChunks, ReadBody(c) PROVE OrderOf(u)'
  BY <1>18 DEF ReadBody, Release, FailActive, SetStatus, MoveChunk, ChunkFrame
<1>19. ASSUME NEW c \in AllChunks, EnqueueChunk(c) PROVE OrderOf(u)'
  <2>1. CASE c[1] = u /\ queue' # queue
    <3>1. /\ queue'[u] = Append(queue[u], c[2]) /\ UNCHANGED <<ctxDone, unsaved, nextToSave, wpc>>
          /\ chunk[c] = "enqueue"
      BY <1>19, <2>1 DEF EnqueueChunk, Enqueue, FailActive
    <3>2. \A d \in Own(u) : chunk'[d] = IF d = c THEN "reportBytes" ELSE chunk[d]
      BY <1>19, <2>1 DEF EnqueueChunk, MoveChunk
    <3>3. Elements(queue'[u]) = Elements(queue[u]) \cup {c[2]}
      <4>1. c \in Own(u)
        BY <2>1
      <4>2. Elements(Append(queue[u], c[2])) = Elements(queue[u]) \cup {c[2]}
        BY <4>1, Enqueued
      <4>3. queue'[u] = Append(queue[u], c[2])
        BY <3>1
      <4> QED BY <4>2, <4>3
    <3>4. wpc[u] # "sendMd5"
      BY <2>1, <3>1 DEF PlaceOf, AfterFlush
    <3> QED BY <3>1, <3>2, <3>3, <3>4 DEF Own
  <2>2. CASE c[1] = u /\ queue' = queue
    BY <1>19, <2>2 DEF EnqueueChunk, MoveChunk, FailActive, Own, Enqueue, WriterDone
  <2>3. CASE c[1] # u
    <3>1. UNCHANGED <<unsaved, nextToSave, wpc>> /\ queue'[u] = queue[u] /\ ctxDone'[u] = ctxDone[u]
      BY <1>19, <2>3 DEF EnqueueChunk, Enqueue, FailActive
    <3>2. \A d \in Own(u) : chunk'[d] = chunk[d]
      BY <1>19, <2>3 DEF EnqueueChunk, MoveChunk
    <3> QED BY <3>1, <3>2 DEF Own
  <2> QED BY <2>1, <2>2, <2>3
<1>20. ASSUME NEW c \in AllChunks, ReportChunkBytes(c) PROVE OrderOf(u)'
  BY <1>20 DEF ReportChunkBytes, AddChunkBytes, MoveChunk
<1>21. ASSUME NEW c \in AllChunks, ReportChunkDone(c) PROVE OrderOf(u)'
  BY <1>21 DEF ReportChunkDone, CountChunk, IsLastChunk, GoTo, MoveChunk
<1>22. CASE CancelJob
  BY <1>22 DEF CancelJob, CancelContexts, EpilogueFrame
<1> QED BY <1>1, <1>2, <1>3, <1>4, <1>5, <1>6, <1>7, <1>8, <1>9, <1>10, <1>11, <1>12, <1>13,
           <1>14, <1>15, <1>16, <1>17, <1>18, <1>19, <1>20, <1>21, <1>22 DEF Next, TransferStep,
           ChunkStep, WriterStep, WorkerStep

(* A transfer whose file matters has its lock.                             *)
LEMMA FileIsLocked ==
    ASSUME PlaceType, NEW u \in Transfers, PlaceOf(u), LockOf(u), SettledOf(u),
           \/ wpc[u] \in Working
           \/ xpc[u] \in {"flushed", "verify", "checkLength", "rename", "succeed"}
           \/ xpc[u] = "complete" /\ ~IsDead(u)
    PROVE  lockHeld[u]
BY DEF PlaceType, PlaceOf, LockOf, SettledOf, Working, WithLock

(* A failure is of one transfer. *)
LEMMA OthersGoOn ==
    ASSUME StatusType, NEW t \in Transfers, NEW u \in Transfers, t # u,
           FailActive(t) \/ UNCHANGED <<status, ctxDone>>
    PROVE  status'[u] = status[u] /\ ctxDone'[u] = ctxDone[u]
<1>1. ASSUME FailActive(t) PROVE ctxDone'[u] = ctxDone[u]
  BY <1>1 DEF FailActive, StatusType
<1>2. ASSUME FailActive(t), ctxDone[t] PROVE status'[u] = status[u]
  BY <1>2 DEF FailActive
<1>3. ASSUME FailActive(t), ~ctxDone[t] PROVE status'[u] = status[u]
  BY <1>3 DEF FailActive, SetStatus, StatusType
<1> QED BY <1>1, <1>2, <1>3

(* ... and nobody else touches its files.                                  *)
LEMMA ContentElsewhere ==
    ASSUME PlaceType, NEW u \in Transfers, PlaceOf(u), LockOf(u), SettledOf(u), ContentOf(u),
           /\ wpc'[u] = wpc[u] /\ xpc'[u] = xpc[u] /\ nextToSave'[u] = nextToSave[u]
           /\ status'[u] = status[u] /\ ctxDone'[u] = ctxDone[u],
           lockHeld[u] => /\ temp'[Destination[u]] = temp[Destination[u]]
                          /\ final'[Destination[u]] = final[Destination[u]],
           final[Destination[u]] # NoFile => final'[Destination[u]] # NoFile
    PROVE  ContentOf(u)'
BY FileIsLocked DEF ContentOf, IsDead, Working, Whole, Unsettled

(* Every step keeps what is in the files.                                  *)
LEMMA ContentStep ==
    ASSUME StatusType, LockType, PlaceType, QueueType, FileType, OneHolder,
           \A x \in
           Transfers : PlaceOf(x) /\ LockOf(x) /\ QueueOf(x) /\ OrderOf(x) /\ ContentOf(x)

                                     /\ SettledOf(x),
           NEW u \in Transfers,
           SettledOf(u)', Next
    PROVE  ContentOf(u)'
<1> USE TransferAssumption, Chunks, FirstChunks DEF StatusType, LockType, PlaceType, QueueType,
        FileType, InEpilogue, jptmVars, lockVars, byteVars, writerVars, channelVars, orderVars,
        capacityVars
<1>1. ASSUME NEW t \in Transfers, InitialChecks(t) PROVE ContentOf(u)'
  <2>1. CASE t # u
    BY <1>1, <2>1, ContentElsewhere DEF InitialChecks, EndsEarly, SetStatus, GoTo
  <2>2. CASE t = u
    BY <1>1, <2>2 DEF InitialChecks, EndsEarly, SetStatus, GoTo, ContentOf, IsDead, SettledOf,
       Unsettled, WithLock, Working, Whole, PlaceOf
  <2> QED BY <2>1, <2>2
<1>2. ASSUME NEW t \in Transfers, WaitUntilLockDestination(t) PROVE ContentOf(u)'
  <2>1. CASE t # u
    BY <1>2, <2>1, ContentElsewhere DEF WaitUntilLockDestination, LockDestination, SetStatus, GoTo
  <2>2. CASE t = u
    BY <1>2, <2>2 DEF WaitUntilLockDestination, LockDestination, SetStatus, GoTo, ContentOf,
       IsDead, SettledOf, Unsettled, WithLock, Working, Whole, PlaceOf
  <2> QED BY <2>1, <2>2
<1>3. ASSUME NEW t \in Transfers, CreateFile(t) PROVE ContentOf(u)'
  <2>1. CASE t # u
    <3>1. lockHeld[u] => Destination[t] # Destination[u] \/ UNCHANGED <<temp, final>>
      BY <1>3, <2>1, FileIsLocked DEF CreateFile, OneHolder, Holders, Working, LockOf, WithLock,
         IsDeadInflight
    <3> QED BY <1>3, <2>1, <3>1, ContentElsewhere DEF CreateFile, WorkerGoesTo, SetStatus, GoTo
  <2>2. CASE t = u
    <3>1. nextToSave[u] = 0
      <4>1. <<u, 0>> \in Own(u) /\ chunk[<<u, 0>>] = "unscheduled"
        BY <1>3, <2>2 DEF CreateFile, PlaceOf
      <4>2. ~(0 < nextToSave[u])
        BY <4>1 DEF QueueOf, Arrived
      <4> QED BY <4>2
    <3>2. /\ UNCHANGED <<ctxDone, final, nextToSave>> /\ wpc[u] = "none" /\ status[u] # "Success"
          /\ status'[u] # "Success" /\ xpc'[u] \in {"schedule", "epilogue"}
          /\ wpc'[u] = "select" => temp'[Destination[u]] = <<>>
          /\ wpc'[u] \in {"none", "select"}
      <4>1. xpc[u] = "create" /\ wpc[u] = "none" /\ status[u] # "Success"
        BY <1>3, <2>2 DEF CreateFile, PlaceOf, SettledOf
      <4>2. /\ UNCHANGED <<ctxDone, final, nextToSave>>
            /\ wpc'[u] = "select" => temp'[Destination[u]] = <<>>
            /\ wpc'[u] \in {"none", "select"} /\ xpc'[u] \in {"schedule", "epilogue"}
        BY <1>3, <2>2, <4>1 DEF CreateFile, WorkerGoesTo, GoTo
      <4>3. status'[u] # "Success"
        BY <1>3, <2>2, <4>1 DEF CreateFile, SetStatus
      <4> QED BY <4>1, <4>2, <4>3
    <3> QED BY <3>1, <3>2 DEF ContentOf
  <2> QED BY <2>1, <2>2
<1>4. ASSUME NEW t \in Transfers, ScheduleChunk(t) PROVE ContentOf(u)'
  <2>1. CASE t # u
    BY <1>4, <2>1, ContentElsewhere DEF ScheduleChunk, Reserve, LimitFor, MoveChunk, GoTo
  <2>2. CASE t = u
    BY <1>4, <2>2 DEF ScheduleChunk, Reserve, LimitFor, MoveChunk, GoTo, ContentOf, IsDead,
       SettledOf, Unsettled, WithLock, Working, Whole, PlaceOf
  <2> QED BY <2>1, <2>2
<1>5. ASSUME NEW t \in Transfers, EnterEpilogue(t) PROVE ContentOf(u)'
  <2>1. CASE t # u
    BY <1>5, <2>1, ContentElsewhere DEF EnterEpilogue, SetStatus, GoTo, EpilogueFrame
  <2>2. CASE t = u
    BY <1>5, <2>2 DEF EnterEpilogue, SetStatus, GoTo, EpilogueFrame, ContentOf, IsDead, SettledOf,
       Unsettled, WithLock, Working, Whole, PlaceOf
  <2> QED BY <2>1, <2>2
<1>6. ASSUME NEW t \in Transfers, Flush(t) PROVE ContentOf(u)'
  <2>1. CASE t # u
    BY <1>6, <2>1, ContentElsewhere DEF Flush, CloseChannel, GoTo, EpilogueFrame
  <2>2. CASE t = u
    BY <1>6, <2>2 DEF Flush, CloseChannel, GoTo, EpilogueFrame, ContentOf, IsDead, SettledOf,
       Unsettled, WithLock, Working, Whole, PlaceOf
  <2> QED BY <2>1, <2>2
<1>7. ASSUME NEW t \in Transfers, FlushReturns(t) PROVE ContentOf(u)'
  <2>1. CASE t # u
    BY <1>7, <2>1, ContentElsewhere DEF FlushReturns, GoTo, WorkerGoesTo, WriterDone, EpilogueFrame
  <2>2. CASE t = u /\ wpc[u] = "sendMd5"
    <3>1. ~ctxDone[u] => nextToSave[u] = NumChunks[u]
      <4> SUFFICES ASSUME ~ctxDone[u], nextToSave[u] # NumChunks[u] PROVE FALSE
        OBVIOUS
      <4>1. nextToSave[u] \in Nat /\ nextToSave[u] < NumChunks[u]
        BY DEF QueueOf
      <4>2. <<u, nextToSave[u]>> \in Own(u)
        BY <4>1
      <4>3. chunk[<<u, nextToSave[u]>>] = "done"
        <5>1. xpc[u] = "flushing" /\ nextChunk[u] = NumChunks[u]
          BY <1>7, <2>2 DEF FlushReturns, PlaceOf
        <5>2. chunk[<<u, nextToSave[u]>>] \in {"unscheduled", "done"}
          BY <4>2, <5>1 DEF PlaceOf
        <5>3. ~(<<u, nextToSave[u]>>[2] >= nextChunk[u])
          BY <4>1, <5>1
        <5> QED BY <4>2, <5>2, <5>3 DEF PlaceOf
      <4>4. /\ queue[u] = <<>> /\ nextToSave[u] \notin unsaved[u]
            /\ \A c \in Own(u) : chunk[c] \in Arrived =>
                   c[2] < nextToSave[u] \/ c[2] \in Elements(queue[u]) \cup unsaved[u]
        BY <2>2 DEF OrderOf, Working
      <4>5. Elements(queue[u]) = {}
        BY <4>4, QueueEmpty
      <4>6. <<u, nextToSave[u]>>[2] = nextToSave[u] /\ "done" \in Arrived
        BY DEF Arrived
      <4>7. nextToSave[u] < nextToSave[u] \/ nextToSave[u] \in Elements(queue[u]) \cup unsaved[u]
        BY <4>2, <4>3, <4>4, <4>6
      <4> QED BY <4>1, <4>4, <4>5, <4>7
    <3>2. /\ UNCHANGED <<status, ctxDone, temp, final>> /\ xpc'[u] = "flushed" /\ status[u] # "Success"
          /\ wpc'[u] = "cleanup"
      BY <1>7, <2>2 DEF FlushReturns, GoTo, WorkerGoesTo, WriterDone, EpilogueFrame, SettledOf
    <3> QED BY <2>2, <3>1, <3>2 DEF ContentOf, IsDead, Whole
  <2>3. CASE t = u /\ wpc[u] # "sendMd5"
    BY <1>7, <2>3 DEF FlushReturns, GoTo, WorkerGoesTo, WriterDone, EpilogueFrame, ContentOf,
       SettledOf
  <2> QED BY <2>1, <2>2, <2>3
<1>8. ASSUME NEW t \in Transfers, CloseFile(t) PROVE ContentOf(u)'
  <2>1. CASE t # u
    BY <1>8, <2>1, ContentElsewhere DEF CloseFile, ReleaseCapacity, FailActive, SetStatus, GoTo,
       EpilogueFrame
  <2>2. CASE t = u
    BY <1>8, <2>2 DEF CloseFile, ReleaseCapacity, FailActive, SetStatus, GoTo, EpilogueFrame,
       ContentOf, IsDead, SettledOf, Unsettled, WithLock, Working, Whole, PlaceOf
  <2> QED BY <2>1, <2>2
<1>9. ASSUME NEW t \in Transfers, CheckMd5(t) PROVE ContentOf(u)'
  <2>1. CASE t # u
    BY <1>9, <2>1, ContentElsewhere DEF CheckMd5, FailActive, SetStatus, GoTo, VerifyFrame,
       EpilogueFrame
  <2>2. CASE t = u
    BY <1>9, <2>2 DEF CheckMd5, FailActive, SetStatus, GoTo, VerifyFrame, EpilogueFrame, ContentOf,
       IsDead, SettledOf, Unsettled, WithLock, Working, Whole, PlaceOf
  <2> QED BY <2>1, <2>2
<1>10. ASSUME NEW t \in Transfers, CheckLength(t) PROVE ContentOf(u)'
  <2>1. CASE t # u
    BY <1>10, <2>1, ContentElsewhere DEF CheckLength, FailActive, SetStatus, GoTo, VerifyFrame,
       EpilogueFrame
  <2>2. CASE t = u
    BY <1>10, <2>2 DEF CheckLength, FailActive, SetStatus, GoTo, VerifyFrame, EpilogueFrame,
       ContentOf, IsDead, SettledOf, Unsettled, WithLock, Working, Whole, PlaceOf
  <2> QED BY <2>1, <2>2
<1>11. ASSUME NEW t \in Transfers, Rename(t) PROVE ContentOf(u)'
  <2>1. temp[Destination[t]] # NoFile /\ temp[Destination[t]] = Whole(t)
    BY <1>11 DEF Rename, ContentOf
  <2>2. CASE t # u
    <3>1. lockHeld[u] => Destination[t] # Destination[u]
      BY <1>11, <2>2, FileIsLocked DEF Rename, OneHolder, Holders, LockOf, WithLock
    <3>2. /\ wpc'[u] = wpc[u] /\ xpc'[u] = xpc[u] /\ nextToSave'[u] = nextToSave[u]
          /\ status'[u] = status[u] /\ ctxDone'[u] = ctxDone[u]
      BY <1>11, <2>2 DEF Rename, FailActive, SetStatus, GoTo, VerifyFrame, EpilogueFrame
    <3>3. lockHeld[u] => /\ temp'[Destination[u]] = temp[Destination[u]]
                         /\ final'[Destination[u]] = final[Destination[u]]
      BY <1>11, <3>1 DEF Rename
    <3>4. final[Destination[u]] # NoFile => final'[Destination[u]] # NoFile
      BY <1>11, <2>1 DEF Rename
    <3> QED BY <3>2, <3>3, <3>4, ContentElsewhere
  <2>3. CASE t = u
    <3>1. /\ xpc[u] = "rename" /\ xpc'[u] = "complete" /\ wpc'[u] = wpc[u] /\ wpc[u] \notin Working
          /\ status[u] # "Success" /\ nextToSave' = nextToSave
      <4>1. /\ xpc[u] = "rename" /\ xpc'[u] = "complete" /\ UNCHANGED <<wpc, nextToSave>>
        BY <1>11, <2>3 DEF Rename, GoTo, VerifyFrame
      <4>2. PlaceOf(u) /\ SettledOf(u)
        OBVIOUS
      <4>3. wpc[u] \notin Working /\ status[u] # "Success"
        BY <4>1, <4>2 DEF PlaceOf, SettledOf
      <4> QED BY <4>1, <4>3
    <3>2. CASE FailActive(u)
      <4>1. ctxDone'[u] /\ status'[u] # "Success"
        BY <3>1, <3>2 DEF FailActive, SetStatus
      <4> QED BY <3>1, <4>1 DEF ContentOf, IsDead, Working
    <3>3. CASE ~FailActive(u)
      <4>1. /\ status' = status /\ temp'[Destination[u]] = NoFile
            /\ final'[Destination[u]] = Whole(u)
        BY <1>11, <2>1, <2>3, <3>3 DEF Rename
      <4>2. Whole(u) # NoFile
        OBVIOUS
      <4> QED BY <3>1, <4>1, <4>2 DEF ContentOf, Working
    <3> QED BY <3>2, <3>3
  <2> QED BY <2>2, <2>3
<1>12. ASSUME NEW t \in Transfers, Complete(t) PROVE ContentOf(u)'
  <2>1. CASE t # u
    <3>1. lockHeld[u] => Destination[t] # Destination[u] \/ UNCHANGED <<temp, final>>
      BY <1>12, <2>1, FileIsLocked DEF Complete, OneHolder, Holders, Working, LockOf, WithLock,
         IsDeadInflight
    <3> QED BY <1>12, <2>1, <3>1, ContentElsewhere DEF Complete, IsDeadInflight, GoTo, VerifyFrame,
               EpilogueFrame
  <2>2. CASE t = u
    <3>1. /\ xpc[u] = "complete" /\ wpc'[u] = wpc[u] /\ wpc[u] \notin Working
          /\ status[u] # "Success" /\ UNCHANGED <<status, final>>
          /\ xpc'[u] = IF IsDead(u) THEN "unlock" ELSE "succeed"
          /\ ~IsDead(u) => temp' = temp
      <4>1. /\ xpc[u] = "complete" /\ UNCHANGED <<wpc, status, final>>
            /\ xpc'[u] = IF IsDead(u) THEN "unlock" ELSE "succeed"
            /\ ~IsDead(u) => temp' = temp
        BY <1>12, <2>2 DEF Complete, GoTo, VerifyFrame
      <4>2. PlaceOf(u) /\ SettledOf(u)
        OBVIOUS
      <4>3. wpc[u] \notin Working /\ status[u] # "Success"
        BY <4>1, <4>2 DEF PlaceOf, SettledOf
      <4> QED BY <4>1, <4>3
    <3>2. ~IsDead(u) => temp[Destination[u]] = NoFile /\ final[Destination[u]] # NoFile
      BY <3>1 DEF ContentOf
    <3> QED BY <3>1, <3>2 DEF ContentOf, Working
  <2> QED BY <2>1, <2>2
<1>13. ASSUME NEW t \in Transfers, Succeed(t) PROVE ContentOf(u)'
  <2>1. CASE t # u
    BY <1>13, <2>1, ContentElsewhere DEF Succeed, SetStatus, GoTo, VerifyFrame, EpilogueFrame
  <2>2. CASE t = u
    BY <1>13, <2>2 DEF Succeed, SetStatus, GoTo, VerifyFrame, EpilogueFrame, ContentOf, IsDead,
       SettledOf, Unsettled, WithLock, Working, Whole, PlaceOf
  <2> QED BY <2>1, <2>2
<1>14. ASSUME NEW t \in Transfers, Unlock(t) PROVE ContentOf(u)'
  <2>1. CASE t # u
    BY <1>14, <2>1, ContentElsewhere DEF Unlock, EnsureDestinationUnlocked, GoTo, EpilogueFrame
  <2>2. CASE t = u
    BY <1>14, <2>2 DEF Unlock, EnsureDestinationUnlocked, GoTo, EpilogueFrame, ContentOf, IsDead,
       SettledOf, Unsettled, WithLock, Working, Whole, PlaceOf
  <2> QED BY <2>1, <2>2
<1>15. ASSUME NEW t \in Transfers, Report(t) PROVE ContentOf(u)'
  <2>1. CASE t # u
    BY <1>15, <2>1, ContentElsewhere DEF Report, ReportTransferDone, SubtractBytes, GoTo
  <2>2. CASE t = u
    BY <1>15, <2>2 DEF Report, ReportTransferDone, SubtractBytes, GoTo, ContentOf, IsDead,
       SettledOf, Unsettled, WithLock, Working, Whole, PlaceOf
  <2> QED BY <2>1, <2>2
<1>16. ASSUME NEW t \in Transfers, ReceiveChunk(t),
             UNCHANGED <<jptmVars, xpc, nextChunk, chunk, openFiles, final>>
      PROVE  ContentOf(u)'
  <2>1. CASE t # u
    BY <1>16, <2>1, ContentElsewhere DEF ReceiveChunk, WorkerGoesTo
  <2>2. CASE t = u
    BY <1>16, <2>2 DEF ReceiveChunk, WorkerGoesTo, ContentOf, IsDead, SettledOf, Unsettled,
       WithLock, Working, Whole, PlaceOf
  <2> QED BY <2>1, <2>2
<1>17. ASSUME NEW t \in Transfers, ChannelIsClosed(t),
             UNCHANGED <<jptmVars, xpc, nextChunk, chunk, openFiles, final>>
      PROVE  ContentOf(u)'
  <2>1. CASE t # u
    BY <1>17, <2>1, ContentElsewhere DEF ChannelIsClosed, WorkerGoesTo
  <2>2. CASE t = u
    BY <1>17, <2>2 DEF ChannelIsClosed, WorkerGoesTo, ContentOf, IsDead, SettledOf, Unsettled,
       WithLock, Working, Whole, PlaceOf
  <2> QED BY <2>1, <2>2
<1>18. ASSUME NEW t \in Transfers, WorkerIsCancelled(t),
             UNCHANGED <<jptmVars, xpc, nextChunk, chunk, openFiles, final>>
      PROVE  ContentOf(u)'
  <2>1. CASE t # u
    BY <1>18, <2>1, ContentElsewhere DEF WorkerIsCancelled, WorkerGoesTo
  <2>2. CASE t = u
    BY <1>18, <2>2 DEF WorkerIsCancelled, WorkerGoesTo, ContentOf, IsDead, SettledOf, Unsettled,
       WithLock, Working, Whole, PlaceOf
  <2> QED BY <2>1, <2>2
<1>19. ASSUME NEW t \in Transfers, ProcessAvailableChunk(t),
             UNCHANGED <<jptmVars, xpc, nextChunk, chunk, openFiles, final>>
      PROVE  ContentOf(u)'
  <2>1. CASE t # u
    BY <1>19, <2>1, ContentElsewhere DEF ProcessAvailableChunk, WorkerGoesTo
  <2>2. CASE t = u
    BY <1>19, <2>2 DEF ProcessAvailableChunk, WorkerGoesTo, ContentOf, IsDead, SettledOf,
       Unsettled, WithLock, Working, Whole, PlaceOf
  <2> QED BY <2>1, <2>2
<1>20. ASSUME NEW t \in Transfers, SaveOneChunk(t),
             UNCHANGED <<jptmVars, xpc, nextChunk, chunk, openFiles, final>>
      PROVE  ContentOf(u)'
  <2>1. CASE t # u
    <3>1. lockHeld[u] => Destination[t] # Destination[u] \/ UNCHANGED <<temp, final>>
      BY <1>20, <2>1, FileIsLocked DEF SaveOneChunk, OneHolder, Holders, Working, LockOf, WithLock,
         IsDeadInflight
    <3> QED BY <1>20, <2>1, <3>1, ContentElsewhere DEF SaveOneChunk, WorkerGoesTo, Release
  <2>2. CASE t = u
    <3>1. /\ nextToSave[u] - 1 \in 0 .. NumChunks[u] - 1
          /\ temp[Destination[u]] = FirstOf(u, nextToSave[u] - 1)
      BY <1>20, <2>2 DEF SaveOneChunk, QueueOf, ContentOf
    <3>2. /\ temp[Destination[u]] # NoFile
          /\ Append(temp[Destination[u]], <<u, nextToSave[u] - 1>>) = FirstOf(u, nextToSave[u])
      <4>1. (nextToSave[u] - 1) + 1 = nextToSave[u]
        OBVIOUS
      <4>2. FirstOf(u, nextToSave[u] - 1) # NoFile
        BY <3>1
      <4>3. Append(FirstOf(u, nextToSave[u] - 1), <<u, nextToSave[u] - 1>>) =
              FirstOf(u, (nextToSave[u] - 1) + 1)
        BY <3>1
      <4> QED BY <3>1, <4>1, <4>2, <4>3
    <3>3. /\ UNCHANGED <<status, ctxDone, xpc, final, nextToSave>> /\ status[u] # "Success"
          /\ xpc[u] \in {"schedule", "chunks", "epilogue", "flush", "flushing"}
      BY <1>20, <2>2 DEF SaveOneChunk, PlaceOf, SettledOf, Working
    <3>4. \/ wpc'[u] = "process" /\ temp'[Destination[u]] = FirstOf(u, nextToSave[u])
          \/ wpc'[u] = "cleanup"
      BY ZenonT(30), <1>20, <2>2, <3>2 DEF SaveOneChunk, WorkerGoesTo
    <3> QED BY <3>3, <3>4 DEF ContentOf
  <2> QED BY <2>1, <2>2
<1>21. ASSUME NEW t \in Transfers, WorkerExits(t),
             UNCHANGED <<jptmVars, xpc, nextChunk, chunk, openFiles, final>>
      PROVE  ContentOf(u)'
  <2>1. CASE t # u
    BY <1>21, <2>1, ContentElsewhere DEF WorkerExits, WorkerGoesTo, Release
  <2>2. CASE t = u
    BY <1>21, <2>2 DEF WorkerExits, WorkerGoesTo, Release, ContentOf, IsDead, SettledOf, Unsettled,
       WithLock, Working, Whole, PlaceOf
  <2> QED BY <2>1, <2>2
<1>22. ASSUME NEW c \in AllChunks, StartChunk(c) PROVE ContentOf(u)'
  <2>1. CASE c[1] # u
    <3>1. UNCHANGED <<wpc, xpc, nextToSave, temp, final>>
      BY <1>22 DEF StartChunk, ChunkFrame
    <3>2. status'[u] = status[u] /\ ctxDone'[u] = ctxDone[u]
      <4>1. FailActive(c[1]) \/ UNCHANGED <<status, ctxDone>>
        BY <1>22 DEF StartChunk
      <4> QED BY <2>1, <4>1, OthersGoOn
    <3> QED BY <3>1, <3>2, ContentElsewhere
  <2>2. CASE c[1] = u
    <3>1. /\ xpc[u] \in {"schedule", "chunks"} /\ status[u] # "Success"
          /\ UNCHANGED <<wpc, xpc, nextToSave, temp, final>> /\ status'[u] # "Success"
      BY <1>22, <2>2 DEF StartChunk, MoveChunk, ChunkFrame, SettledOf, PlaceOf, Unsettled
    <3> QED BY <1>22, <3>1 DEF ContentOf, IsDead
  <2> QED BY <2>1, <2>2
<1>23. ASSUME NEW c \in AllChunks, RequestFails(c) PROVE ContentOf(u)'
  <2>1. CASE c[1] # u
    <3>1. UNCHANGED <<wpc, xpc, nextToSave, temp, final>>
      BY <1>23 DEF RequestFails, ChunkFrame
    <3>2. status'[u] = status[u] /\ ctxDone'[u] = ctxDone[u]
      <4>1. FailActive(c[1]) \/ UNCHANGED <<status, ctxDone>>
        BY <1>23 DEF RequestFails
      <4> QED BY <2>1, <4>1, OthersGoOn
    <3> QED BY <3>1, <3>2, ContentElsewhere
  <2>2. CASE c[1] = u
    <3>1. /\ xpc[u] \in {"schedule", "chunks"} /\ status[u] # "Success"
          /\ UNCHANGED <<wpc, xpc, nextToSave, temp, final>> /\ status'[u] # "Success"
      BY <1>23, <2>2 DEF RequestFails, FailActive, SetStatus, MoveChunk, ChunkFrame, SettledOf,
         PlaceOf, Unsettled
    <3> QED BY <1>23, <3>1 DEF ContentOf, IsDead
  <2> QED BY <2>1, <2>2
<1>24. ASSUME NEW c \in AllChunks, ReadBody(c) PROVE ContentOf(u)'
  <2>1. CASE c[1] # u
    <3>1. UNCHANGED <<wpc, xpc, nextToSave, temp, final>>
      BY <1>24 DEF ReadBody, ChunkFrame
    <3>2. status'[u] = status[u] /\ ctxDone'[u] = ctxDone[u]
      <4>1. FailActive(c[1]) \/ UNCHANGED <<status, ctxDone>>
        BY <1>24 DEF ReadBody
      <4> QED BY <2>1, <4>1, OthersGoOn
    <3> QED BY <3>1, <3>2, ContentElsewhere
  <2>2. CASE c[1] = u
    <3>1. /\ xpc[u] \in {"schedule", "chunks"} /\ status[u] # "Success"
          /\ UNCHANGED <<wpc, xpc, nextToSave, temp, final>> /\ status'[u] # "Success"
      BY <1>24, <2>2 DEF ReadBody, Release, FailActive, SetStatus, MoveChunk, ChunkFrame,
         SettledOf, PlaceOf, Unsettled
    <3> QED BY <1>24, <3>1 DEF ContentOf, IsDead
  <2> QED BY <2>1, <2>2
<1>25. ASSUME NEW c \in AllChunks, EnqueueChunk(c) PROVE ContentOf(u)'
  <2>1. CASE c[1] # u
    <3>1. UNCHANGED <<wpc, xpc, nextToSave, temp, final>>
      BY <1>25 DEF EnqueueChunk, ChunkFrame
    <3>2. status'[u] = status[u] /\ ctxDone'[u] = ctxDone[u]
      <4>1. FailActive(c[1]) \/ UNCHANGED <<status, ctxDone>>
        BY <1>25 DEF EnqueueChunk
      <4> QED BY <2>1, <4>1, OthersGoOn
    <3> QED BY <3>1, <3>2, ContentElsewhere
  <2>2. CASE c[1] = u
    <3>1. /\ xpc[u] \in {"schedule", "chunks"} /\ status[u] # "Success"
          /\ UNCHANGED <<wpc, xpc, nextToSave, temp, final>> /\ status'[u] # "Success"
      BY <1>25, <2>2 DEF EnqueueChunk, ChannelHasRoom, Enqueue, WriterDone, Release, FailActive,
         SetStatus, MoveChunk, ChunkFrame, SettledOf, PlaceOf, Unsettled
    <3> QED BY <1>25, <3>1 DEF ContentOf, IsDead
  <2> QED BY <2>1, <2>2
<1>26. ASSUME NEW c \in AllChunks, ReportChunkBytes(c) PROVE ContentOf(u)'
  <2>1. CASE c[1] # u
    <3>1. UNCHANGED <<wpc, xpc, nextToSave, temp, final>>
      BY <1>26 DEF ReportChunkBytes, ChunkFrame
    <3>2. status'[u] = status[u] /\ ctxDone'[u] = ctxDone[u]
      <4>1. FailActive(c[1]) \/ UNCHANGED <<status, ctxDone>>
        BY <1>26 DEF ReportChunkBytes
      <4> QED BY <2>1, <4>1, OthersGoOn
    <3> QED BY <3>1, <3>2, ContentElsewhere
  <2>2. CASE c[1] = u
    <3>1. /\ xpc[u] \in {"schedule", "chunks"} /\ status[u] # "Success"
          /\ UNCHANGED <<wpc, xpc, nextToSave, temp, final>> /\ status'[u] # "Success"
      BY <1>26, <2>2 DEF ReportChunkBytes, AddChunkBytes, MoveChunk, SettledOf, PlaceOf, Unsettled
    <3> QED BY <1>26, <3>1 DEF ContentOf, IsDead
  <2> QED BY <2>1, <2>2
<1>27. ASSUME NEW c \in AllChunks, ReportChunkDone(c) PROVE ContentOf(u)'
  <2>1. CASE c[1] # u
    BY <1>27, <2>1, ContentElsewhere DEF ReportChunkDone, GoTo
  <2>2. CASE c[1] = u
    BY <1>27, <2>2 DEF ReportChunkDone, GoTo, ContentOf, IsDead, PlaceOf
  <2> QED BY <2>1, <2>2
<1>28. CASE CancelJob
  BY <1>28 DEF CancelJob, CancelContexts, EpilogueFrame, ContentOf, IsDead
<1> QED BY <1>1, <1>2, <1>3, <1>4, <1>5, <1>6, <1>7, <1>8, <1>9, <1>10, <1>11, <1>12, <1>13,
           <1>14, <1>15, <1>16, <1>17, <1>18, <1>19, <1>20, <1>21, <1>22, <1>23, <1>24, <1>25,
           <1>26, <1>27, <1>28 DEF Next, TransferStep, ChunkStep, WriterStep, WorkerStep

(* As long as the owners keep their locks, a temporary file has its owner. *)
LEMMA OwnerStays ==
    ASSUME TempIsOwned,
           \A d \in Destinations : temp'[d] # NoFile => temp[d] # NoFile,
           \A t \in Transfers :
               /\ lockHeld[t] /\ xpc[t] \notin {"create", "succeed", "unlock", "panicked"}
               /\ temp'[Destination[t]] # NoFile
               => lockHeld'[t] /\ xpc'[t] \notin {"create", "succeed", "unlock", "panicked"}
    PROVE  TempIsOwned'
BY DEF TempIsOwned, WritersTo

(* Every step keeps that a temporary file has an owner.                    *)
LEMMA TempStep ==
    ASSUME LockType, PlaceType, FileType, TempIsOwned,
           \A x \in Transfers : PlaceOf(x) /\
           LockOf(x) /\ ContentOf(x), Next
    PROVE  TempIsOwned'
<1> USE TransferAssumption, OwnerStays DEF LockType, PlaceType, FileType, InEpilogue, jptmVars,
        lockVars, byteVars, writerVars, channelVars, orderVars, capacityVars
<1>1. ASSUME NEW t \in Transfers, InitialChecks(t) PROVE TempIsOwned'
  BY <1>1 DEF InitialChecks, EndsEarly, SetStatus, GoTo
<1>2. ASSUME NEW t \in Transfers, WaitUntilLockDestination(t) PROVE TempIsOwned'
  <2>1. xpc[t] = "lock" /\ ~lockHeld[t] /\ temp' = temp
    BY <1>2 DEF WaitUntilLockDestination, LockOf, WithLock
  <2>2. \A x \in Transfers \ {t} : xpc'[x] = xpc[x] /\ lockHeld'[x] = lockHeld[x]
    BY <1>2 DEF WaitUntilLockDestination, LockDestination, GoTo
  <2> QED BY <2>1, <2>2
<1>3. ASSUME NEW t \in Transfers, CreateFile(t) PROVE TempIsOwned'
  <2>1. CASE temp' = temp
    BY <1>3, <2>1 DEF CreateFile, GoTo
  <2>2. CASE temp' # temp
    <3>1. /\ temp' = [temp EXCEPT ![Destination[t]] = <<>>] /\ lockHeld' = lockHeld
          /\ xpc' = [xpc EXCEPT ![t] = "schedule"] /\ lockHeld[t]
      BY <1>3, <2>2 DEF CreateFile, GoTo, LockOf, WithLock
    <3> SUFFICES ASSUME NEW d \in Destinations, temp'[d] # NoFile
                 PROVE  \E x \in WritersTo(d) :
                           lockHeld'[x] /\ xpc'[x] \notin {"create", "succeed", "unlock", "panicked"}
      BY DEF TempIsOwned
    <3>2. CASE d = Destination[t]
      BY <3>1, <3>2 DEF WritersTo
    <3>3. CASE d # Destination[t]
      BY <3>1, <3>3 DEF TempIsOwned, WritersTo
    <3> QED BY <3>2, <3>3
  <2> QED BY <2>1, <2>2
<1>4. ASSUME NEW t \in Transfers, ScheduleChunk(t) PROVE TempIsOwned'
  BY <1>4 DEF ScheduleChunk, Reserve, LimitFor, MoveChunk, GoTo
<1>5. ASSUME NEW t \in Transfers, EnterEpilogue(t) PROVE TempIsOwned'
  BY <1>5 DEF EnterEpilogue, SetStatus, GoTo, EpilogueFrame
<1>6. ASSUME NEW t \in Transfers, Flush(t) PROVE TempIsOwned'
  BY <1>6 DEF Flush, CloseChannel, GoTo, EpilogueFrame
<1>7. ASSUME NEW t \in Transfers, FlushReturns(t) PROVE TempIsOwned'
  BY <1>7 DEF FlushReturns, WorkerGoesTo, WriterDone, GoTo, EpilogueFrame
<1>8. ASSUME NEW t \in Transfers, CloseFile(t) PROVE TempIsOwned'
  BY <1>8 DEF CloseFile, ReleaseCapacity, FailActive, SetStatus, GoTo, EpilogueFrame
<1>9. ASSUME NEW t \in Transfers, CheckMd5(t) PROVE TempIsOwned'
  BY <1>9 DEF CheckMd5, FailActive, SetStatus, GoTo, VerifyFrame, EpilogueFrame
<1>10. ASSUME NEW t \in Transfers, CheckLength(t) PROVE TempIsOwned'
  BY <1>10 DEF CheckLength, FailActive, SetStatus, GoTo, VerifyFrame, EpilogueFrame
<1>11. ASSUME NEW t \in Transfers, Rename(t) PROVE TempIsOwned'
  BY <1>11 DEF Rename, FailActive, SetStatus, GoTo, VerifyFrame, EpilogueFrame
<1>12. ASSUME NEW t \in Transfers, Complete(t) PROVE TempIsOwned'
  <2>1. xpc[t] = "complete" /\ lockHeld' = lockHeld /\ \A x \in Transfers \ {t} : xpc'[x] = xpc[x]
    BY <1>12 DEF Complete, GoTo, VerifyFrame
  <2>2. lockHeld[t] => temp'[Destination[t]] = NoFile
    <3>1. CASE IsDead(t)
      BY <1>12, <3>1, <2>1 DEF Complete, IsDeadInflight, LockOf
    <3>2. CASE ~IsDead(t)
      BY <1>12, <3>2, <2>1 DEF Complete, ContentOf
    <3> QED BY <3>1, <3>2
  <2>3. \A d \in Destinations : temp'[d] # NoFile => temp[d] # NoFile
    BY <1>12 DEF Complete
  <2> QED BY <2>1, <2>2, <2>3
<1>13. ASSUME NEW t \in Transfers, Succeed(t) PROVE TempIsOwned'
  BY <1>13 DEF Succeed, SetStatus, GoTo, VerifyFrame, EpilogueFrame
<1>14. ASSUME NEW t \in Transfers, Unlock(t) PROVE TempIsOwned'
  <2>1. xpc[t] = "unlock" /\ temp' = temp
    BY <1>14 DEF Unlock
  <2>2. \A x \in Transfers \ {t} : xpc'[x] = xpc[x] /\ lockHeld'[x] = lockHeld[x]
    BY <1>14 DEF Unlock, EnsureDestinationUnlocked, GoTo
  <2> QED BY <2>1, <2>2
<1>15. ASSUME NEW t \in Transfers, Report(t) PROVE TempIsOwned'
  BY <1>15 DEF Report, ReportTransferDone, SubtractBytes, GoTo
<1>16. ASSUME NEW t \in Transfers, SaveOneChunk(t),
             UNCHANGED <<jptmVars, xpc, nextChunk, chunk, openFiles, final>>
      PROVE  TempIsOwned'
  BY <1>16 DEF SaveOneChunk, WorkerGoesTo, Release
<1>17. ASSUME NEW t \in Transfers,
             \/ ReceiveChunk(t) \/ ChannelIsClosed(t) \/ WorkerIsCancelled(t)
             \/ ProcessAvailableChunk(t) \/ WorkerExits(t),
             UNCHANGED <<jptmVars, xpc, nextChunk, chunk, openFiles, final>>
      PROVE  TempIsOwned'
  <2>1. UNCHANGED <<temp, lockHeld, xpc>>
    BY <1>17 DEF ReceiveChunk, WorkerGoesTo, ChannelIsClosed, WorkerIsCancelled,
         ProcessAvailableChunk, WorkerExits, Release, jptmVars, lockVars, byteVars, writerVars,
         channelVars, orderVars, capacityVars
  <2> QED BY <2>1
<1>18. ASSUME NEW c \in AllChunks, ReportChunkDone(c) PROVE TempIsOwned'
  BY <1>18 DEF ReportChunkDone, CountChunk, IsLastChunk, GoTo, MoveChunk
<1>19. ASSUME NEW c \in AllChunks,
             \/ StartChunk(c) \/ RequestFails(c) \/ ReadBody(c) \/ EnqueueChunk(c)
             \/ ReportChunkBytes(c)
      PROVE  TempIsOwned'
  <2>1. UNCHANGED <<temp, lockHeld, xpc>>
    BY <1>19 DEF StartChunk, MoveChunk, ChunkFrame, RequestFails, FailActive, SetStatus, ReadBody,
         Release, EnqueueChunk, ChannelHasRoom, Enqueue, WriterDone, ReportChunkBytes,
         AddChunkBytes, jptmVars, lockVars, byteVars, writerVars, channelVars, orderVars,
         capacityVars
  <2> QED BY <2>1
<1>20. CASE CancelJob
  BY <1>20 DEF CancelJob, CancelContexts, EpilogueFrame
<1> QED BY <1>1, <1>2, <1>3, <1>4, <1>5, <1>6, <1>7, <1>8, <1>9, <1>10, <1>11, <1>12, <1>13,
           <1>14, <1>15, <1>16, <1>17, <1>18, <1>19, <1>20 DEF Next, TransferStep, ChunkStep,
           WriterStep, WorkerStep

(* Every step keeps that the files are whole.                              *)
LEMMA FinalStep ==
    ASSUME PlaceType, FileType, FinalFilesAreWhole, \A x \in Transfers : ContentOf(x), Next
    PROVE  FinalFilesAreWhole'
<1> USE TransferAssumption DEF FileType, jptmVars, lockVars, byteVars, writerVars, channelVars,
        orderVars, capacityVars
<1>1. ASSUME NEW t \in Transfers, Rename(t) PROVE FinalFilesAreWhole'
  <2>1. temp[Destination[t]] = Whole(t)
    BY <1>1 DEF Rename, ContentOf
  <2>2. final' = final \/ final' = [final EXCEPT ![Destination[t]] = Whole(t)]
    BY <1>1, <2>1 DEF Rename
  <2>3. IsOneOf(Whole(t), WritersTo(Destination[t]))
    BY DEF IsOneOf, Whole, FirstOf, WritersTo
  <2> QED BY <2>2, <2>3 DEF FinalFilesAreWhole
<1>2. ASSUME NEW t \in Transfers,
             \/ InitialChecks(t) \/ WaitUntilLockDestination(t) \/ CreateFile(t)
             \/ ScheduleChunk(t) \/ EnterEpilogue(t) \/ Flush(t) \/ FlushReturns(t)
             \/ CloseFile(t) \/ CheckMd5(t) \/ CheckLength(t) \/ Complete(t) \/ Succeed(t)
             \/ Unlock(t) \/ Report(t)
      PROVE  FinalFilesAreWhole'
  <2>1. UNCHANGED <<final>>
    BY <1>2 DEF InitialChecks, EndsEarly, SetStatus, GoTo, WaitUntilLockDestination,
         LockDestination, CreateFile, WorkerGoesTo, ScheduleChunk, Reserve, LimitFor, MoveChunk,
         EnterEpilogue, EpilogueFrame, Flush, CloseChannel, FlushReturns, WriterDone, CloseFile,
         ReleaseCapacity, FailActive, CheckMd5, VerifyFrame, CheckLength, Complete,
         IsDeadInflight, Succeed, Unlock, EnsureDestinationUnlocked, Report, ReportTransferDone,
         SubtractBytes, jptmVars, lockVars, byteVars, writerVars, channelVars, orderVars,
         capacityVars
  <2> QED BY <2>1 DEF FinalFilesAreWhole
<1>3. ASSUME NEW t \in Transfers,
             \/ ReceiveChunk(t) \/ ChannelIsClosed(t) \/ WorkerIsCancelled(t)
             \/ ProcessAvailableChunk(t) \/ SaveOneChunk(t) \/ WorkerExits(t),
             UNCHANGED <<jptmVars, xpc, nextChunk, chunk, openFiles, final>>
      PROVE  FinalFilesAreWhole'
  <2>1. UNCHANGED <<final>>
    BY <1>3 DEF ReceiveChunk, WorkerGoesTo, ChannelIsClosed, WorkerIsCancelled,
         ProcessAvailableChunk, SaveOneChunk, Release, WorkerExits, jptmVars, lockVars,
         byteVars, writerVars, channelVars, orderVars, capacityVars
  <2> QED BY <2>1 DEF FinalFilesAreWhole
<1>4. ASSUME NEW c \in AllChunks,
             \/ StartChunk(c) \/ RequestFails(c) \/ ReadBody(c) \/ EnqueueChunk(c)
             \/ ReportChunkBytes(c) \/ ReportChunkDone(c)
      PROVE  FinalFilesAreWhole'
  <2>1. UNCHANGED <<final>>
    BY <1>4 DEF StartChunk, MoveChunk, ChunkFrame, RequestFails, FailActive, SetStatus, ReadBody,
         Release, EnqueueChunk, ChannelHasRoom, Enqueue, WriterDone, ReportChunkBytes,
         AddChunkBytes, ReportChunkDone, CountChunk, IsLastChunk, GoTo, jptmVars, lockVars,
         byteVars, writerVars, channelVars, orderVars, capacityVars
  <2> QED BY <2>1 DEF FinalFilesAreWhole
<1>5. CASE CancelJob
  BY <1>5 DEF CancelJob, CancelContexts, EpilogueFrame, FinalFilesAreWhole
<1> QED BY <1>1, <1>2, <1>3, <1>4, <1>5 DEF Next, TransferStep, ChunkStep, WriterStep, WorkerStep

-----------------------------------------------------------------------------
(* RAM: of the chunks that took some, and whose part is not yet returned.  *)

(* The chunks of u that this step schedules while u is live.               *)
Fresh(u) == {c \in Own(u) : chunk[c] = "unscheduled" /\ chunk'[c] # "unscheduled" /\ ~ctxDone[u]}

(* Only a chunk that is scheduled is needed from now on.                   *)
LEMMA NeededStep ==
    ASSUME StatusType, PlaceType, QueueType, NEW u \in Transfers, PlaceOf(u), QueueOf(u), Next
    PROVE  Needed(u)' \subseteq Needed(u) \cup Fresh(u)
<1> USE Chunks DEF StatusType, PlaceType, QueueType, jptmVars, lockVars, byteVars, writerVars,
        channelVars, orderVars, capacityVars
<1>1. ASSUME NEW t \in Transfers, CreateFile(t) PROVE Needed(u)' \subseteq Needed(u) \cup Fresh(u)
  BY <1>1 DEF CreateFile, WorkerGoesTo, Own, Needed
<1>2. ASSUME NEW t \in Transfers, ScheduleChunk(t) PROVE Needed(u)' \subseteq Needed(u) \cup Fresh(u)
  <2>1. UNCHANGED <<ctxDone, queue, unsaved, nextToSave, wpc>>
    BY <1>2 DEF ScheduleChunk
  <2>2. \A c \in Own(u) : chunk'[c] = chunk[c] \/ chunk'[c] = "queued"
    BY <1>2 DEF ScheduleChunk, MoveChunk
  <2>3. \A c \in Own(u) : chunk'[c] # chunk[c] => chunk[c] = "unscheduled"
    <3> SUFFICES ASSUME NEW c \in Own(u), chunk'[c] # chunk[c] PROVE chunk[c] = "unscheduled"
      OBVIOUS
    <3>1. c = <<t, nextChunk[t]>>
      BY <1>2 DEF ScheduleChunk, MoveChunk
    <3>2. c[1] = t /\ c[2] = nextChunk[t] /\ t = u
      BY <3>1
    <3> QED BY <1>2, <3>2 DEF ScheduleChunk, PlaceOf
  <2> QED BY <2>1, <2>2, <2>3 DEF Own, Needed, Fresh
<1>3. ASSUME NEW t \in Transfers, FlushReturns(t) PROVE Needed(u)' \subseteq Needed(u) \cup Fresh(u)
  BY <1>3 DEF FlushReturns, WorkerGoesTo, EpilogueFrame, Own, Needed
<1>4. ASSUME NEW t \in Transfers, CloseFile(t) PROVE Needed(u)' \subseteq Needed(u) \cup Fresh(u)
  <2>1. FailActive(t) \/ UNCHANGED ctxDone
    BY <1>4 DEF CloseFile
  <2>2. UNCHANGED <<queue, unsaved, nextToSave, chunk, wpc>>
    BY <1>4 DEF CloseFile, EpilogueFrame
  <2>3. ctxDone[u] => ctxDone'[u]
    BY <2>1, StaysDone
  <2> QED BY <2>2, <2>3 DEF Own, Needed
<1>5. ASSUME NEW t \in Transfers, CheckMd5(t) PROVE Needed(u)' \subseteq Needed(u) \cup Fresh(u)
  <2>1. FailActive(t) \/ UNCHANGED ctxDone
    BY <1>5 DEF CheckMd5
  <2>2. UNCHANGED <<queue, unsaved, nextToSave, chunk, wpc>>
    BY <1>5 DEF CheckMd5, VerifyFrame, EpilogueFrame
  <2>3. ctxDone[u] => ctxDone'[u]
    BY <2>1, StaysDone
  <2> QED BY <2>2, <2>3 DEF Own, Needed
<1>6. ASSUME NEW t \in Transfers, CheckLength(t) PROVE Needed(u)' \subseteq Needed(u) \cup Fresh(u)
  <2>1. FailActive(t) \/ UNCHANGED ctxDone
    BY <1>6 DEF CheckLength
  <2>2. UNCHANGED <<queue, unsaved, nextToSave, chunk, wpc>>
    BY <1>6 DEF CheckLength, VerifyFrame, EpilogueFrame
  <2>3. ctxDone[u] => ctxDone'[u]
    BY <2>1, StaysDone
  <2> QED BY <2>2, <2>3 DEF Own, Needed
<1>7. ASSUME NEW t \in Transfers, Rename(t) PROVE Needed(u)' \subseteq Needed(u) \cup Fresh(u)
  <2>1. FailActive(t) \/ UNCHANGED ctxDone
    BY <1>7 DEF Rename
  <2>2. UNCHANGED <<queue, unsaved, nextToSave, chunk, wpc>>
    BY <1>7 DEF Rename, VerifyFrame, EpilogueFrame
  <2>3. ctxDone[u] => ctxDone'[u]
    BY <2>1, StaysDone
  <2> QED BY <2>2, <2>3 DEF Own, Needed
<1>8. ASSUME NEW t \in Transfers, Report(t) PROVE Needed(u)' \subseteq Needed(u) \cup Fresh(u)
  BY <1>8 DEF Report, ReportTransferDone, Own, Needed
<1>9. ASSUME NEW t \in Transfers,
             \/ InitialChecks(t) \/ WaitUntilLockDestination(t) \/ EnterEpilogue(t) \/ Flush(t)
             \/ Complete(t) \/ Succeed(t) \/ Unlock(t)
      PROVE  Needed(u)' \subseteq Needed(u) \cup Fresh(u)
  <2>1. UNCHANGED <<ctxDone, queue, unsaved, nextToSave, chunk, wpc>>
    BY <1>9 DEF InitialChecks, EndsEarly, SetStatus, GoTo, WaitUntilLockDestination,
         LockDestination, EnterEpilogue, EpilogueFrame, Flush, CloseChannel, Complete,
         IsDeadInflight, VerifyFrame, Succeed, Unlock, EnsureDestinationUnlocked, jptmVars,
         lockVars, byteVars, writerVars, channelVars, orderVars, capacityVars
  <2> QED BY <2>1 DEF Own, Needed
<1>10. ASSUME NEW t \in Transfers, ReceiveChunk(t),
             UNCHANGED <<jptmVars, xpc, nextChunk, chunk, openFiles, final>>
      PROVE  Needed(u)' \subseteq Needed(u) \cup Fresh(u)
  <2>1. CASE t = u
    <3>1. /\ queue'[u] = Tail(queue[u]) /\ unsaved'[u] = unsaved[u] \cup {Head(queue[u])}
          /\ UNCHANGED <<ctxDone, nextToSave, chunk>> /\ wpc'[u] = "process"
      BY <1>10, <2>1 DEF ReceiveChunk, WorkerGoesTo
    <3>2. Elements(queue[u]) = Elements(queue'[u]) \cup {Head(queue[u])}
      BY <1>10, <2>1, <3>1, QueueTail DEF ReceiveChunk
    <3> QED BY <3>1, <3>2 DEF Own, Needed
  <2>2. CASE t # u
    BY <1>10, <2>2 DEF ReceiveChunk, WorkerGoesTo, Own, Needed
  <2> QED BY <2>1, <2>2
<1>11. ASSUME NEW t \in Transfers, ChannelIsClosed(t),
             UNCHANGED <<jptmVars, xpc, nextChunk, chunk, openFiles, final>>
      PROVE  Needed(u)' \subseteq Needed(u) \cup Fresh(u)
  BY <1>11 DEF ChannelIsClosed, WorkerGoesTo, Own, Needed
<1>12. ASSUME NEW t \in Transfers, WorkerIsCancelled(t),
             UNCHANGED <<jptmVars, xpc, nextChunk, chunk, openFiles, final>>
      PROVE  Needed(u)' \subseteq Needed(u) \cup Fresh(u)
  BY <1>12 DEF WorkerIsCancelled, WorkerGoesTo, Own, Needed
<1>13. ASSUME NEW t \in Transfers, ProcessAvailableChunk(t),
             UNCHANGED <<jptmVars, xpc, nextChunk, chunk, openFiles, final>>
      PROVE  Needed(u)' \subseteq Needed(u) \cup Fresh(u)
  <2>1. CASE t # u \/ UNCHANGED orderVars
    BY <1>13, <2>1 DEF ProcessAvailableChunk, WorkerGoesTo, Own, Needed
  <2>2. CASE t = u /\ ~UNCHANGED orderVars
    <3>1. /\ nextToSave[u] \in unsaved[u] /\ nextToSave'[u] = nextToSave[u] + 1
          /\ unsaved'[u] = unsaved[u] \ {nextToSave[u]} /\ wpc[u] = "process"
          /\ UNCHANGED <<ctxDone, queue, chunk>>
      BY <1>13, <2>2 DEF ProcessAvailableChunk, WorkerGoesTo
    <3>2. nextToSave'[u] - 1 = nextToSave[u]
      BY <3>1
    <3> QED BY <3>1, <3>2 DEF Own, Needed
  <2> QED BY <2>1, <2>2
<1>14. ASSUME NEW t \in Transfers, SaveOneChunk(t),
             UNCHANGED <<jptmVars, xpc, nextChunk, chunk, openFiles, final>>
      PROVE  Needed(u)' \subseteq Needed(u) \cup Fresh(u)
  BY <1>14 DEF SaveOneChunk, WorkerGoesTo, Own, Needed
<1>15. ASSUME NEW t \in Transfers, WorkerExits(t),
             UNCHANGED <<jptmVars, xpc, nextChunk, chunk, openFiles, final>>
      PROVE  Needed(u)' \subseteq Needed(u) \cup Fresh(u)
  BY <1>15 DEF WorkerExits, WorkerGoesTo, Own, Needed
<1>16. ASSUME NEW c \in AllChunks, StartChunk(c) PROVE Needed(u)' \subseteq Needed(u) \cup Fresh(u)
  <2>1. UNCHANGED <<ctxDone, queue, unsaved, nextToSave, wpc>>
    BY <1>16 DEF StartChunk
  <2>2. \A d \in Own(u) : \/ chunk'[d] = chunk[d] \/ chunk'[d] = "reportBytes"
                          \/ chunk'[d] = "downloading" /\ chunk[d] = "queued" /\ ~ctxDone[u]
    BY <1>16 DEF StartChunk, MoveChunk
  <2> QED BY <2>1, <2>2 DEF Own, Needed
<1>17. ASSUME NEW c \in AllChunks, RequestFails(c) PROVE Needed(u)' \subseteq Needed(u) \cup Fresh(u)
  <2>1. /\ UNCHANGED <<queue, unsaved, nextToSave, wpc>>
        /\ FailActive(c[1]) \/ UNCHANGED ctxDone
    BY <1>17 DEF RequestFails, ChunkFrame
  <2>2. \A d \in Own(u) : \/ chunk'[d] = chunk[d] \/ chunk'[d] \in {"reportBytes", "count", "done"}
                          \/ chunk'[d] = "enqueue" /\ chunk[d] = "downloading"
    BY <1>17 DEF RequestFails, MoveChunk
  <2>3. ctxDone[u] => ctxDone'[u]
    BY <2>1, StaysDone
  <2> QED BY <2>1, <2>2, <2>3 DEF Own, Needed
<1>18. ASSUME NEW c \in AllChunks, ReadBody(c) PROVE Needed(u)' \subseteq Needed(u) \cup Fresh(u)
  <2>1. /\ UNCHANGED <<queue, unsaved, nextToSave, wpc>>
        /\ FailActive(c[1]) \/ UNCHANGED ctxDone
    BY <1>18 DEF ReadBody, ChunkFrame
  <2>2. \A d \in Own(u) : \/ chunk'[d] = chunk[d] \/ chunk'[d] \in {"reportBytes", "count", "done"}
                          \/ chunk'[d] = "enqueue" /\ chunk[d] = "downloading"
    BY <1>18 DEF ReadBody, MoveChunk
  <2>3. ctxDone[u] => ctxDone'[u]
    BY <2>1, StaysDone
  <2> QED BY <2>1, <2>2, <2>3 DEF Own, Needed
<1>19. ASSUME NEW c \in AllChunks, EnqueueChunk(c) PROVE Needed(u)' \subseteq Needed(u) \cup Fresh(u)
  <2>1. /\ UNCHANGED <<unsaved, nextToSave, wpc>> /\ chunk[c] = "enqueue"
        /\ FailActive(c[1]) \/ UNCHANGED ctxDone
    BY <1>19 DEF EnqueueChunk, ChunkFrame
  <2>2. \A d \in Own(u) : chunk'[d] = chunk[d] \/ chunk'[d] = "reportBytes"
    BY <1>19 DEF EnqueueChunk, MoveChunk
  <2>3. ctxDone[u] => ctxDone'[u]
    BY <2>1, StaysDone
  <2>4. ASSUME NEW d \in Own(u), d[2] \in Elements(queue'[u])
        PROVE  d[2] \in Elements(queue[u]) \/ chunk[d] = "enqueue"
    <3>1. CASE queue'[u] = queue[u]
      BY <2>4, <3>1
    <3>2. CASE queue'[u] # queue[u]
      <4>1. c[1] = u /\ queue'[u] = Append(queue[u], c[2]) /\ c \in Own(u)
        BY <1>19, <3>2 DEF EnqueueChunk, Enqueue
      <4>2. Elements(queue'[u]) = Elements(queue[u]) \cup {c[2]}
        BY <4>1, Enqueued
      <4>3. d = <<u, d[2]>> /\ c = <<u, c[2]>>
        BY <4>1, OwnShape
      <4> QED BY <2>1, <2>4, <4>2, <4>3
    <3> QED BY <3>1, <3>2
  <2> QED BY <2>1, <2>2, <2>3, <2>4 DEF Own, Needed
<1>20. ASSUME NEW c \in AllChunks, ReportChunkBytes(c) PROVE Needed(u)' \subseteq Needed(u) \cup Fresh(u)
  <2>1. /\ UNCHANGED <<queue, unsaved, nextToSave, wpc>>
        /\ FailActive(c[1]) \/ UNCHANGED ctxDone
    BY <1>20 DEF ReportChunkBytes, ChunkFrame
  <2>2. \A d \in Own(u) : \/ chunk'[d] = chunk[d] \/ chunk'[d] \in {"reportBytes", "count", "done"}
                          \/ chunk'[d] = "enqueue" /\ chunk[d] = "downloading"
    BY <1>20 DEF ReportChunkBytes, MoveChunk
  <2>3. ctxDone[u] => ctxDone'[u]
    BY <2>1, StaysDone
  <2> QED BY <2>1, <2>2, <2>3 DEF Own, Needed
<1>21. ASSUME NEW c \in AllChunks, ReportChunkDone(c) PROVE Needed(u)' \subseteq Needed(u) \cup Fresh(u)
  <2>1. /\ UNCHANGED <<queue, unsaved, nextToSave, wpc>>
        /\ FailActive(c[1]) \/ UNCHANGED ctxDone
    BY <1>21 DEF ReportChunkDone, ChunkFrame
  <2>2. \A d \in Own(u) : \/ chunk'[d] = chunk[d] \/ chunk'[d] \in {"reportBytes", "count", "done"}
                          \/ chunk'[d] = "enqueue" /\ chunk[d] = "downloading"
    BY <1>21 DEF ReportChunkDone, MoveChunk
  <2>3. ctxDone[u] => ctxDone'[u]
    BY <2>1, StaysDone
  <2> QED BY <2>1, <2>2, <2>3 DEF Own, Needed
<1>22. CASE CancelJob
  BY <1>22 DEF CancelJob, CancelContexts, EpilogueFrame, Own, Needed
<1> QED BY <1>1, <1>2, <1>3, <1>4, <1>5, <1>6, <1>7, <1>8, <1>9, <1>10, <1>11, <1>12, <1>13,
           <1>14, <1>15, <1>16, <1>17, <1>18, <1>19, <1>20, <1>21, <1>22 DEF Next, TransferStep,
           ChunkStep, WriterStep, WorkerStep

(* The chunks that hold RAM are finitely many, and each transfer has its   *)
(* part of them.                                                           *)
LEMMA HeldShape ==
    ASSUME NEW held \in SUBSET AllChunks, IsFiniteSet(held), NEW t \in Transfers,
           NEW R \in SUBSET Own(t)
    PROVE  /\ \A u \in Transfers \ {t} : /\ (held \ R) \cap Own(u) = held \cap Own(u)
                                         /\ (held \cup R) \cap Own(u) = held \cap Own(u)
           /\ IsFiniteSet(held \cap R) /\ Cardinality(held \cap R) \in Nat
           /\ IsFiniteSet(held \cap Own(t)) /\ Cardinality(held \cap Own(t)) \in Nat
           /\ IsFiniteSet(R) /\ Cardinality(R) \in Nat /\ Cardinality(held) \in Nat
           /\ IsFiniteSet(held \ R)
           /\ Cardinality(held \ R) = Cardinality(held) - Cardinality(held \cap R)
<1>1. IsFiniteSet(held \cap R) /\ IsFiniteSet(held \cap Own(t)) /\ IsFiniteSet(R)
  <2>1. held \cap R \subseteq held /\ held \cap Own(t) \subseteq held
    OBVIOUS
  <2>2. IsFiniteSet(Own(t))
    BY OwnShape
  <2> QED BY <2>1, <2>2, FS_Subset
<1>2. /\ Cardinality(held \cap R) \in Nat /\ Cardinality(held \cap Own(t)) \in Nat
      /\ Cardinality(R) \in Nat /\ Cardinality(held) \in Nat
  BY <1>1, FS_CardinalityType
<1>3. /\ IsFiniteSet(held \ R)
      /\ Cardinality(held \ R) = Cardinality(held) - Cardinality(held \cap R)
  BY FS_Difference
<1>4. \A u \in Transfers \ {t} : /\ (held \ R) \cap Own(u) = held \cap Own(u)
                                 /\ (held \cup R) \cap Own(u) = held \cap Own(u)
  BY DEF Own
<1> QED BY <1>1, <1>2, <1>3, <1>4

(* A transfer's chunks are as many as their indices. *)
LEMMA PairedWith ==
    ASSUME NEW t, NEW S, IsFiniteSet(S)
    PROVE  IsFiniteSet({t} \X S) /\ Cardinality({t} \X S) = Cardinality(S)
<1>1. IsFiniteSet({t}) /\ Cardinality({t}) = 1
  BY FS_Singleton
<1>2. IsFiniteSet({t} \X S) /\ Cardinality({t} \X S) = 1 * Cardinality(S)
  BY <1>1, FS_Product
<1>3. Cardinality(S) \in Nat
  BY FS_CardinalityType
<1> QED BY <1>2, <1>3

(* Chunks are scheduled once there is a writer, and while they are in      *)
(* somebody's hands the transfer is not in its epilogue.                   *)
LEMMA PlacesOfChunks ==
    ASSUME PlaceType, NEW t \in Transfers, PlaceOf(t)
    PROVE  /\ wpc[t] = "none" => \A c \in Own(t) : chunk[c] = "unscheduled"
           /\ \A c \in Own(t) : chunk[c] \notin {"unscheduled", "done"} =>
                  xpc[t] \in {"schedule", "chunks"} /\ xpc[t] \notin AfterFlush
<1>1. ASSUME wpc[t] = "none", NEW c \in Own(t) PROVE chunk[c] = "unscheduled"
  <2>1. nextChunk[t] = 0 /\ c[2] \in Nat
    BY <1>1, Chunks DEF PlaceOf
  <2>2. c[2] >= nextChunk[t]
    BY <2>1
  <2> QED BY <2>2 DEF PlaceOf
<1>2. ASSUME NEW c \in Own(t), chunk[c] \notin {"unscheduled", "done"}
      PROVE  xpc[t] \in {"schedule", "chunks"}
  BY <1>2 DEF PlaceOf
<1> QED BY <1>1, <1>2 DEF AfterFlush

(* A transfer that goes on with the RAM it has.                            *)
LEMMA HeldOn ==
    ASSUME NEW held \in SUBSET AllChunks, NEW held2 \in SUBSET AllChunks, NEW u \in Transfers,
           HeldOf(held, u), held2 \cap Own(u) = held \cap Own(u), reserved'[u] = reserved[u],
           xpc'[u] \in AfterFlush <=> xpc[u] \in AfterFlush, Needed(u)' \subseteq Needed(u)
    PROVE  HeldOf(held2, u)'
<1>1. Own(u)' = Own(u) /\ Needed(u) \subseteq Own(u)
  BY DEF Own, Needed
<1> QED BY <1>1 DEF HeldOf

(* What it takes for the account of the RAM to be right after a step. *)
LEMMA HoldsThen ==
    ASSUME NEW held \in SUBSET AllChunks, IsFiniteSet(held),
           \A c \in held : chunk'[c] # "unscheduled", \A t \in Transfers : HeldOf(held, t)',
           ram' <= RamLimit, ram' <= Cardinality(held)
    PROVE  RamInv'
<1>1. Holds(held)'
  BY DEF Holds
<1>2. (SUBSET AllChunks)' = SUBSET AllChunks /\ (ram <= RamLimit)'
  BY DEF AllChunks
<1> QED BY <1>1, <1>2 DEF RamInv

(* A step that neither takes RAM nor gives it back.                        *)
LEMMA KeepHeld ==
    ASSUME RamInv, RamType, NEW t \in Transfers, UNCHANGED <<reserved, ram>>,
           \A u \in Transfers : Needed(u)' \subseteq Needed(u) \cup Fresh(u),
           \A c \in AllChunks : chunk'[c] = "unscheduled" <=> chunk[c] = "unscheduled",
           \A u \in Transfers \ {t} : xpc'[u] = xpc[u],
           \/ xpc'[t] \in AfterFlush <=> xpc[t] \in AfterFlush
           \/ xpc'[t] \in AfterFlush /\ \A c \in Own(t) : chunk[c] = "unscheduled"
    PROVE  RamInv'
<1>1. PICK held \in SUBSET AllChunks : Holds(held)
  BY DEF RamInv
<1>2. ASSUME NEW u \in Transfers PROVE HeldOf(held, u)'
  <2>1. Needed(u)' \subseteq Needed(u)
    BY DEF Fresh, Own
  <2>2. HeldOf(held, u)
    BY <1>1 DEF Holds
  <2>3. CASE xpc'[u] \in AfterFlush <=> xpc[u] \in AfterFlush
    BY <2>1, <2>2, <2>3, HeldOn
  <2>4. CASE xpc'[u] \in AfterFlush /\ \A c \in Own(u) : chunk[c] = "unscheduled"
    BY <1>1, <2>4 DEF HeldOf, Holds, Own
  <2> QED BY <2>3, <2>4
<1>3. Holds(held)'
  BY <1>1, <1>2 DEF Holds
<1> QED BY <1>3 DEF RamInv

(* A step that gives back the RAM of some of a transfer's chunks.          *)
LEMMA GiveBack ==
    ASSUME NEW held \in SUBSET AllChunks, Holds(held), ram <= RamLimit, RamType,
           NEW t \in Transfers, NEW R \in SUBSET Own(t), HeldOf(held \ R, t)',
           ram' \in Int, ram' <= ram - Cardinality(held \cap R),
           \A u \in Transfers \ {t} : /\ reserved'[u] = reserved[u] /\ xpc'[u] = xpc[u]
                                      /\ Needed(u)' \subseteq Needed(u) \cup Fresh(u),
           \A c \in AllChunks : chunk'[c] = "unscheduled" <=> chunk[c] = "unscheduled"
    PROVE  RamInv'
<1>1. IsFiniteSet(held)
  BY DEF Holds
<1>2. /\ IsFiniteSet(held \ R) /\ Cardinality(held \cap R) \in Nat /\ Cardinality(held) \in Nat
      /\ Cardinality(held \ R) = Cardinality(held) - Cardinality(held \cap R)
  BY <1>1, HeldShape
<1>3. \A u \in Transfers \ {t} : (held \ R) \cap Own(u) = held \cap Own(u)
  BY DEF Own
<1>4. ram' <= RamLimit /\ ram' <= Cardinality(held \ R)
  BY <1>2, WriterAssumption DEF RamType, Holds
<1>5. ASSUME NEW u \in Transfers \ {t} PROVE HeldOf(held \ R, u)'
  <2>1. Needed(u)' \subseteq Needed(u)
    BY DEF Fresh, Own
  <2>2. HeldOf(held, u) /\ held \ R \in SUBSET AllChunks
    BY DEF Holds
  <2> QED BY <1>3, <2>1, <2>2, HeldOn
<1>6. Holds(held \ R)'
  BY <1>2, <1>4, <1>5 DEF Holds
<1> QED BY <1>4, <1>6 DEF RamInv

(* The RAM of one chunk, which nobody will give back again. *)
LEMMA GiveBackOne ==
    ASSUME RamInv, RamType, NEW t \in Transfers, NEW c \in Own(t), Release(t, 1),
           c \in Needed(t), c \notin Needed(t)', xpc[t] \notin AfterFlush, UNCHANGED xpc,
           \A u \in Transfers : Needed(u)' \subseteq Needed(u) \cup Fresh(u),
           \A d \in AllChunks : chunk'[d] = "unscheduled" <=> chunk[d] = "unscheduled"
    PROVE  RamInv'
<1>1. PICK held \in SUBSET AllChunks : Holds(held)
  BY DEF RamInv
<1>2. HeldOf(held, t) /\ IsFiniteSet(held)
  BY <1>1 DEF Holds
<1>3. c \in held /\ reserved[t] = Cardinality(held \cap Own(t)) /\ Needed(t) \subseteq held
  BY <1>2 DEF HeldOf
<1>4. held \cap {c} = {c} /\ (held \ {c}) \cap Own(t) = (held \cap Own(t)) \ {c}
  BY <1>3
<1>5. Cardinality({c}) = 1
  BY FS_Singleton
<1>6. IsFiniteSet(held \cap Own(t)) /\ Cardinality(held \cap Own(t)) \in Nat
  BY <1>2, HeldShape
<1>7. Cardinality((held \ {c}) \cap Own(t)) = Cardinality(held \cap Own(t)) - 1
  BY <1>3, <1>4, <1>6, FS_RemoveElement
<1>8. ram' = ram - Cardinality(held \cap {c}) /\ ram' \in Int
  <2>1. ram' = ram - 1 /\ ram \in Int
    BY DEF Release, RamType
  <2>2. Cardinality(held \cap {c}) = 1
    BY <1>4, <1>5
  <2> QED BY <2>1, <2>2
<1>9. /\ reserved'[t] = reserved[t] - 1
      /\ \A u \in Transfers \ {t} : reserved'[u] = reserved[u]
  BY DEF Release, RamType
<1>10. HeldOf(held \ {c}, t)'
  <2>1. Own(t)' = Own(t)
    BY DEF Own
  <2>2. Needed(t)' \subseteq held \ {c}
    BY <1>3 DEF Fresh, Own
  <2>3. reserved'[t] = Cardinality((held \ {c}) \cap Own(t))
    BY <1>3, <1>7, <1>9
  <2> QED BY <2>1, <2>2, <2>3 DEF HeldOf
<1>11. ram <= RamLimit /\ {c} \in SUBSET Own(t) /\ ram' <= ram - Cardinality(held \cap {c})
  BY <1>8 DEF RamInv
<1>12. \A u \in Transfers \ {t} : /\ reserved'[u] = reserved[u] /\ xpc'[u] = xpc[u]
                                  /\ Needed(u)' \subseteq Needed(u) \cup Fresh(u)
  BY <1>9
<1> QED BY <1>1, <1>8, <1>10, <1>11, <1>12, GiveBack

(* Every step keeps the account of the RAM.                                *)
LEMMA RamStep ==
    ASSUME StatusType, PlaceType, QueueType, RamType, RamType', RamInv,
           \A x \in Transfers
           : PlaceOf(x) /\ QueueOf(x), Next
    PROVE  RamInv'
<1> USE Chunks, TransferAssumption DEF StatusType, PlaceType, QueueType, RamType, jptmVars,
        lockVars, byteVars, writerVars, channelVars, orderVars, capacityVars
<1>1. ASSUME NEW t \in Transfers, InitialChecks(t) PROVE RamInv'
  <2>1. UNCHANGED <<reserved, ram, chunk>> /\ \A x \in Transfers \ {t} : xpc'[x] = xpc[x]
    BY <1>1 DEF InitialChecks, EndsEarly, SetStatus, GoTo
  <2>2. (xpc'[t] \in AfterFlush <=> xpc[t] \in AfterFlush) \/ (xpc'[t] \in AfterFlush /\ wpc[t] = "none")
    BY <1>1 DEF InitialChecks, GoTo, AfterFlush, PlaceOf, EndsEarly
  <2>3. wpc[t] = "none" => \A c \in Own(t) : chunk[c] = "unscheduled"
    BY PlacesOfChunks
  <2> QED BY <2>1, <2>2, <2>3, NeededStep, KeepHeld
<1>2. ASSUME NEW t \in Transfers, WaitUntilLockDestination(t) PROVE RamInv'
  <2>1. UNCHANGED <<reserved, ram, chunk>> /\ \A x \in Transfers \ {t} : xpc'[x] = xpc[x]
    BY <1>2 DEF WaitUntilLockDestination, LockDestination, SetStatus, GoTo
  <2>2. xpc'[t] \in AfterFlush <=> xpc[t] \in AfterFlush
    BY <1>2 DEF WaitUntilLockDestination, GoTo, AfterFlush
  <2> QED BY <2>1, <2>2, NeededStep, KeepHeld
<1>3. ASSUME NEW t \in Transfers, CreateFile(t) PROVE RamInv'
  <2>1. UNCHANGED <<reserved, ram, chunk>> /\ \A x \in Transfers \ {t} : xpc'[x] = xpc[x]
    BY <1>3 DEF CreateFile, WorkerGoesTo, SetStatus, GoTo
  <2>2. xpc'[t] \in AfterFlush <=> xpc[t] \in AfterFlush
    BY <1>3 DEF CreateFile, GoTo, AfterFlush
  <2> QED BY <2>1, <2>2, NeededStep, KeepHeld
<1>4. ASSUME NEW t \in Transfers, ScheduleChunk(t) PROVE RamInv'
  <2> PICK c \in AllChunks : c = <<t, nextChunk[t]>>
    <3>1. <<t, nextChunk[t]>> \in Own(t)
      BY <1>4 DEF ScheduleChunk, PlaceOf
    <3> QED BY <3>1
  <2>1. /\ UNCHANGED <<ctxDone, queue, unsaved, nextToSave, wpc>> /\ xpc[t] = "schedule"
        /\ xpc'[t] \in {"schedule", "chunks"} /\ \A x \in Transfers \ {t} : xpc'[x] = xpc[x]
    BY <1>4 DEF ScheduleChunk, GoTo
  <2>2. c \in Own(t) /\ chunk[c] = "unscheduled" /\ chunk' = [chunk EXCEPT ![c] = "queued"]
    BY <1>4 DEF ScheduleChunk, MoveChunk, PlaceOf
  <2>3. PICK held \in SUBSET AllChunks : Holds(held)
    BY DEF RamInv
  <2>4. HeldOf(held, t) /\ IsFiniteSet(held) /\ c \notin held
    BY <2>2, <2>3 DEF Holds
  <2>5. \A x \in Transfers \ {t} : Needed(x)' \subseteq Needed(x)
    <3>1. \A x \in Transfers \ {t} : Fresh(x) = {}
      BY <2>2 DEF Fresh, Own
    <3> QED BY <3>1, NeededStep
  <2>6. Needed(t)' \subseteq Needed(t) \cup (IF ctxDone[t] THEN {} ELSE {c})
    <3>1. Fresh(t) \subseteq IF ctxDone[t] THEN {} ELSE {c}
      BY <2>2 DEF Fresh
    <3> QED BY <3>1, NeededStep
  <2>7. CASE UNCHANGED capacityVars /\ ctxDone[t]
    <3>1. ASSUME NEW x \in Transfers PROVE HeldOf(held, x)'
      <4>1. Needed(x)' \subseteq Needed(x)
        BY <2>5, <2>6, <2>7
      <4>2. xpc'[x] \in AfterFlush <=> xpc[x] \in AfterFlush
        BY <2>1 DEF AfterFlush
      <4>3. HeldOf(held, x)
        BY <2>3 DEF Holds
      <4> QED BY <2>7, <4>1, <4>2, <4>3, HeldOn
    <3>2. Holds(held)'
      BY <2>2, <2>3, <2>7, <3>1 DEF Holds
    <3> QED BY <2>7, <3>2 DEF RamInv
  <2>8. CASE Reserve(t)
    <3>1. /\ ram' = ram + 1 /\ ram' <= RamLimit /\ reserved'[t] = reserved[t] + 1
          /\ \A x \in Transfers \ {t} : reserved'[x] = reserved[x]
      BY <2>8, WriterAssumption DEF Reserve, LimitFor
    <3>2. /\ IsFiniteSet(held \cup {c}) /\ Cardinality(held \cup {c}) = Cardinality(held) + 1
          /\ Cardinality(held) \in Nat
      BY <2>4, FS_AddElement, FS_CardinalityType
    <3>3. ASSUME NEW x \in Transfers \ {t} PROVE HeldOf(held \cup {c}, x)'
      <4>1. (held \cup {c}) \cap Own(x) = held \cap Own(x) /\ held \cup {c} \in SUBSET AllChunks
        BY <2>2 DEF Own
      <4>2. HeldOf(held, x) /\ reserved'[x] = reserved[x] /\ xpc'[x] = xpc[x]
        BY <2>1, <2>3, <3>1 DEF Holds
      <4>3. Needed(x)' \subseteq Needed(x) /\ (xpc'[x] \in AfterFlush <=> xpc[x] \in AfterFlush)
        BY <2>5, <4>2
      <4> QED BY <4>1, <4>2, <4>3, HeldOn
    <3>4. HeldOf(held \cup {c}, t)'
      <4>1. reserved[t] = Cardinality(held \cap Own(t)) /\ Needed(t) \subseteq held
        BY <2>1, <2>4 DEF HeldOf, AfterFlush
      <4>2. IsFiniteSet(held \cap Own(t)) /\ c \notin held \cap Own(t)
        BY <2>4, FS_Subset
      <4>3. Cardinality((held \cap Own(t)) \cup {c}) = Cardinality(held \cap Own(t)) + 1
        BY <4>2, FS_AddElement
      <4>4. (held \cup {c}) \cap Own(t) = (held \cap Own(t)) \cup {c} /\ Own(t)' = Own(t)
        BY <2>2 DEF Own
      <4>5. reserved'[t] = Cardinality((held \cup {c}) \cap Own(t))
        BY <3>1, <4>1, <4>3, <4>4
      <4>6. Needed(t)' \subseteq held \cup {c}
        BY <2>6, <4>1
      <4>7. xpc'[t] \notin AfterFlush
        BY <2>1 DEF AfterFlush
      <4> QED BY <4>4, <4>5, <4>6, <4>7 DEF HeldOf
    <3>5. ram' <= Cardinality(held \cup {c})
      BY <2>3, <3>1, <3>2 DEF Holds
    <3>6. \A d \in held \cup {c} : chunk'[d] # "unscheduled"
      BY <2>2, <2>3 DEF Holds
    <3>7. \A x \in Transfers : HeldOf(held \cup {c}, x)'
      <4>1. ASSUME NEW x \in Transfers PROVE HeldOf(held \cup {c}, x)'
        <5>1. CASE x = t
          BY <3>4, <5>1
        <5>2. CASE x # t
          BY <3>3, <5>2
        <5> QED BY <5>1, <5>2
      <4> QED BY <4>1
    <3>8. held \cup {c} \in SUBSET AllChunks
      OBVIOUS
    <3> QED BY <3>1, <3>2, <3>5, <3>6, <3>7, <3>8, HoldsThen
  <2> QED BY <1>4, <2>7, <2>8 DEF ScheduleChunk
<1>5. ASSUME NEW t \in Transfers, EnterEpilogue(t) PROVE RamInv'
  <2>1. UNCHANGED <<reserved, ram, chunk>> /\ \A x \in Transfers \ {t} : xpc'[x] = xpc[x]
    BY <1>5 DEF EnterEpilogue, SetStatus, GoTo, EpilogueFrame
  <2>2. (xpc'[t] \in AfterFlush <=> xpc[t] \in AfterFlush) \/ (xpc'[t] \in AfterFlush /\ wpc[t] = "none")
    BY <1>5 DEF EnterEpilogue, GoTo, AfterFlush, PlaceOf
  <2>3. wpc[t] = "none" => \A c \in Own(t) : chunk[c] = "unscheduled"
    BY PlacesOfChunks
  <2> QED BY <2>1, <2>2, <2>3, NeededStep, KeepHeld
<1>6. ASSUME NEW t \in Transfers, Flush(t) PROVE RamInv'
  <2>1. UNCHANGED <<reserved, ram, chunk>> /\ \A x \in Transfers \ {t} : xpc'[x] = xpc[x]
    BY <1>6 DEF Flush, CloseChannel, GoTo, EpilogueFrame
  <2>2. xpc'[t] \in AfterFlush <=> xpc[t] \in AfterFlush
    BY <1>6 DEF Flush, GoTo, AfterFlush
  <2> QED BY <2>1, <2>2, NeededStep, KeepHeld
<1>7. ASSUME NEW t \in Transfers, FlushReturns(t) PROVE RamInv'
  <2>1. UNCHANGED <<reserved, ram, chunk>> /\ \A x \in Transfers \ {t} : xpc'[x] = xpc[x]
    BY <1>7 DEF FlushReturns, WorkerGoesTo, WriterDone, GoTo, EpilogueFrame
  <2>2. xpc'[t] \in AfterFlush <=> xpc[t] \in AfterFlush
    BY <1>7 DEF FlushReturns, GoTo, AfterFlush
  <2> QED BY <2>1, <2>2, NeededStep, KeepHeld
<1>8. ASSUME NEW t \in Transfers, CloseFile(t) PROVE RamInv'
  <2>1. /\ UNCHANGED <<reserved, chunk>> /\ ram' = ram - reserved[t] /\ xpc'[t] = "verify"
        /\ \A x \in Transfers \ {t} : xpc'[x] = xpc[x]
        /\ xpc[t] \notin AfterFlush
    BY <1>8 DEF CloseFile, ReleaseCapacity, GoTo, EpilogueFrame, AfterFlush
  <2>2. PICK held \in SUBSET AllChunks : Holds(held)
    BY DEF RamInv
  <2>3. reserved[t] = Cardinality(held \cap Own(t))
    BY <2>1, <2>2 DEF Holds, HeldOf
  <2>4. HeldOf(held \ Own(t), t)'
    BY <2>1 DEF HeldOf, Own, AfterFlush
  <2>5. ram <= RamLimit /\ ram' <= ram - Cardinality(held \cap Own(t)) /\ Own(t) \in SUBSET Own(t)
    BY <2>1, <2>3 DEF RamInv
  <2> QED BY <2>1, <2>2, <2>4, <2>5, NeededStep, GiveBack
<1>9. ASSUME NEW t \in Transfers, CheckMd5(t) PROVE RamInv'
  <2>1. UNCHANGED <<reserved, ram, chunk>> /\ \A x \in Transfers \ {t} : xpc'[x] = xpc[x]
    BY <1>9 DEF CheckMd5, FailActive, SetStatus, GoTo, VerifyFrame, EpilogueFrame
  <2>2. xpc'[t] \in AfterFlush <=> xpc[t] \in AfterFlush
    BY <1>9 DEF CheckMd5, GoTo, AfterFlush
  <2> QED BY <2>1, <2>2, NeededStep, KeepHeld
<1>10. ASSUME NEW t \in Transfers, CheckLength(t) PROVE RamInv'
  <2>1. UNCHANGED <<reserved, ram, chunk>> /\ \A x \in Transfers \ {t} : xpc'[x] = xpc[x]
    BY <1>10 DEF CheckLength, FailActive, SetStatus, GoTo, VerifyFrame, EpilogueFrame
  <2>2. xpc'[t] \in AfterFlush <=> xpc[t] \in AfterFlush
    BY <1>10 DEF CheckLength, GoTo, AfterFlush
  <2> QED BY <2>1, <2>2, NeededStep, KeepHeld
<1>11. ASSUME NEW t \in Transfers, Rename(t) PROVE RamInv'
  <2>1. UNCHANGED <<reserved, ram, chunk>> /\ \A x \in Transfers \ {t} : xpc'[x] = xpc[x]
    BY <1>11 DEF Rename, FailActive, SetStatus, GoTo, VerifyFrame, EpilogueFrame
  <2>2. xpc'[t] \in AfterFlush <=> xpc[t] \in AfterFlush
    BY <1>11 DEF Rename, GoTo, AfterFlush
  <2> QED BY <2>1, <2>2, NeededStep, KeepHeld
<1>12. ASSUME NEW t \in Transfers, Complete(t) PROVE RamInv'
  <2>1. UNCHANGED <<reserved, ram, chunk>> /\ \A x \in Transfers \ {t} : xpc'[x] = xpc[x]
    BY <1>12 DEF Complete, IsDeadInflight, GoTo, VerifyFrame, EpilogueFrame
  <2>2. xpc'[t] \in AfterFlush <=> xpc[t] \in AfterFlush
    BY <1>12 DEF Complete, GoTo, AfterFlush
  <2> QED BY <2>1, <2>2, NeededStep, KeepHeld
<1>13. ASSUME NEW t \in Transfers, Succeed(t) PROVE RamInv'
  <2>1. UNCHANGED <<reserved, ram, chunk>> /\ \A x \in Transfers \ {t} : xpc'[x] = xpc[x]
    BY <1>13 DEF Succeed, SetStatus, GoTo, VerifyFrame, EpilogueFrame
  <2>2. xpc'[t] \in AfterFlush <=> xpc[t] \in AfterFlush
    BY <1>13 DEF Succeed, GoTo, AfterFlush
  <2> QED BY <2>1, <2>2, NeededStep, KeepHeld
<1>14. ASSUME NEW t \in Transfers, Unlock(t) PROVE RamInv'
  <2>1. UNCHANGED <<reserved, ram, chunk>> /\ \A x \in Transfers \ {t} : xpc'[x] = xpc[x]
    BY <1>14 DEF Unlock, EnsureDestinationUnlocked, GoTo, EpilogueFrame
  <2>2. xpc'[t] \in AfterFlush <=> xpc[t] \in AfterFlush
    BY <1>14 DEF Unlock, GoTo, AfterFlush
  <2> QED BY <2>1, <2>2, NeededStep, KeepHeld
<1>15. ASSUME NEW t \in Transfers, Report(t) PROVE RamInv'
  <2>1. UNCHANGED <<reserved, ram, chunk>> /\ \A x \in Transfers \ {t} : xpc'[x] = xpc[x]
    BY <1>15 DEF Report, ReportTransferDone, SubtractBytes, GoTo
  <2>2. xpc'[t] \in AfterFlush <=> xpc[t] \in AfterFlush
    BY <1>15 DEF Report, GoTo, AfterFlush
  <2> QED BY <2>1, <2>2, NeededStep, KeepHeld
<1>16. ASSUME NEW t \in Transfers, ReceiveChunk(t),
             UNCHANGED <<jptmVars, xpc, nextChunk, chunk, openFiles, final>>
      PROVE  RamInv'
  <2>1. UNCHANGED <<reserved, ram, xpc, chunk>>
    BY <1>16 DEF ReceiveChunk
  <2> QED BY <2>1, NeededStep, KeepHeld
<1>17. ASSUME NEW t \in Transfers, ChannelIsClosed(t),
             UNCHANGED <<jptmVars, xpc, nextChunk, chunk, openFiles, final>>
      PROVE  RamInv'
  <2>1. UNCHANGED <<reserved, ram, xpc, chunk>>
    BY <1>17 DEF ChannelIsClosed
  <2> QED BY <2>1, NeededStep, KeepHeld
<1>18. ASSUME NEW t \in Transfers, WorkerIsCancelled(t),
             UNCHANGED <<jptmVars, xpc, nextChunk, chunk, openFiles, final>>
      PROVE  RamInv'
  <2>1. UNCHANGED <<reserved, ram, xpc, chunk>>
    BY <1>18 DEF WorkerIsCancelled
  <2> QED BY <2>1, NeededStep, KeepHeld
<1>19. ASSUME NEW t \in Transfers, ProcessAvailableChunk(t),
             UNCHANGED <<jptmVars, xpc, nextChunk, chunk, openFiles, final>>
      PROVE  RamInv'
  <2>1. UNCHANGED <<reserved, ram, xpc, chunk>>
    BY <1>19 DEF ProcessAvailableChunk
  <2> QED BY <2>1, NeededStep, KeepHeld
<1>20. ASSUME NEW t \in Transfers, SaveOneChunk(t),
             UNCHANGED <<jptmVars, xpc, nextChunk, chunk, openFiles, final>>
      PROVE  RamInv'
  <2> DEFINE c == <<t, nextToSave[t] - 1>>
  <2>1. /\ Release(t, 1) /\ UNCHANGED <<queue, unsaved, nextToSave, xpc, chunk>>
        /\ wpc[t] = "save" /\ wpc'[t] # "save"
    BY <1>20 DEF SaveOneChunk, WorkerGoesTo
  <2>2. nextToSave[t] > 0 /\ c \in Own(t) /\ c[2] = nextToSave[t] - 1
    BY <2>1 DEF QueueOf
  <2>3. c \in Needed(t) /\ xpc[t] \notin AfterFlush
    BY <2>1, <2>2 DEF Needed, PlaceOf, Working, AfterFlush
  <2>4. c \notin Needed(t)'
    <3>1. chunk[c] \in Arrived
      <4>1. c[2] < nextToSave[t]
        BY <2>2
      <4> QED BY <2>2, <4>1 DEF QueueOf
    <3>2. c[2] \notin Elements(queue[t]) \cup unsaved[t]
      BY <2>2 DEF QueueOf
    <3> QED BY <2>1, <3>1, <3>2 DEF Needed, Arrived
  <2> QED BY <2>1, <2>2, <2>3, <2>4, NeededStep, GiveBackOne
<1>21. ASSUME NEW t \in Transfers, WorkerExits(t),
             UNCHANGED <<jptmVars, xpc, nextChunk, chunk, openFiles, final>>
      PROVE  RamInv'
  <2> PICK R : R = {t} \X unsaved[t]
    OBVIOUS
  <2>1. /\ ram' = ram - Cardinality(unsaved[t]) /\ reserved'[t] = reserved[t] - Cardinality(unsaved[t])
        /\ \A x \in Transfers \ {t} : reserved'[x] = reserved[x]
        /\ unsaved'[t] = {} /\ wpc'[t] = "exited" /\ UNCHANGED <<queue, chunk, xpc>>
    BY <1>21 DEF WorkerExits, WorkerGoesTo, Release
  <2>2. /\ R \in SUBSET Own(t) /\ IsFiniteSet(R) /\ Cardinality(R) \in Nat
        /\ Cardinality(unsaved[t]) = Cardinality(R)
    <3>1. unsaved[t] \subseteq Chunk(t) /\ IsFiniteSet(Chunk(t))
      BY OwnShape
    <3>2. IsFiniteSet(unsaved[t]) /\ Cardinality(unsaved[t]) \in Nat
      BY <3>1, FS_Subset, FS_CardinalityType
    <3>3. IsFiniteSet(R) /\ Cardinality(R) = Cardinality(unsaved[t])
      BY <3>2, PairedWith
    <3>4. R \in SUBSET Own(t)
      BY <3>1, OwnShape
    <3> QED BY <3>2, <3>3, <3>4
  <2>3. PICK held \in SUBSET AllChunks : Holds(held)
    BY DEF RamInv
  <2>4. HeldOf(held, t) /\ IsFiniteSet(held) /\ ram <= RamLimit
    BY <2>3 DEF Holds, RamInv
  <2>5. HeldOf(held \ R, t)' /\ ram' <= ram - Cardinality(held \cap R) /\ ram' \in Int
    <3>1. CASE xpc[t] \in AfterFlush
      <4>1. held \cap R = {} /\ Own(t)' = Own(t) /\ (held \ R) \cap Own(t) = {}
        BY <2>2, <2>4, <3>1 DEF HeldOf, Own
      <4>2. Cardinality(held \cap R) = 0
        BY <4>1, FS_EmptySet
      <4>3. HeldOf(held \ R, t)'
        BY <2>1, <3>1, <4>1 DEF HeldOf
      <4>4. ram' <= ram - Cardinality(held \cap R) /\ ram' \in Int
        BY <2>1, <2>2, <4>2
      <4> QED BY <4>3, <4>4
    <3>2. CASE xpc[t] \notin AfterFlush
      <4>1. reserved[t] = Cardinality(held \cap Own(t)) /\ Needed(t) \subseteq held
        BY <2>4, <3>2 DEF HeldOf
      <4>2. ASSUME NEW d \in R PROVE d \in Needed(t) /\ d \notin Needed(t)'
        <5>1. d \in Own(t) /\ d[2] \in unsaved[t]
          BY <2>2
        <5>2. chunk[d] \in Arrived /\ d[2] \notin Elements(queue[t])
          BY <5>1 DEF QueueOf
        <5> QED BY <2>1, <5>1, <5>2 DEF Needed, Arrived
      <4>3. held \cap R = R /\ (held \ R) \cap Own(t) = (held \cap Own(t)) \ R
            /\ (held \cap Own(t)) \cap R = R /\ Own(t)' = Own(t)
        BY <2>2, <4>1, <4>2 DEF Own
      <4>4. IsFiniteSet(held \cap Own(t)) /\ Cardinality(held \cap Own(t)) \in Nat
        BY <2>4, HeldShape
      <4>5. Cardinality((held \cap Own(t)) \ R) =
                Cardinality(held \cap Own(t)) - Cardinality((held \cap Own(t)) \cap R)
        BY <4>4, FS_Difference
      <4>6. Cardinality(held \cap R) = Cardinality(R)
        BY <4>3
      <4>7. Cardinality((held \ R) \cap Own(t)) = Cardinality(held \cap Own(t)) - Cardinality(R)
        BY <4>3, <4>5
      <4>8. reserved'[t] = Cardinality((held \ R) \cap Own(t))
        BY <2>1, <2>2, <4>1, <4>7
      <4>9. Needed(t)' \subseteq held \ R
        <5>1. Needed(t)' \subseteq Needed(t)
          BY <2>1, NeededStep DEF Fresh
        <5> QED BY <4>1, <4>2, <5>1
      <4>10. xpc'[t] \notin AfterFlush
        BY <2>1, <3>2
      <4>11. HeldOf(held \ R, t)'
        BY <4>3, <4>8, <4>9, <4>10 DEF HeldOf
      <4>12. ram' <= ram - Cardinality(held \cap R) /\ ram' \in Int
        BY <2>1, <2>2, <4>6
      <4> QED BY <4>11, <4>12
    <3> QED BY <3>1, <3>2
  <2>6. \A x \in Transfers \ {t} : reserved'[x] = reserved[x] /\ xpc'[x] = xpc[x]
    BY <2>1
  <2>7. \A d \in AllChunks : chunk'[d] = "unscheduled" <=> chunk[d] = "unscheduled"
    BY <2>1
  <2>8. R \in SUBSET Own(t) /\ \A x \in Transfers : Needed(x)' \subseteq Needed(x) \cup Fresh(x)
    BY <2>2, NeededStep
  <2> QED BY <2>3, <2>4, <2>5, <2>6, <2>7, <2>8, GiveBack
<1>22. ASSUME NEW c \in AllChunks, StartChunk(c) PROVE RamInv'
  <2>1. UNCHANGED <<reserved, ram, xpc>>
    BY <1>22 DEF StartChunk, ChunkFrame
  <2>2. \A d \in AllChunks : chunk'[d] = "unscheduled" <=> chunk[d] = "unscheduled"
    BY <1>22 DEF StartChunk, MoveChunk
  <2>3. c[1] \in Transfers
    OBVIOUS
  <2> QED BY <2>1, <2>2, <2>3, NeededStep, KeepHeld
<1>23. ASSUME NEW c \in AllChunks, RequestFails(c) PROVE RamInv'
  <2>1. UNCHANGED <<reserved, ram, xpc>>
    BY <1>23 DEF RequestFails, ChunkFrame
  <2>2. \A d \in AllChunks : chunk'[d] = "unscheduled" <=> chunk[d] = "unscheduled"
    BY <1>23 DEF RequestFails, MoveChunk
  <2>3. c[1] \in Transfers
    OBVIOUS
  <2> QED BY <2>1, <2>2, <2>3, NeededStep, KeepHeld
<1>24. ASSUME NEW c \in AllChunks, ReadBody(c) PROVE RamInv'
  <2>1. CASE UNCHANGED capacityVars
    <3>1. UNCHANGED <<reserved, ram, xpc>>
      BY <1>24, <2>1 DEF ReadBody, ChunkFrame
    <3>2. \A d \in AllChunks : chunk'[d] = "unscheduled" <=> chunk[d] = "unscheduled"
      BY <1>24 DEF ReadBody, MoveChunk
    <3>3. c[1] \in Transfers
      OBVIOUS
    <3> QED BY <3>1, <3>2, <3>3, NeededStep, KeepHeld
  <2>2. CASE ~UNCHANGED capacityVars
    <3>1. /\ Release(c[1], 1) /\ chunk[c] = "downloading" /\ UNCHANGED <<queue, unsaved, nextToSave, wpc, xpc>>
          /\ chunk' = [chunk EXCEPT ![c] = "reportBytes"]
      BY <1>24, <2>2 DEF ReadBody, MoveChunk, ChunkFrame
    <3>2. \A d \in AllChunks : chunk'[d] = "unscheduled" <=> chunk[d] = "unscheduled"
      BY <3>1
    <3>3. c[1] \in Transfers /\ c \in Own(c[1]) /\ c \in Needed(c[1]) /\ xpc[c[1]] \notin AfterFlush
      <4>1. c[1] \in Transfers /\ c \in Own(c[1])
        OBVIOUS
      <4>2. xpc[c[1]] \notin AfterFlush
        BY <3>1, <4>1, PlacesOfChunks
      <4> QED BY <3>1, <4>1, <4>2 DEF Needed
    <3>4. c \notin Needed(c[1])'
      <4>1. chunk[c] \notin Arrived /\ chunk'[c] = "reportBytes"
        BY <3>1 DEF Arrived
      <4>2. /\ c[2] \notin Elements(queue[c[1]]) \cup unsaved[c[1]] /\ ~(c[2] < nextToSave[c[1]])
            /\ wpc[c[1]] = "save" => nextToSave[c[1]] > 0
        BY <3>3, <4>1 DEF QueueOf
      <4>3. wpc[c[1]] = "save" => c[2] # nextToSave[c[1]] - 1
        BY <3>3, <4>2
      <4> QED BY <3>1, <4>1, <4>2, <4>3 DEF Needed
    <3> QED BY <3>1, <3>2, <3>3, <3>4, NeededStep, GiveBackOne
  <2> QED BY <2>1, <2>2
<1>25. ASSUME NEW c \in AllChunks, EnqueueChunk(c) PROVE RamInv'
  <2>1. CASE UNCHANGED capacityVars
    <3>1. UNCHANGED <<reserved, ram, xpc>>
      BY <1>25, <2>1 DEF EnqueueChunk, ChunkFrame
    <3>2. \A d \in AllChunks : chunk'[d] = "unscheduled" <=> chunk[d] = "unscheduled"
      BY <1>25 DEF EnqueueChunk, MoveChunk
    <3>3. c[1] \in Transfers
      OBVIOUS
    <3> QED BY <3>1, <3>2, <3>3, NeededStep, KeepHeld
  <2>2. CASE ~UNCHANGED capacityVars
    <3>1. /\ Release(c[1], 1) /\ chunk[c] = "enqueue" /\ UNCHANGED <<queue, unsaved, nextToSave, wpc, xpc>>
          /\ chunk' = [chunk EXCEPT ![c] = "reportBytes"]
      BY <1>25, <2>2 DEF EnqueueChunk, MoveChunk, ChunkFrame
    <3>2. \A d \in AllChunks : chunk'[d] = "unscheduled" <=> chunk[d] = "unscheduled"
      BY <3>1
    <3>3. c[1] \in Transfers /\ c \in Own(c[1]) /\ c \in Needed(c[1]) /\ xpc[c[1]] \notin AfterFlush
      <4>1. c[1] \in Transfers /\ c \in Own(c[1])
        OBVIOUS
      <4>2. xpc[c[1]] \notin AfterFlush
        BY <3>1, <4>1, PlacesOfChunks
      <4> QED BY <3>1, <4>1, <4>2 DEF Needed
    <3>4. c \notin Needed(c[1])'
      <4>1. chunk[c] \notin Arrived /\ chunk'[c] = "reportBytes"
        BY <3>1 DEF Arrived
      <4>2. /\ c[2] \notin Elements(queue[c[1]]) \cup unsaved[c[1]] /\ ~(c[2] < nextToSave[c[1]])
            /\ wpc[c[1]] = "save" => nextToSave[c[1]] > 0
        BY <3>3, <4>1 DEF QueueOf
      <4>3. wpc[c[1]] = "save" => c[2] # nextToSave[c[1]] - 1
        BY <3>3, <4>2
      <4> QED BY <3>1, <4>1, <4>2, <4>3 DEF Needed
    <3> QED BY <3>1, <3>2, <3>3, <3>4, NeededStep, GiveBackOne
  <2> QED BY <2>1, <2>2
<1>26. ASSUME NEW c \in AllChunks, ReportChunkBytes(c) PROVE RamInv'
  <2>1. UNCHANGED <<reserved, ram, xpc>>
    BY <1>26 DEF ReportChunkBytes, ChunkFrame
  <2>2. \A d \in AllChunks : chunk'[d] = "unscheduled" <=> chunk[d] = "unscheduled"
    BY <1>26 DEF ReportChunkBytes, MoveChunk
  <2>3. c[1] \in Transfers
    OBVIOUS
  <2> QED BY <2>1, <2>2, <2>3, NeededStep, KeepHeld
<1>27. ASSUME NEW c \in AllChunks, ReportChunkDone(c) PROVE RamInv'
  <2>1. UNCHANGED <<reserved, ram>> /\ \A x \in Transfers \ {c[1]} : xpc'[x] = xpc[x]
    BY <1>27 DEF ReportChunkDone, GoTo
  <2>2. \A d \in AllChunks : chunk'[d] = "unscheduled" <=> chunk[d] = "unscheduled"
    BY <1>27 DEF ReportChunkDone, MoveChunk
  <2>3. c[1] \in Transfers /\ (xpc'[c[1]] \in AfterFlush <=> xpc[c[1]] \in AfterFlush)
    <3>1. c[1] \in Transfers /\ c \in Own(c[1]) /\ chunk[c] = "count"
      BY <1>27 DEF ReportChunkDone
    <3>2. xpc[c[1]] \notin AfterFlush
      BY <3>1, PlacesOfChunks
    <3> QED BY <1>27, <3>1, <3>2 DEF ReportChunkDone, GoTo, AfterFlush
  <2> QED BY <2>1, <2>2, <2>3, NeededStep, KeepHeld
<1>28. CASE CancelJob
  <2>1. UNCHANGED <<reserved, ram, xpc, chunk>> /\ \E t \in Transfers : TRUE
    BY <1>28 DEF CancelJob, EpilogueFrame
  <2> QED BY <2>1, NeededStep, KeepHeld
<1> QED BY <1>1, <1>2, <1>3, <1>4, <1>5, <1>6, <1>7, <1>8, <1>9, <1>10, <1>11, <1>12, <1>13,
           <1>14, <1>15, <1>16, <1>17, <1>18, <1>19, <1>20, <1>21, <1>22, <1>23, <1>24, <1>25,
           <1>26, <1>27, <1>28 DEF Next, TransferStep, ChunkStep, WriterStep, WorkerStep

-----------------------------------------------------------------------------
(* The invariant, and what it says.                                        *)

(* Nothing has been started. *)
LEMMA InitDown ==
    ASSUME Init
    PROVE  DownInv
<1> USE DEF Init, JptmInit, WriterInit
<1>1. Types
  <2>1. StatusType /\ LockType /\ CountType
    BY DEF StatusType, LockType, CountType, Unsettled
  <2>2. PlaceType /\ RamType /\ FileType
    BY DEF PlaceType, RamType, FileType
  <2>3. QueueType
    <3>1. <<>> \in Seq(Nat) /\ \A t \in Transfers : <<>> \in Seq(Chunk(t))
      OBVIOUS
    <3> QED BY <3>1 DEF QueueType
  <2> QED BY <2>1, <2>2, <2>3 DEF Types
<1>2. OneHolder
  <2>1. Holders = {}
    BY DEF Holders
  <2>2. IsFiniteSet({}) /\ Cardinality({}) = 0
    BY FS_EmptySet
  <2> QED BY <2>1, <2>2, DownloadAssumption DEF OneHolder
<1>3. TempIsOwned /\ FinalFilesAreWhole
  BY DEF TempIsOwned, FinalFilesAreWhole
<1>4. ASSUME NEW t \in Transfers PROVE PlaceOf(t) /\ LockOf(t) /\ OrderOf(t) /\ SettledOf(t)
  <2>1. \A c \in Own(t) : chunk[c] = "unscheduled" /\ c[2] >= 0 /\ c[2] \in Nat
    BY Chunks
  <2>2. PlaceOf(t)
    BY <2>1, Chunks DEF PlaceOf, WithLock, Working
  <2> QED BY <2>2 DEF LockOf, OrderOf, SettledOf, WithLock, Working, Unsettled
<1>5. ASSUME NEW t \in Transfers PROVE CountOf(t) /\ QueueOf(t) /\ ContentOf(t)
  <2>1. DoneOf(t) = {}
    BY DEF DoneOf, Own
  <2>2. CountOf(t)
    BY <2>1, FS_EmptySet DEF CountOf
  <2>3. \A c \in Own(t) : c[2] \in Nat
    BY Chunks
  <2>4. QueueOf(t)
    BY <2>3, QueueEmpty, Chunks DEF QueueOf
  <2>5. ContentOf(t)
    BY DEF ContentOf, Unsettled
  <2> QED BY <2>2, <2>4, <2>5
<1>6. RamInv
  <2>1. IsFiniteSet({}) /\ Cardinality({}) = 0
    BY FS_EmptySet
  <2>2. ASSUME NEW t \in Transfers PROVE HeldOf({}, t)
    <3>1. Needed(t) = {}
      BY QueueEmpty DEF Needed, Own
    <3>2. {} \cap Own(t) = {}
      OBVIOUS
    <3> QED BY <2>1, <3>1, <3>2 DEF HeldOf
  <2>3. Holds({})
    BY <2>1, <2>2 DEF Holds
  <2> QED BY <2>3, WriterAssumption DEF RamInv
<1> QED BY <1>1, <1>2, <1>3, <1>4, <1>5, <1>6 DEF DownInv

(* Every step keeps the invariant. *)
LEMMA NextDown ==
    ASSUME DownInv, Next
    PROVE  DownInv'
<1>1. Types /\ OneHolder /\ TempIsOwned /\ FinalFilesAreWhole /\ RamInv
  BY DEF DownInv
<1>2. \A t \in Transfers : /\ PlaceOf(t) /\ CountOf(t) /\ LockOf(t) /\ QueueOf(t)
                           /\ OrderOf(t) /\ ContentOf(t) /\ SettledOf(t)
  BY DEF DownInv
<1>3. /\ StatusType /\ LockType /\ CountType /\ PlaceType /\ QueueType /\ RamType
      /\ FileType
  BY <1>1 DEF Types
<1>4. Types'
  BY <1>1, <1>2, TypeStep
<1>5. OneHolder'
  BY <1>1, <1>2, <1>3, OneHolderStep
<1>6. TempIsOwned'
  BY <1>1, <1>2, <1>3, TempStep
<1>7. FinalFilesAreWhole'
  BY <1>1, <1>2, <1>3, FinalStep
<1>8. RamInv'
  <2>1. RamType'
    BY <1>4 DEF Types
  <2> QED BY <1>1, <1>2, <1>3, <2>1, RamStep
<1>9. ASSUME NEW t \in Transfers PROVE PlaceOf(t)' /\ CountOf(t)' /\ LockOf(t)' /\ QueueOf(t)'
  BY <1>2, <1>3, PlaceStep, CountStep, LockStep, QueueStep
<1>10. ASSUME NEW t \in Transfers PROVE OrderOf(t)' /\ ContentOf(t)' /\ SettledOf(t)'
  <2>1. SettledOf(t)'
    BY <1>2, <1>3, SettledStep
  <2>2. OrderOf(t)'
    BY <1>2, <1>3, OrderStep
  <2>3. ContentOf(t)'
    BY <1>1, <1>2, <1>3, <2>1, ContentStep
  <2> QED BY <2>1, <2>2, <2>3
<1> QED BY <1>4, <1>5, <1>6, <1>7, <1>8, <1>9, <1>10 DEF DownInv

(* ...and so does a step in which nothing happens. *)
LEMMA StutterDown ==
    ASSUME DownInv, UNCHANGED vars
    PROVE  DownInv'
<1> USE DEF vars, jptmVars, lockVars, byteVars, writerVars, channelVars, orderVars, capacityVars
<1>1. Types'
  BY DEF DownInv, Types, StatusType, LockType, CountType, PlaceType, QueueType, RamType, FileType
<1>2. OneHolder' /\ TempIsOwned' /\ FinalFilesAreWhole'
  BY DEF DownInv, OneHolder, Holders, TempIsOwned, FinalFilesAreWhole, WritersTo
<1>3. RamInv'
  BY DEF DownInv, RamInv, Holds, HeldOf, Needed, Own
<1>4. ASSUME NEW t \in Transfers
      PROVE  /\ PlaceOf(t)' /\ CountOf(t)' /\ LockOf(t)' /\ QueueOf(t)' /\ OrderOf(t)'
             /\ ContentOf(t)' /\ SettledOf(t)'
  <2>1. /\ PlaceOf(t) /\ CountOf(t) /\ LockOf(t) /\ QueueOf(t) /\ OrderOf(t) /\ ContentOf(t)
        /\ SettledOf(t)
    BY DEF DownInv
  <2>2. PlaceOf(t)' /\ LockOf(t)' /\ SettledOf(t)'
    BY <2>1 DEF PlaceOf, LockOf, SettledOf, IsDead, Own
  <2>3. CountOf(t)' /\ QueueOf(t)' /\ OrderOf(t)'
    BY <2>1 DEF CountOf, DoneOf, QueueOf, OrderOf, Own
  <2>4. ContentOf(t)'
    BY <2>1 DEF ContentOf, IsDead
  <2> QED BY <2>2, <2>3, <2>4
<1> QED BY <1>1, <1>2, <1>3, <1>4 DEF DownInv

(* The invariant holds in every state: the account of locks, chunks, files *)
(* and RAM on which the properties below rest.                             *)
THEOREM DownInvHolds == Spec => []DownInv
<1>1. Init => DownInv
  BY InitDown
<1>2. DownInv /\ [Next]_vars => DownInv'
  BY NextDown, StutterDown
<1> QED BY <1>1, <1>2, PTL DEF Spec

(* The variables have their types; the RAM and the open files are within   *)
(* their limits.                                                           *)
LEMMA DownTypeOK ==
    ASSUME DownInv
    PROVE  TypeOK
<1>1. Types /\ OneHolder /\ RamInv
  BY DEF DownInv
<1>2. openFiles \in 0 .. FileLimit
  <2>1. openFiles \in Nat /\ openFiles <= FileLimit
    BY <1>1, FS_CardinalityType DEF OneHolder
  <2> QED BY <2>1, DownloadAssumption
<1>3. ram \in Int /\ ram <= RamLimit
  BY <1>1 DEF Types, RamType, RamInv
<1>4. QueueType /\ \A t \in Transfers : queue[t] \in Seq(Chunk(t)) /\ unsaved[t] \subseteq Chunk(t)
  BY <1>1 DEF Types, QueueType
<1> QED BY <1>1, <1>2, <1>3, <1>4 DEF Types, StatusType, LockType, CountType, PlaceType,
           QueueType, RamType, FileType, TypeOK

(* Type correctness, with openFiles within FileLimit and ram within        *)
(* RamLimit however the transfers share them.                              *)
THEOREM TypeCorrect == Spec => []TypeOK
<1>1. DownInv => TypeOK
  BY DownTypeOK
<1> QED BY <1>1, DownInvHolds, PTL

(* What is renamed is whole: a file under its final name is all the chunks *)
(* of one source in order, in whatever order they were downloaded.         *)
THEOREM FilesAreWhole == Spec => []FinalFilesAreWhole
<1>1. DownInv => FinalFilesAreWhole
  BY DEF DownInv
<1> QED BY <1>1, DownInvHolds, PTL

(* A transfer reported as successful has a whole file at its destination.  *)
THEOREM SuccessIsDelivered == Spec => []SuccessMeansDelivered
<1>1. ASSUME DownInv, NEW t \in Transfers, status[t] = "Success"
      PROVE  IsOneOf(final[Destination[t]], WritersTo(Destination[t]))
  <2>1. final[Destination[t]] # NoFile
    BY <1>1 DEF DownInv, ContentOf
  <2>2. Destination[t] \in Destinations /\ FinalFilesAreWhole
    BY <1>1, TransferAssumption DEF DownInv
  <2> QED BY <2>1, <2>2 DEF FinalFilesAreWhole
<1>2. DownInv => SuccessMeansDelivered
  BY <1>1 DEF SuccessMeansDelivered
<1> QED BY <1>2, DownInvHolds, PTL

(* When every transfer is over there is no temporary file, no lock and no  *)
(* place among the open files; and no RAM, once the writers have stopped.  *)
LEMMA NothingLeft ==
    ASSUME DownInv, AllDone
    PROVE  /\ \A d \in Destinations : temp[d] = NoFile
           /\ lockedDestinations = {} /\ openFiles = 0 /\ ram <= 0
<1>1. \A t \in Transfers : xpc[t] = "done" /\ LockOf(t)
  BY DEF DownInv, AllDone
<1>2. \A t \in Transfers : ~lockHeld[t]
  BY <1>1 DEF LockOf, WithLock
<1>3. Holders = {}
  BY <1>2 DEF Holders
<1>4. lockedDestinations = {} /\ openFiles = 0
  BY <1>3, FS_EmptySet DEF DownInv, OneHolder
<1>5. \A d \in Destinations : temp[d] = NoFile
  BY <1>2 DEF DownInv, TempIsOwned, WritersTo
<1>6. ram <= 0
  <2>1. PICK held \in SUBSET AllChunks : Holds(held)
    BY DEF DownInv, RamInv
  <2>2. \A t \in Transfers : held \cap Own(t) = {}
    BY <1>1, <2>1 DEF Holds, HeldOf, AfterFlush
  <2>3. held = {}
    BY <2>2, ChunkShape
  <2> QED BY <2>1, <2>3, FS_EmptySet DEF Holds
<1> QED BY <1>4, <1>5, <1>6

(* Nothing is left behind, wherever each transfer failed or was cancelled. *)
THEOREM NothingStays == Spec => []NothingIsLeftBehind
<1>1. DownInv => NothingIsLeftBehind
  BY NothingLeft, DownTypeOK DEF NothingIsLeftBehind
<1> QED BY <1>1, DownInvHolds, PTL

(* One step, of whatever transfer.                                         *)
LockedChange ==
    \A d \in Destinations :
        (temp[d] # NoFile /\ temp'[d] = NoFile) \/ final'[d] # final[d] =>
            \E t \in WritersTo(d) : lockHeld[t] /\ xpc'[t] # xpc[t]

(* Every step changes files only under their lock.                         *)
LEMMA LockedStep ==
    ASSUME DownInv, Next
    PROVE  LockedChange
<1> USE TransferAssumption, WriterAssumption DEF jptmVars, lockVars, byteVars, writerVars,
        channelVars, orderVars, capacityVars
<1>1. ASSUME NEW t \in Transfers, CreateFile(t) PROVE LockedChange
  <2>1. final' = final /\ \A d \in Destinations : temp'[d] = temp[d] \/ temp'[d] = <<>>
    BY <1>1 DEF CreateFile, DownInv, Types, FileType
  <2>2. <<>> \in Seq(AllChunks)
    OBVIOUS
  <2>3. <<>> # NoFile
    BY <2>2
  <2> QED BY <2>1, <2>3 DEF LockedChange
<1>2. ASSUME NEW t \in Transfers, Rename(t) PROVE LockedChange
  <2>1. xpc[t] = "rename" /\ xpc' = [xpc EXCEPT ![t] = "complete"]
    BY <1>2 DEF Rename, GoTo
  <2>2. lockHeld[t] /\ xpc'[t] = "complete"
    BY <2>1 DEF DownInv, LockOf, WithLock, Types, PlaceType
  <2>3. \A d \in Destinations : d # Destination[t] => temp'[d] = temp[d] /\ final'[d] = final[d]
    BY <1>2 DEF Rename, DownInv, Types, FileType
  <2> QED BY <2>1, <2>2, <2>3 DEF LockedChange, WritersTo
<1>3. ASSUME NEW t \in Transfers, Complete(t) PROVE LockedChange
  <2>1. /\ xpc[t] = "complete" /\ xpc'[t] # "complete" /\ final' = final
        /\ temp' = temp \/ (lockHeld[t] /\ temp' = [temp EXCEPT ![Destination[t]] = NoFile])
    BY <1>3 DEF Complete, GoTo, DownInv, Types, PlaceType
  <2> QED BY <2>1 DEF LockedChange, WritersTo, DownInv, Types, FileType
<1>4. ASSUME NEW t \in Transfers,
             \/ InitialChecks(t) \/ WaitUntilLockDestination(t) \/ ScheduleChunk(t)
             \/ EnterEpilogue(t) \/ Flush(t) \/ FlushReturns(t) \/ CloseFile(t) \/ CheckMd5(t)
             \/ CheckLength(t) \/ Succeed(t) \/ Unlock(t) \/ Report(t)
      PROVE  LockedChange
  <2>1. UNCHANGED <<temp, final>>
    BY <1>4 DEF InitialChecks, EndsEarly, SetStatus, GoTo, WaitUntilLockDestination,
         LockDestination, ScheduleChunk, Reserve, LimitFor, MoveChunk, EnterEpilogue,
         EpilogueFrame, Flush, CloseChannel, FlushReturns, WorkerGoesTo, WriterDone, CloseFile,
         ReleaseCapacity, FailActive, CheckMd5, VerifyFrame, CheckLength, Succeed, Unlock,
         EnsureDestinationUnlocked, Report, ReportTransferDone, SubtractBytes, jptmVars,
         lockVars, byteVars, writerVars, channelVars, orderVars, capacityVars
  <2> QED BY <2>1 DEF LockedChange
<1>5. ASSUME NEW t \in Transfers, SaveOneChunk(t),
             UNCHANGED <<jptmVars, xpc, nextChunk, chunk, openFiles, final>>
      PROVE  LockedChange
  <2>1. final' = final /\ \A d \in Destinations : temp[d] # NoFile => temp'[d] # NoFile
    <3>1. FileType' /\ FileType
      BY TypeStep DEF DownInv, Types
    <3>2. ASSUME NEW d \in Destinations, temp[d] # NoFile PROVE temp'[d] # NoFile
      <4>1. \/ temp'[d] = temp[d]
            \/ temp'[d] = Append(temp[d], <<t, nextToSave[t] - 1>>)
        BY <1>5, <3>1, <3>2 DEF SaveOneChunk, FileType
      <4>2. temp[d] \in Seq(AllChunks) /\ <<t, nextToSave[t] - 1>> \in AllChunks
        <5>1. nextToSave[t] - 1 \in Chunk(t)
          BY <1>5, OwnShape DEF SaveOneChunk, DownInv, QueueOf, Types, QueueType
        <5> QED BY <3>1, <3>2, <5>1, OwnShape DEF FileType
      <4>3. Append(temp[d], <<t, nextToSave[t] - 1>>) \in Seq(AllChunks)
        BY <4>2
      <4> QED BY <3>2, <4>1, <4>3
    <3> QED BY <1>5, <3>2
  <2> QED BY <2>1 DEF LockedChange
<1>6. ASSUME NEW t \in Transfers,
             \/ ReceiveChunk(t) \/ ChannelIsClosed(t) \/ WorkerIsCancelled(t)
             \/ ProcessAvailableChunk(t) \/ WorkerExits(t),
             UNCHANGED <<jptmVars, xpc, nextChunk, chunk, openFiles, final>>
      PROVE  LockedChange
  <2>1. UNCHANGED <<temp, final>>
    BY <1>6 DEF ReceiveChunk, WorkerGoesTo, ChannelIsClosed, WorkerIsCancelled,
         ProcessAvailableChunk, WorkerExits, Release, jptmVars, lockVars, byteVars, writerVars,
         channelVars, orderVars, capacityVars
  <2> QED BY <2>1 DEF LockedChange
<1>7. ASSUME NEW c \in AllChunks,
             \/ StartChunk(c) \/ RequestFails(c) \/ ReadBody(c) \/ EnqueueChunk(c)
             \/ ReportChunkBytes(c) \/ ReportChunkDone(c)
      PROVE  LockedChange
  <2>1. UNCHANGED <<temp, final>>
    BY <1>7 DEF StartChunk, MoveChunk, ChunkFrame, RequestFails, FailActive, SetStatus, ReadBody,
         Release, EnqueueChunk, ChannelHasRoom, Enqueue, WriterDone, ReportChunkBytes,
         AddChunkBytes, ReportChunkDone, CountChunk, IsLastChunk, GoTo, jptmVars, lockVars,
         byteVars, writerVars, channelVars, orderVars, capacityVars
  <2> QED BY <2>1 DEF LockedChange
<1>8. CASE CancelJob
  BY <1>8 DEF CancelJob, CancelContexts, EpilogueFrame, LockedChange
<1> QED BY <1>1, <1>2, <1>3, <1>4, <1>5, <1>6, <1>7, <1>8 DEF Next, TransferStep, ChunkStep,
           WriterStep, WorkerStep

(* A file only goes away, or gets its name, in a step of a transfer that   *)
(* has the lock of that name: what a loser of the lock does leaves the     *)
(* winner's file alone.                                                    *)
THEOREM FilesAreLocked == Spec => FilesChangeUnderTheirLock
<1>1. DownInv /\ [Next]_vars => [LockedChange]_vars
  BY LockedStep
<1>2. [][LockedChange]_vars => FilesChangeUnderTheirLock
  BY PTL DEF LockedChange, FilesChangeUnderTheirLock
<1> QED BY <1>1, <1>2, DownInvHolds, PTL DEF Spec
-----------------------------------------------------------------------------
(* Exactly whose RAM is counted, when no chunk fails and nobody cancels.   *)
NothingHappens ==
    FaultyReads = {} /\ FaultyWrites = {} /\ FaultyEnds = {} /\ ~JobMayBeCancelled

(* Then no transfer is dead before it is over, its worker only stops when  *)
(* it has all chunks, and Flush meets it.                                  *)
Undisturbed(t) ==
    /\ ctxDone[t] => xpc[t] = "done"
    /\ xpc[t] # "flushFailed"
    /\ wpc[t] \in {"cleanup", "exited"} =>
           xpc[t] \in {"flushed"} \cup AfterFlush /\ nextToSave[t] = NumChunks[t]

(* The chunks that are scheduled and not saved: of each transfer as many   *)
(* as it has reserved, and of all together as many as are counted.         *)
Pending == {c \in AllChunks : chunk[c] # "unscheduled" /\ ~IsSaved(c)}

RamOfPending ==
    /\ IsFiniteSet(Pending) /\ ram = Cardinality(Pending)
    /\ \A t \in Transfers : reserved[t] = Cardinality(Pending \cap Own(t))

UndisturbedInv == RamOfPending /\ \A t \in Transfers : Undisturbed(t)

(* All chunks of a transfer have come when its worker finds the channel    *)
(* closed and empty.                                                       *)
LEMMA AllSaved ==
    ASSUME DownInv, NEW t \in Transfers, xpc[t] = "flushing", wpc[t] = "sendMd5", ~ctxDone[t]
    PROVE  nextToSave[t] = NumChunks[t]
<1>1. PlaceType /\ QueueType /\ PlaceOf(t) /\ QueueOf(t) /\ OrderOf(t)
  BY DEF DownInv, Types
<1>2. nextToSave[t] \in Nat /\ NumChunks[t] \in Nat \ {0} /\ nextToSave[t] <= NumChunks[t]
  BY <1>1, OwnShape DEF QueueType, QueueOf
<1>3. SUFFICES ASSUME nextToSave[t] < NumChunks[t] PROVE FALSE
  BY <1>2
<1>4. nextToSave[t] \in Chunk(t)
  BY <1>2, <1>3, OwnShape
<1>5. <<t, nextToSave[t]>> \in Own(t)
  BY <1>4, OwnShape
<1>6. nextChunk[t] = NumChunks[t]
  BY <1>1 DEF PlaceOf
<1>7. chunk[<<t, nextToSave[t]>>] = "done"
  BY <1>1, <1>3, <1>5, <1>6, <1>2 DEF PlaceOf
<1>8. /\ nextToSave[t] \in Elements(queue[t]) \cup unsaved[t] /\ nextToSave[t] \notin unsaved[t]
      /\ queue[t] = <<>>
  BY <1>1, <1>2, <1>5, <1>7 DEF OrderOf, Working, Arrived
<1> QED BY <1>8, QueueEmpty

(* Nothing disturbs a transfer.                                            *)
LEMMA UndisturbedStep ==
    ASSUME NothingHappens, DownInv, \A u \in Transfers : Undisturbed(u), Next,
           NEW t \in Transfers
    PROVE  Undisturbed(t)'
<1> USE Chunks DEF jptmVars, lockVars, byteVars, writerVars, channelVars, orderVars,
        capacityVars
<1>1. /\ StatusType /\ PlaceType /\ QueueType
      /\ \A u \in Transfers : PlaceOf(u) /\ QueueOf(u) /\ ContentOf(u) /\ Undisturbed(u)
  BY DEF DownInv, Types
<1>2. ASSUME NEW u \in Transfers, CloseFile(u)
      PROVE  Undisturbed(t)'
  <2>1. xpc[u] = "flushed" /\ UNCHANGED <<ctxDone, wpc, nextToSave>>
    BY <1>1, <1>2 DEF CloseFile, NothingHappens, Undisturbed, EpilogueFrame
  <2>2. GoTo(u, "verify") /\ ~ctxDone[u]
    BY <1>1, <1>2, <2>1 DEF CloseFile, Undisturbed
  <2> QED BY <1>1, <2>1, <2>2 DEF GoTo, PlaceType, Undisturbed, AfterFlush
<1>3. ASSUME NEW u \in Transfers, CheckMd5(u) \/ CheckLength(u)
      PROVE  Undisturbed(t)'
  <2>1. UNCHANGED <<ctxDone, wpc, nextToSave>>
    BY <1>3 DEF CheckMd5, CheckLength, NothingHappens, VerifyFrame, EpilogueFrame
  <2>2. /\ xpc[u] \in AfterFlush /\ ~ctxDone[u]
        /\ \E pc \in AfterFlush : GoTo(u, pc)
    BY <1>1, <1>3 DEF CheckMd5, CheckLength, Undisturbed, AfterFlush
  <2> QED BY <1>1, <2>1, <2>2 DEF GoTo, PlaceType, Undisturbed, AfterFlush
<1>4. ASSUME NEW u \in Transfers, Rename(u)
      PROVE  Undisturbed(t)'
  <2>1. temp[Destination[u]] # NoFile
    <3>1. temp[Destination[u]] = Whole(u)
      BY <1>1, <1>4 DEF Rename, ContentOf
    <3> QED BY <3>1, FirstChunks
  <2>2. UNCHANGED <<ctxDone, wpc, nextToSave>>
    BY <1>4, <2>1 DEF Rename, NothingHappens, VerifyFrame, EpilogueFrame
  <2>3. xpc[u] \in AfterFlush /\ ~ctxDone[u] /\ GoTo(u, "complete")
    BY <1>1, <1>4 DEF Rename, Undisturbed, AfterFlush
  <2> QED BY <1>1, <2>2, <2>3 DEF GoTo, PlaceType, Undisturbed, AfterFlush
<1>5. ASSUME NEW u \in Transfers, Complete(u) \/ Succeed(u) \/ Unlock(u)
      PROVE  Undisturbed(t)'
  <2>1. UNCHANGED <<ctxDone, wpc, nextToSave>>
    BY <1>5 DEF Complete, Succeed, Unlock, VerifyFrame, EpilogueFrame
  <2>2. /\ xpc[u] \in AfterFlush /\ ~ctxDone[u]
        /\ \E pc \in AfterFlush : GoTo(u, pc)
    BY <1>1, <1>5 DEF Complete, Succeed, Unlock, Undisturbed, AfterFlush
  <2> QED BY <1>1, <2>1, <2>2 DEF GoTo, PlaceType, Undisturbed, AfterFlush
<1>6. ASSUME NEW u \in Transfers, Report(u)
      PROVE  Undisturbed(t)'
  <2>1. /\ UNCHANGED <<wpc, nextToSave>> /\ GoTo(u, "done") /\ xpc[u] \in AfterFlush
        /\ ctxDone' = [ctxDone EXCEPT ![u] = TRUE]
    BY <1>6 DEF Report, ReportTransferDone, AfterFlush
  <2> QED BY <1>1, <2>1 DEF GoTo, PlaceType, StatusType, Undisturbed, AfterFlush
<1>7. ASSUME NEW u \in Transfers, FlushReturns(u)
      PROVE  Undisturbed(t)'
  <2>1. xpc[u] = "flushing" /\ ~ctxDone[u] /\ UNCHANGED <<ctxDone, nextToSave>>
    BY <1>1, <1>7 DEF FlushReturns, Undisturbed, EpilogueFrame
  <2>2. wpc[u] = "sendMd5" /\ WorkerGoesTo(u, "cleanup") /\ GoTo(u, "flushed")
    BY <1>1, <1>7, <2>1 DEF FlushReturns, WriterDone, Undisturbed, AfterFlush
  <2>3. nextToSave[u] = NumChunks[u]
    BY <2>1, <2>2, AllSaved
  <2> QED BY <1>1, <2>1, <2>2, <2>3 DEF GoTo, WorkerGoesTo, PlaceType, Undisturbed, AfterFlush
<1>8. ASSUME NEW u \in Transfers,
             \/ InitialChecks(u) \/ WaitUntilLockDestination(u) \/ CreateFile(u)
             \/ ScheduleChunk(u) \/ EnterEpilogue(u) \/ Flush(u)
      PROVE  Undisturbed(t)'
  <2>1. UNCHANGED <<ctxDone, nextToSave>>
    BY <1>8 DEF InitialChecks, WaitUntilLockDestination, CreateFile, ScheduleChunk, Reserve,
       EnterEpilogue, Flush, EpilogueFrame
  <2>2. /\ ~ctxDone[u] /\ xpc[u] \notin {"flushed"} \cup (AfterFlush \ {"report"})
        /\ wpc[u] \notin {"cleanup", "exited"}
    BY <1>1, <1>8 DEF InitialChecks, WaitUntilLockDestination, CreateFile, ScheduleChunk,
       EnterEpilogue, Flush, Undisturbed, AfterFlush
  <2>3. /\ wpc' = wpc \/ WorkerGoesTo(u, "select")
        /\ \E pc \in {"report", "lock", "create", "epilogue", "schedule", "chunks", "complete",
                      "flush", "flushing"} : GoTo(u, pc)
    BY <1>8 DEF InitialChecks, EndsEarly, WaitUntilLockDestination, CreateFile, ScheduleChunk,
       EnterEpilogue, Flush, EpilogueFrame
  <2> QED BY <1>1, <2>1, <2>2, <2>3 DEF GoTo, WorkerGoesTo, PlaceType, Undisturbed, AfterFlush
<1>9. ASSUME NEW u \in Transfers, WriterStep(u)
      PROVE  Undisturbed(t)'
  <2>1. UNCHANGED <<ctxDone, xpc>>
    BY <1>9 DEF WriterStep
  <2>2. CASE WorkerExits(u)
    <3>1. wpc[u] = "cleanup" /\ WorkerGoesTo(u, "exited") /\ UNCHANGED nextToSave
      BY <2>2 DEF WorkerExits
    <3> QED BY <1>1, <2>1, <3>1 DEF WorkerGoesTo, PlaceType, Undisturbed
  <2>3. CASE ~WorkerExits(u)
    <3>1. wpc[u] \in Working /\ ~ctxDone[u]
      BY <1>1, <1>9, <2>3 DEF WriterStep, WorkerStep, ReceiveChunk, ChannelIsClosed,
         WorkerIsCancelled, ProcessAvailableChunk, SaveOneChunk, Working, PlaceOf, Undisturbed
    <3>2. \E pc \in Working : WorkerGoesTo(u, pc)
      BY <1>9, <2>3, <3>1 DEF WriterStep, WorkerStep, ReceiveChunk, ChannelIsClosed,
         WorkerIsCancelled, ProcessAvailableChunk, SaveOneChunk, Working, NothingHappens
    <3>3. \A v \in Transfers \ {u} : nextToSave'[v] = nextToSave[v]
      BY <1>1, <1>9, <2>3 DEF WriterStep, WorkerStep, ReceiveChunk, ChannelIsClosed,
         WorkerIsCancelled, ProcessAvailableChunk, SaveOneChunk, QueueType
    <3>4. /\ wpc'[u] \in Working
          /\ \A v \in Transfers \ {u} : wpc'[v] = wpc[v]
      BY <1>1, <3>2 DEF WorkerGoesTo, PlaceType, Working
    <3> QED BY <1>1, <2>1, <3>3, <3>4 DEF Undisturbed, Working
  <2> QED BY <2>2, <2>3
<1>10. ASSUME NEW c \in AllChunks, ChunkStep(c)
       PROVE  Undisturbed(t)'
  <2>1. ~ctxDone[c[1]] \/ chunk[c] \notin {"downloading", "enqueue"}
    BY <1>1 DEF PlaceOf, Undisturbed
  <2>2. chunk[c] = "enqueue" => ~WriterDone(c[1])
    BY <1>1 DEF PlaceOf, Undisturbed, WriterDone, AfterFlush
  <2>3. UNCHANGED <<ctxDone, wpc, nextToSave>>
    BY <1>10, <2>1, <2>2 DEF ChunkStep, StartChunk, RequestFails, ReadBody, EnqueueChunk,
       ReportChunkBytes, ReportChunkDone, ChunkFrame, NothingHappens
  <2>4. xpc' = xpc \/ (GoTo(c[1], "epilogue") /\ chunk[c] = "count")
    BY <1>10 DEF ChunkStep, StartChunk, RequestFails, ReadBody, EnqueueChunk,
       ReportChunkBytes, ReportChunkDone, ChunkFrame
  <2>5. chunk[c] = "count" => ~ctxDone[c[1]] /\ wpc[c[1]] \notin {"cleanup", "exited"}
    BY <1>1 DEF PlaceOf, Undisturbed, AfterFlush
  <2> QED BY <1>1, <2>3, <2>4, <2>5 DEF GoTo, PlaceType, Undisturbed, AfterFlush
<1>11. ~CancelJob
  BY DEF CancelJob, NothingHappens
<1> QED BY <1>2, <1>3, <1>4, <1>5, <1>6, <1>7, <1>8, <1>9, <1>10, <1>11
        DEF Next, TransferStep

(* A step that schedules no chunk and saves none leaves the count.         *)
LEMMA PendingStays ==
    ASSUME RamOfPending, Pending' = Pending, UNCHANGED <<ram, reserved>>
    PROVE  RamOfPending'
<1>1. IsFiniteSet(Pending') /\ ram' = Cardinality(Pending')
  BY DEF RamOfPending
<1>2. ASSUME NEW t \in Transfers
      PROVE  reserved'[t] = Cardinality(Pending' \cap Own(t))
  BY DEF RamOfPending
<1>3. \A t \in Transfers : Own(t)' = Own(t)
  BY DEF Own
<1> QED BY <1>1, <1>2, <1>3 DEF RamOfPending

(* What a step has to keep for no chunk to be saved or scheduled by it.    *)
LEMMA SamePending ==
    ASSUME PlaceType, QueueType,
           \A c \in AllChunks : chunk'[c] = "unscheduled" <=> chunk[c] = "unscheduled",
           \A u \in Transfers :
               /\ wpc[u] = "save" => wpc'[u] = "save" /\ nextToSave'[u] = nextToSave[u]
               /\ wpc[u] # "save" =>
                    \/ wpc'[u] # "save" /\ nextToSave'[u] = nextToSave[u]
                    \/ wpc'[u] = "save" /\ nextToSave'[u] = nextToSave[u] + 1
    PROVE  Pending' = Pending
<1>1. ASSUME NEW c \in AllChunks
      PROVE  IsSaved(c)' <=> IsSaved(c)
  <2>1. c[1] \in Transfers /\ c[2] \in Nat /\ nextToSave[c[1]] \in Nat
    BY Chunks DEF QueueType
  <2> QED BY <2>1 DEF IsSaved
<1> QED BY <1>1 DEF Pending

(* One more chunk of a transfer is pending, or one less.                   *)
LEMMA PendingMore ==
    ASSUME RamOfPending, RamType, NEW t \in Transfers, NEW c \in Own(t), c \notin Pending,
           Pending' = Pending \cup {c}, ram' = ram + 1,
           reserved' = [reserved EXCEPT ![t] = @ + 1]
    PROVE  RamOfPending'
<1>1. IsFiniteSet(Pending) /\ IsFiniteSet(Pending \cap Own(t))
  BY FS_Intersection DEF RamOfPending
<1>2. /\ IsFiniteSet(Pending \cup {c}) /\ Cardinality(Pending \cup {c}) = Cardinality(Pending) + 1
  BY <1>1, FS_AddElement
<1>3. Cardinality((Pending \cap Own(t)) \cup {c}) = Cardinality(Pending \cap Own(t)) + 1
  BY <1>1, FS_AddElement
<1>4. /\ (Pending \cup {c}) \cap Own(t) = (Pending \cap Own(t)) \cup {c}
      /\ \A u \in Transfers \ {t} : (Pending \cup {c}) \cap Own(u) = Pending \cap Own(u)
  BY DEF Own
<1>5. IsFiniteSet(Pending') /\ ram' = Cardinality(Pending')
  BY <1>2 DEF RamOfPending
<1>6. ASSUME NEW u \in Transfers
      PROVE  reserved'[u] = Cardinality(Pending' \cap Own(u))
  <2>1. CASE u = t
    BY <2>1, <1>3, <1>4 DEF RamOfPending, RamType
  <2>2. CASE u # t
    BY <2>2, <1>4 DEF RamOfPending, RamType
  <2> QED BY <2>1, <2>2
<1>7. \A u \in Transfers : Own(u)' = Own(u)
  BY DEF Own
<1> QED BY <1>5, <1>6, <1>7 DEF RamOfPending

(* ...or one is saved, and its RAM given back. *)
LEMMA PendingLess ==
    ASSUME RamOfPending, RamType, NEW t \in Transfers, NEW c \in Own(t), c \in Pending,
           Pending' = Pending \ {c}, Release(t, 1)
    PROVE  RamOfPending'
<1>1. IsFiniteSet(Pending) /\ IsFiniteSet(Pending \cap Own(t))
  BY FS_Intersection DEF RamOfPending
<1>2. /\ IsFiniteSet(Pending \ {c}) /\ Cardinality(Pending \ {c}) = Cardinality(Pending) - 1
  BY <1>1, FS_RemoveElement
<1>3. Cardinality((Pending \cap Own(t)) \ {c}) = Cardinality(Pending \cap Own(t)) - 1
  BY <1>1, FS_RemoveElement
<1>4. /\ (Pending \ {c}) \cap Own(t) = (Pending \cap Own(t)) \ {c}
      /\ \A u \in Transfers \ {t} : (Pending \ {c}) \cap Own(u) = Pending \cap Own(u)
  BY DEF Own
<1>5. IsFiniteSet(Pending') /\ ram' = Cardinality(Pending')
  BY <1>2 DEF RamOfPending, Release
<1>6. ASSUME NEW u \in Transfers
      PROVE  reserved'[u] = Cardinality(Pending' \cap Own(u))
  <2>1. CASE u = t
    BY <2>1, <1>3, <1>4 DEF RamOfPending, RamType, Release
  <2>2. CASE u # t
    BY <2>2, <1>4 DEF RamOfPending, RamType, Release
  <2> QED BY <2>1, <2>2
<1>7. \A u \in Transfers : Own(u)' = Own(u)
  BY DEF Own
<1> QED BY <1>5, <1>6, <1>7 DEF RamOfPending

(* A worker that has stopped has saved all, so that nothing is given back  *)
(* by it or by Flush a second time.                                        *)
LEMMA NothingPending ==
    ASSUME DownInv, RamOfPending, NEW t \in Transfers, Undisturbed(t),
           wpc[t] \in {"cleanup", "exited"}
    PROVE  reserved[t] = 0 /\ unsaved[t] = {}
<1>1. nextToSave[t] = NumChunks[t] /\ QueueType /\ QueueOf(t)
  BY DEF DownInv, Types, Undisturbed
<1>2. Pending \cap Own(t) = {}
  <2>1. ASSUME NEW c \in Own(t)
        PROVE  IsSaved(c)
    BY <1>1, Chunks DEF IsSaved
  <2> QED BY <2>1 DEF Pending
<1>3. unsaved[t] = {}
  <2>1. ASSUME NEW i \in unsaved[t]
        PROVE  i \in 0 .. NumChunks[t] - 1 /\ i >= NumChunks[t]
    BY <1>1, OwnShape DEF QueueType, QueueOf
  <2> QED BY <2>1, Chunks
<1> QED BY <1>2, <1>3, FS_EmptySet DEF RamOfPending

(* Every step counts the RAM of the pending chunks.                        *)
LEMMA PendingStep ==
    ASSUME NothingHappens, DownInv, RamOfPending, \A u \in Transfers : Undisturbed(u), Next
    PROVE  RamOfPending'
<1> USE DEF jptmVars, lockVars, byteVars, writerVars, channelVars, orderVars, capacityVars
<1>1. /\ StatusType /\ PlaceType /\ QueueType /\ RamType
      /\ \A u \in Transfers : PlaceOf(u) /\ QueueOf(u) /\ Undisturbed(u)
  BY DEF DownInv, Types
<1>2. ASSUME NEW u \in Transfers, ScheduleChunk(u)
      PROVE  RamOfPending'
  <2> DEFINE c == <<u, nextChunk[u]>>
  <2>1. /\ xpc[u] = "schedule" /\ ~ctxDone[u] /\ nextChunk[u] \in Nat
        /\ nextChunk[u] < NumChunks[u] /\ nextToSave[u] \in Nat
    BY <1>1, <1>2 DEF ScheduleChunk, Undisturbed, PlaceOf, PlaceType, QueueType
  <2>2. /\ ram' = ram + 1 /\ reserved' = [reserved EXCEPT ![u] = @ + 1]
        /\ chunk' = [chunk EXCEPT ![c] = "queued"] /\ UNCHANGED <<wpc, nextToSave>>
    BY <1>2, <2>1 DEF ScheduleChunk, Reserve, MoveChunk
  <2>3. c \in Own(u) /\ c \in AllChunks /\ c[1] = u /\ c[2] = nextChunk[u]
    BY <2>1, OwnShape
  <2>4. chunk[c] = "unscheduled"
    BY <1>1, <2>1, <2>3 DEF PlaceOf
  <2>5. nextChunk[u] >= nextToSave[u]
    BY <1>1, <2>1, <2>3, <2>4 DEF QueueOf, Arrived
  <2> HIDE DEF c
  <2>6. ~IsSaved(c)
    BY <2>1, <2>3, <2>5 DEF IsSaved
  <2>7. \A d \in AllChunks : IsSaved(d)' <=> IsSaved(d)
    BY <2>2 DEF IsSaved
  <2>8. chunk'[c] = "queued" /\ \A d \in AllChunks : d # c => chunk'[d] = chunk[d]
    BY <1>1, <2>2, <2>3 DEF PlaceType
  <2>9. Pending' = Pending \cup {c} /\ c \notin Pending
    BY <2>3, <2>4, <2>6, <2>7, <2>8 DEF Pending
  <2> QED BY <1>1, <2>2, <2>3, <2>9, PendingMore
<1>3. ASSUME NEW u \in Transfers, SaveOneChunk(u), UNCHANGED chunk
      PROVE  RamOfPending'
  <2>1. /\ wpc[u] = "save" /\ Release(u, 1) /\ UNCHANGED nextToSave
        /\ WorkerGoesTo(u, "process")
    BY <1>3 DEF SaveOneChunk, NothingHappens
  <2>2. nextToSave[u] \in Nat /\ nextToSave[u] > 0 /\ nextToSave[u] <= NumChunks[u]
    BY <1>1, <2>1 DEF QueueOf, QueueType
  <2>3. PICK c \in Own(u) : c \in AllChunks /\ c[1] = u /\ c[2] = nextToSave[u] - 1
    <3>1. <<u, nextToSave[u] - 1>> \in Own(u)
      BY <2>2, OwnShape
    <3> QED BY <3>1, OwnShape
  <2>4. chunk[c] # "unscheduled"
    BY <1>1, <2>2, <2>3 DEF QueueOf, Arrived
  <2>5. UNCHANGED chunk
    BY <1>3
  <2>6. wpc'[u] = "process" /\ \A v \in Transfers \ {u} : wpc'[v] = wpc[v]
    BY <1>1, <2>1 DEF WorkerGoesTo, PlaceType
  <2>7. ~IsSaved(c) /\ IsSaved(c)'
    BY <2>1, <2>2, <2>3, <2>6 DEF IsSaved
  <2>8. ASSUME NEW d \in AllChunks, d # c
        PROVE  IsSaved(d)' <=> IsSaved(d)
    <3>1. d[1] \in Transfers /\ d[2] \in Nat /\ d = <<d[1], d[2]>>
      BY ChunkShape, Chunks
    <3>2. d[1] = u => d[2] # nextToSave[u] - 1
      BY <3>1, <2>3, <2>8, ChunkShape
    <3>3. CASE d[1] = u
      BY <3>1, <3>3, <2>1, <2>2, <2>6, <3>2 DEF IsSaved
    <3>4. CASE d[1] # u
      BY <3>1, <3>4, <2>1, <2>6 DEF IsSaved
    <3> QED BY <3>3, <3>4
  <2>9. Pending' = Pending \ {c} /\ c \in Pending
    <3>1. c \in Pending /\ c \notin Pending'
      BY <2>3, <2>4, <2>7 DEF Pending
    <3>2. ASSUME NEW d \in AllChunks, d # c
          PROVE  d \in Pending' <=> d \in Pending
      BY <2>5, <2>8, <3>2 DEF Pending
    <3>3. Pending \subseteq AllChunks /\ Pending' \subseteq AllChunks
      BY DEF Pending
    <3> QED BY <3>1, <3>2, <3>3
  <2> QED BY <1>1, <2>1, <2>3, <2>9, PendingLess
<1>4. ASSUME NEW u \in Transfers, WorkerExits(u), UNCHANGED chunk
      PROVE  RamOfPending'
  <2>1. reserved[u] = 0 /\ unsaved[u] = {}
    BY <1>1, <1>4, NothingPending DEF WorkerExits
  <2>2. Release(u, 0)
    BY <1>4, <2>1, FS_EmptySet DEF WorkerExits
  <2>3. UNCHANGED <<ram, reserved>>
    BY <1>1, <2>2 DEF Release, RamType
  <2>4. /\ wpc[u] = "cleanup" /\ wpc'[u] = "exited" /\ UNCHANGED nextToSave
        /\ \A v \in Transfers \ {u} : wpc'[v] = wpc[v]
    BY <1>1, <1>4 DEF WorkerExits, WorkerGoesTo, PlaceType
  <2>5. Pending' = Pending
    BY <1>1, <1>4, <2>4, SamePending
  <2> QED BY <2>3, <2>5, PendingStays
<1>5. ASSUME NEW u \in Transfers, CloseFile(u)
      PROVE  RamOfPending'
  <2>1. xpc[u] = "flushed" /\ wpc[u] \in {"cleanup", "exited"}
    BY <1>1, <1>5 DEF CloseFile, Undisturbed, PlaceOf, PlaceType, WithLock, Working
  <2>2. reserved[u] = 0
    BY <1>1, <2>1, NothingPending
  <2>3. UNCHANGED <<ram, reserved, wpc, nextToSave, chunk>>
    BY <1>1, <1>5, <2>2 DEF CloseFile, ReleaseCapacity, EpilogueFrame, RamType
  <2>4. Pending' = Pending
    BY <1>1, <2>3, SamePending
  <2> QED BY <2>3, <2>4, PendingStays
<1>6. ASSUME NEW u \in Transfers,
             \/ InitialChecks(u) \/ WaitUntilLockDestination(u) \/ CreateFile(u)
             \/ EnterEpilogue(u) \/ Flush(u) \/ FlushReturns(u) \/ CheckMd5(u)
             \/ CheckLength(u) \/ Rename(u) \/ Complete(u) \/ Succeed(u) \/ Unlock(u)
             \/ Report(u)
      PROVE  RamOfPending'
  <2>1. UNCHANGED <<ram, reserved, nextToSave, chunk>>
    BY <1>6 DEF InitialChecks, WaitUntilLockDestination, CreateFile, EnterEpilogue, Flush,
       FlushReturns, CheckMd5, CheckLength, Rename, Complete, Succeed, Unlock, Report,
       EpilogueFrame, VerifyFrame
  <2>2. \/ wpc' = wpc
        \/ CreateFile(u) /\ WorkerGoesTo(u, "select")
        \/ FlushReturns(u) /\ wpc[u] = "sendMd5" /\ WorkerGoesTo(u, "cleanup")
    BY <1>6 DEF InitialChecks, WaitUntilLockDestination, CreateFile, EnterEpilogue, Flush,
       FlushReturns, CheckMd5, CheckLength, Rename, Complete, Succeed, Unlock, Report,
       EpilogueFrame, VerifyFrame
  <2>3. CreateFile(u) => wpc[u] = "none"
    BY <1>1 DEF CreateFile, PlaceOf
  <2>4. \A v \in Transfers : wpc'[v] = "save" <=> wpc[v] = "save"
    BY <1>1, <2>2, <2>3 DEF WorkerGoesTo, PlaceType
  <2>5. Pending' = Pending
    BY <1>1, <2>1, <2>4, SamePending
  <2> QED BY <2>1, <2>5, PendingStays
<1>7. ASSUME NEW u \in Transfers,
             ReceiveChunk(u) \/ ChannelIsClosed(u) \/ WorkerIsCancelled(u)
             \/ ProcessAvailableChunk(u), UNCHANGED chunk
      PROVE  RamOfPending'
  <2>1. UNCHANGED <<ram, reserved>>
    BY <1>7 DEF ReceiveChunk, ChannelIsClosed, WorkerIsCancelled, ProcessAvailableChunk
  <2>2. /\ wpc[u] # "save"
        /\ \/ UNCHANGED nextToSave /\ \E pc \in {"process", "sendMd5", "cleanup", "select"} :
                                         WorkerGoesTo(u, pc)
           \/ nextToSave' = [nextToSave EXCEPT ![u] = @ + 1] /\ WorkerGoesTo(u, "save")
    BY <1>7 DEF ReceiveChunk, ChannelIsClosed, WorkerIsCancelled, ProcessAvailableChunk
  <2>3. /\ \/ nextToSave'[u] = nextToSave[u] /\ wpc'[u] # "save"
           \/ nextToSave'[u] = nextToSave[u] + 1 /\ wpc'[u] = "save"
        /\ \A v \in Transfers \ {u} : wpc'[v] = wpc[v] /\ nextToSave'[v] = nextToSave[v]
    BY <1>1, <2>2 DEF WorkerGoesTo, PlaceType, QueueType
  <2>4. Pending' = Pending
    BY <1>1, <1>7, <2>2, <2>3, SamePending
  <2> QED BY <2>1, <2>4, PendingStays
<1>8. ASSUME NEW c \in AllChunks, ChunkStep(c)
      PROVE  RamOfPending'
  <2>1. /\ ~ctxDone[c[1]] \/ chunk[c] \notin {"downloading", "enqueue"}
        /\ chunk[c] = "enqueue" => ~WriterDone(c[1])
    BY <1>1, Chunks DEF PlaceOf, Undisturbed, WriterDone, AfterFlush
  <2>2. UNCHANGED <<ram, reserved, wpc, nextToSave>>
    BY <1>8, <2>1 DEF ChunkStep, StartChunk, RequestFails, ReadBody, EnqueueChunk,
       ReportChunkBytes, ReportChunkDone, ChunkFrame, NothingHappens
  <2>3. /\ chunk[c] # "unscheduled"
        /\ \E pc \in {"reportBytes", "downloading", "enqueue", "count", "done"} : MoveChunk(c, pc)
    BY <1>8 DEF ChunkStep, StartChunk, RequestFails, ReadBody, EnqueueChunk,
       ReportChunkBytes, ReportChunkDone
  <2>4. \A d \in AllChunks : chunk'[d] = "unscheduled" <=> chunk[d] = "unscheduled"
    BY <1>1, <2>3 DEF MoveChunk, PlaceType
  <2>5. Pending' = Pending
    BY <1>1, <2>2, <2>4, SamePending
  <2> QED BY <2>2, <2>5, PendingStays
<1>9. ~CancelJob
  BY DEF CancelJob, NothingHappens
<1> QED BY <1>2, <1>3, <1>4, <1>5, <1>6, <1>7, <1>8, <1>9
        DEF Next, TransferStep, WriterStep, WorkerStep

(* The RAM that downloads have taken from the limiter is that of their     *)
(* chunks between scheduling and saving, as long as no chunk, write or     *)
(* epilogue fails and nobody cancels (chunkedFileWriter).                  *)
THEOREM RamIsOfPending ==
    ASSUME NothingHappens
    PROVE  Spec => []RamIsOfUnsavedChunks
<1>1. Init => UndisturbedInv
  <2> SUFFICES ASSUME Init PROVE UndisturbedInv
    OBVIOUS
  <2>1. \A t \in Transfers : Undisturbed(t)
    BY DEF Init, JptmInit, WriterInit, Undisturbed
  <2>2. Pending = {}
    BY DEF Init, Pending
  <2>3. ram = 0 /\ \A t \in Transfers : reserved[t] = 0
    BY DEF Init, WriterInit
  <2>4. RamOfPending
    BY <2>2, <2>3, FS_EmptySet DEF RamOfPending
  <2> QED BY <2>1, <2>4 DEF UndisturbedInv
<1>2. DownInv /\ UndisturbedInv /\ [Next]_vars => UndisturbedInv'
  <2> SUFFICES ASSUME DownInv, UndisturbedInv, [Next]_vars PROVE UndisturbedInv'
    OBVIOUS
  <2>1. CASE Next
    BY <2>1, UndisturbedStep, PendingStep DEF UndisturbedInv
  <2>2. CASE UNCHANGED vars
    <3>1. UNCHANGED <<ctxDone, xpc, wpc, nextToSave, chunk, ram, reserved>>
      BY <2>2 DEF vars, jptmVars, writerVars, orderVars, capacityVars
    <3>2. \A t \in Transfers : Undisturbed(t)'
      BY <3>1 DEF UndisturbedInv, Undisturbed
    <3>3. Pending' = Pending
      BY <3>1 DEF Pending, IsSaved
    <3>4. RamOfPending'
      BY <3>1, <3>3, PendingStays DEF UndisturbedInv
    <3> QED BY <3>2, <3>4 DEF UndisturbedInv
  <2> QED BY <2>1, <2>2
<1>3. UndisturbedInv => RamIsOfUnsavedChunks
  BY DEF UndisturbedInv, RamOfPending, RamIsOfUnsavedChunks, Pending
<1> QED BY <1>1, <1>2, <1>3, DownInvHolds, PTL DEF Spec
=============================================================================
