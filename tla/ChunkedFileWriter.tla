------------------------- MODULE ChunkedFileWriter -------------------------
(***************************************************************************)
(* The chunked file writer of a download, common/chunkedFileWriter.go.     *)
(*                                                                         *)
(* RAM for a chunk is reserved before the chunk is scheduled.  Downloaded  *)
(* chunks arrive in any order in a channel; one worker goroutine puts      *)
(* them in order and writes the file front to back, so that its hash can   *)
(* be computed on the way.  Flush closes the channel and waits for the     *)
(* worker.  Each byte that was reserved is to be given back once: by the   *)
(* worker when a chunk is saved or the worker stops, by EnqueueChunk when  *)
(* it fails, and by Flush for the chunks that were never enqueued.         *)
(*                                                                         *)
(* A chunk counts as one byte, so activeChunkCount and                     *)
(* currentReservedCapacity are the same number.                            *)
(***************************************************************************)
EXTENDS TransferManager, Sequences

CONSTANTS FaultyWrites,      \* chunks whose write to disk may fail
          RamLimit,          \* limit of the cache limiter, in chunks
          QueueCap,          \* bound: stands for the limit of 1000 on the channel's buffer
          MaxDesirableActiveChunks,
          NoFile             \* the file at a path that has none

ASSUME WriterAssumption ==
    /\ FaultyWrites \subseteq AllChunks
    /\ RamLimit \in Nat /\ (RamLimit * 3) \div 4 > 0
    /\ QueueCap \in Nat \ {0}
    /\ MaxDesirableActiveChunks \in Nat
    /\ NoFile \notin Seq(AllChunks)

VARIABLES
    wpc,         \* where workerRoutine is
    queue,       \* newUnorderedChunks
    closed,      \* newUnorderedChunks has been closed
    unsaved,     \* unsavedChunksByFileOffset
    nextToSave,  \* nextOffsetToSave
    reserved,    \* currentReservedCapacity
    ram,         \* the cache limiter's value
    temp         \* the file being written for each destination: its chunks

channelVars == <<queue, closed>>
orderVars == <<unsaved, nextToSave>>
capacityVars == <<reserved, ram>>
writerVars == <<wpc, channelVars, orderVars, capacityVars, temp>>

WriterInit ==
    /\ wpc = [t \in Transfers |-> "none"]
    /\ queue = [t \in Transfers |-> <<>>]
    /\ closed = [t \in Transfers |-> FALSE]
    /\ unsaved = [t \in Transfers |-> {}]
    /\ nextToSave = [t \in Transfers |-> 0]
    /\ reserved = [t \in Transfers |-> 0]
    /\ ram = 0
    /\ temp = [d \in Destinations |-> NoFile]

WorkerGoesTo(t, pc) == wpc' = [wpc EXCEPT ![t] = pc]

-----------------------------------------------------------------------------
(* Called by the transfer. *)

(* The strict limit applies when many chunks of the file are in progress. *)
LimitFor(t) ==
    IF reserved[t] <= MaxDesirableActiveChunks THEN RamLimit ELSE (RamLimit * 3) \div 4

Reserve(t) ==
    /\ ram + 1 <= LimitFor(t)
    /\ ram' = ram + 1
    /\ reserved' = [reserved EXCEPT ![t] = @ + 1]

Release(t, n) ==
    /\ ram' = ram - n
    /\ reserved' = [reserved EXCEPT ![t] = @ - n]

ChannelHasRoom(t) == Len(queue[t]) < QueueCap

Enqueue(t, i) == queue' = [queue EXCEPT ![t] = Append(@, i)]

CloseChannel(t) == closed' = [closed EXCEPT ![t] = TRUE]

(* chunkWriterDone is closed. *)
WriterDone(t) == wpc[t] = "exited"

MutReleaseCapacity(t) == UNCHANGED capacityVars  \* for the worker to do

(* Flush removes from the limiter what it finds reserved, and leaves the   *)
(* counter as it is.                                                       *)
ReleaseCapacity(t) ==
    /\ ram' = ram - reserved[t]
    /\ UNCHANGED reserved

-----------------------------------------------------------------------------
(* workerRoutine.  When the context is done and the channel has something, *)
(* the select takes either.                                                *)
ReceiveChunk(t) ==
    /\ wpc[t] = "select" /\ queue[t] # <<>>
    /\ queue' = [queue EXCEPT ![t] = Tail(@)]
    /\ unsaved' = [unsaved EXCEPT ![t] = @ \cup {Head(queue[t])}]
    /\ WorkerGoesTo(t, "process")
    /\ UNCHANGED <<closed, nextToSave, capacityVars, temp>>

ChannelIsClosed(t) ==
    /\ wpc[t] = "select" /\ queue[t] = <<>> /\ closed[t]
    /\ WorkerGoesTo(t, "sendMd5")
    /\ UNCHANGED <<channelVars, orderVars, capacityVars, temp>>

WorkerIsCancelled(t) ==
    /\ wpc[t] = "select" /\ ctxDone[t]
    /\ WorkerGoesTo(t, "cleanup")
    /\ UNCHANGED <<channelVars, orderVars, capacityVars, temp>>

MutProcessAvailableChunk(t) ==  \* saves what there is, in any order
    /\ wpc[t] = "process"
    /\ IF ctxDone[t] \/ unsaved[t] = {}
       THEN WorkerGoesTo(t, "select") /\ UNCHANGED orderVars
       ELSE \E i \in unsaved[t] :
                /\ unsaved' = [unsaved EXCEPT ![t] = @ \ {i}]
                /\ nextToSave' = [nextToSave EXCEPT ![t] = i + 1]
                /\ WorkerGoesTo(t, "save")
    /\ UNCHANGED <<channelVars, capacityVars, temp>>

(* One turn of sequentiallyProcessAvailableChunks. *)
ProcessAvailableChunk(t) ==
    /\ wpc[t] = "process"
    /\ IF ctxDone[t] \/ nextToSave[t] \notin unsaved[t]
       THEN WorkerGoesTo(t, "select") /\ UNCHANGED orderVars
       ELSE /\ unsaved' = [unsaved EXCEPT ![t] = @ \ {nextToSave[t]}]
            /\ nextToSave' = [nextToSave EXCEPT ![t] = @ + 1]
            /\ WorkerGoesTo(t, "save")
    /\ UNCHANGED <<channelVars, capacityVars, temp>>

MutSaveOneChunk(t) ==  \* keeps the RAM of a chunk that was saved
    LET c == <<t, nextToSave[t] - 1>>
        d == Destination[t]
    IN  /\ wpc[t] = "save"
        /\ \/ /\ temp' = [temp EXCEPT ![d] = IF @ = NoFile THEN @ ELSE Append(@, c)]
              /\ WorkerGoesTo(t, "process")
              /\ UNCHANGED capacityVars
           \/ /\ c \in FaultyWrites
              /\ WorkerGoesTo(t, "cleanup")
              /\ Release(t, 1)
              /\ UNCHANGED temp
        /\ UNCHANGED <<channelVars, orderVars>>

(* Appends to the file; its RAM is given back whether that worked or not.  *)
SaveOneChunk(t) ==
    LET c == <<t, nextToSave[t] - 1>>
        d == Destination[t]
    IN  /\ wpc[t] = "save"
        /\ \/ /\ temp' = [temp EXCEPT ![d] = IF @ = NoFile THEN @ ELSE Append(@, c)]
              /\ WorkerGoesTo(t, "process")
           \/ /\ c \in FaultyWrites
              /\ WorkerGoesTo(t, "cleanup")
              /\ UNCHANGED temp
        /\ Release(t, 1)
        /\ UNCHANGED <<channelVars, orderVars>>

(* The deferred clean-up; closing chunkWriterDone comes last. *)
WorkerExits(t) ==
    /\ wpc[t] = "cleanup"
    /\ Release(t, Cardinality(unsaved[t]))
    /\ unsaved' = [unsaved EXCEPT ![t] = {}]
    /\ WorkerGoesTo(t, "exited")
    /\ UNCHANGED <<channelVars, nextToSave, temp>>

WorkerStep(t) ==
    \/ ReceiveChunk(t) \/ ChannelIsClosed(t) \/ WorkerIsCancelled(t)
    \/ ProcessAvailableChunk(t) \/ SaveOneChunk(t) \/ WorkerExits(t)
=============================================================================
