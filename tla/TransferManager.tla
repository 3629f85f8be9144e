-------------------------- MODULE TransferManager --------------------------
(***************************************************************************)
(* The transfer managers (jptm) of ste/mgr-JobPartTransferMgr.go: what a   *)
(* transfer keeps while it runs, the operations its chunks and its         *)
(* epilogue use, and what all transfers of the job share, which is the map *)
(* of locked destinations and the count of bytes in active files.          *)
(* SendTransfer and DownloadTransfer extend this module with the steps of  *)
(* a transfer in each direction.                                           *)
(*                                                                         *)
(* A chunk counts as one byte.                                             *)
(***************************************************************************)
EXTENDS Integers, FiniteSets

CONSTANTS Transfers,     \* the transfers of the job
          NumChunks,     \* chunks of each transfer
          Destinations,  \* names the transfers write to
          Destination,   \* the name each transfer writes to
          Restarted      \* transfers an earlier run of the job had started

ASSUME TransferAssumption ==
    /\ NumChunks \in [Transfers -> Nat \ {0}]
    /\ Destination \in [Transfers -> Destinations]
    /\ Restarted \subseteq Transfers

Chunk(t) == 0..(NumChunks[t] - 1)
AllChunks == UNION {{t} \X Chunk(t) : t \in Transfers}

VARIABLES
    status,              \* TransferStatus in the plan
    ctxDone,             \* jptm.ctx is cancelled
    destModified,        \* atomicDestModifiedIndicator
    lockHeld,            \* atomicDestLockHeldIndicator
    chunksDone,          \* atomicChunksDone
    successfulBytes,     \* atomicSuccessfulBytes
    timesReported,       \* calls of ReportTransferDone
    lockedDestinations,  \* the job's ExclusiveStringMap
    bytesInActiveFiles   \* the job's atomicSuccessfulBytesInActiveFiles

lockVars == <<lockHeld, lockedDestinations>>
byteVars == <<successfulBytes, bytesInActiveFiles>>
jptmVars == <<status, ctxDone, destModified, chunksDone, timesReported, lockVars, byteVars>>

JptmInit ==
    /\ status = [t \in Transfers |-> IF t \in Restarted THEN "Restarted" ELSE "Started"]
    /\ ctxDone = [t \in Transfers |-> FALSE]
    /\ destModified = [t \in Transfers |-> FALSE]
    /\ lockHeld = [t \in Transfers |-> FALSE]
    /\ chunksDone = [t \in Transfers |-> 0]
    /\ successfulBytes = [t \in Transfers |-> 0]
    /\ timesReported = [t \in Transfers |-> 0]
    /\ lockedDestinations = {}
    /\ bytesInActiveFiles = 0

Unsettled == {"Started", "Restarted"}

IsDead(t) == status[t] \notin Unsettled \cup {"Success"} \/ ctxDone[t]
IsDeadInflight(t) == IsDead(t) /\ destModified[t]

(* A success or a failure is never overwritten. *)
SetStatus(t, new) ==
    status' = [status EXCEPT ![t] = IF @ \in Unsettled THEN new ELSE @]

(* failActiveTransfer: the first failure of a transfer that is not yet     *)
(* cancelled cancels it and sets its status, in this order.  That is one   *)
(* step here: the transfer is dead after either, and its epilogue waits    *)
(* for the chunk that is failing.                                          *)
FailActive(t) ==
    /\ ctxDone' = [ctxDone EXCEPT ![t] = TRUE]
    /\ IF ctxDone[t] THEN UNCHANGED status ELSE SetStatus(t, "Failed")

(* WaitUntilLockDestination and EnsureDestinationUnlocked. *)
LockDestination(t) ==
    /\ Destination[t] \notin lockedDestinations
    /\ lockedDestinations' = lockedDestinations \cup {Destination[t]}
    /\ lockHeld' = [lockHeld EXCEPT ![t] = TRUE]

EnsureDestinationUnlocked(t) ==
    /\ lockHeld' = [lockHeld EXCEPT ![t] = FALSE]
    /\ lockedDestinations' = IF lockHeld[t] THEN lockedDestinations \ {Destination[t]}
                                            ELSE lockedDestinations

(* ReportChunkDone, first half: the bytes of a live transfer's chunk. *)
AddChunkBytes(t) ==
    IF IsDead(t)
    THEN UNCHANGED byteVars
    ELSE /\ successfulBytes' = [successfulBytes EXCEPT ![t] = @ + 1]
         /\ bytesInActiveFiles' = bytesInActiveFiles + 1

(* Second half: the chunk that brings the counter to numChunks is the last.*)
CountChunk(t) == chunksDone' = [chunksDone EXCEPT ![t] = @ + 1]
IsLastChunk(t) == chunksDone[t] + 1 = NumChunks[t]

MutSubtractBytes(t) ==  \* counts the chunks of a dead transfer too
    bytesInActiveFiles' = bytesInActiveFiles - chunksDone[t]

(* After the epilogue the transfer's bytes are no longer in an active file.*)
SubtractBytes(t) == bytesInActiveFiles' = bytesInActiveFiles - successfulBytes[t]

(* ReportTransferDone releases the context and panics when called twice.   *)
ReportTransferDone(t) ==
    /\ ctxDone' = [ctxDone EXCEPT ![t] = TRUE]
    /\ timesReported' = [timesReported EXCEPT ![t] = @ + 1]

(* The job is cancelled, by a user or by a 403: the context of every       *)
(* transfer is a child of the job's.                                       *)
CancelContexts == ctxDone' = [t \in Transfers |-> TRUE]
=============================================================================
