----------------------------- MODULE InPlaceSend -----------------------------
(***************************************************************************)
(* Sending one file to a destination that is written in place, where       *)
(* SendTransfer's block blobs are staged and committed:                    *)
(*                                                                         *)
(*   "page"    a page blob, created full of zeros (sender-pageBlob*.go)    *)
(*   "disk"    the page blob of a managed disk: it is there already, with  *)
(*             data, can be neither created nor deleted                    *)
(*   "append"  an append blob: one block after the other, each with the    *)
(*             position it belongs to (sender-appendBlob*.go)              *)
(*   "share"   a file of Azure Files (sender-azureFile*.go)                *)
(*   "adls"    ADLS Gen2: chunks are appended in any order and appear when *)
(*             they are flushed (sender-blobFS*.go)                        *)
(*                                                                         *)
(* The goroutine that starts the transfer runs the prologue and schedules  *)
(* the chunks; workers run them; the last one runs the epilogue.  The lock *)
(* on the destination is held throughout.  A chunk is one cell of the      *)
(* file.  The services are external: a request may be carried out though   *)
(* its answer never comes, and the SDK repeats some of those.              *)
(***************************************************************************)
EXTENDS Integers, Sequences, FiniteSets

CONSTANTS SendKinds,      \* a subset of the five above
          SendChunks,     \* how many chunks the file has
          FlushThreshold, \* chunks per flush (ADLSFlushThreshold, 7500)
          MaxAttempts     \* bound: attempts at one request

ASSUME InPlaceAssumption ==
    /\ SendKinds \subseteq {"page", "disk", "append", "share", "adls"}
    /\ SendChunks \in Nat \ {0} /\ FlushThreshold \in Nat \ {0} /\ MaxAttempts \in Nat \ {0}

Cell == 1 .. SendChunks

(* What a cell of a file holds: zeros, data from before the transfer, or   *)
(* the data of the source's chunk of that number.                          *)
Zeros == 0
Foreign == -1
Gone == -2
Absent == <<Gone>>     \* there is no file

Data == {Gone, Zeros, Foreign} \cup Cell

NoPages == {0}                             \* pageRangeOptimizer without a list

VARIABLES
    kind, isUpload,   \* of the transfer
    withData,         \* chunks of the source that are not all zeros
    destBefore,           \* the file at the destination when the transfer starts
    destFile,            \* ... and now
    appended,         \* chunks appended and not flushed (ADLS)
    sendPc,           \* where the transfer is
    sendStatus,       \* its status in the plan
    ctxOver,          \* its context is done
    destIsModified,   \* atomicDestModifiedIndicator
    sourcePages, destPages,   \* cells with data as far as the optimizers know
    scheduledCells,   \* chunks scheduled so far
    prefetchErr,      \* one of them could not be read ahead
    soleChunk,        \* the chunk that holds soleChunkFuncSemaphore, 0 for none
    cell,             \* where each chunk function is
    attempts,         \* attempts of its request
    timeoutFromCtx,   \* one of them was answered with OperationTimedOut
    flushed,          \* position of the last flush
    \* what happened, for the properties
    created,          \* a request to create the file was carried out
    unknown           \* the answer to it, or a deletion, was lost

ipVars == <<kind, isUpload, withData, destBefore, destFile, appended, sendPc, sendStatus,
            ctxOver, destIsModified, sourcePages, destPages, scheduledCells, prefetchErr,
            soleChunk, cell, attempts, timeoutFromCtx, flushed, created, unknown>>

fixedVars == <<kind, isUpload, withData, destBefore>>
pageVars == <<sourcePages, destPages>>
chunkVars == <<scheduledCells, prefetchErr, soleChunk, cell, attempts, timeoutFromCtx>>
traceVars == <<created, unknown>>

Source == [c \in Cell |-> IF c \in withData THEN c ELSE Zeros]

IsLive == ~ctxOver /\ sendStatus = "Started"

(* failActiveTransfer: a transfer that is cancelled already stays as it is.*)
FailActive ==
    /\ ctxOver' = TRUE
    /\ sendStatus' = IF ctxOver THEN sendStatus ELSE "Failed"

IPInit ==
    /\ kind \in SendKinds /\ isUpload \in BOOLEAN
    /\ kind = "adls" => isUpload
    /\ withData \in SUBSET Cell
    /\ destBefore \in {Absent} \cup [Cell -> {Zeros, Foreign}]
    /\ kind = "disk" => destBefore # Absent
    /\ kind # "disk" => destBefore \in {Absent, [c \in Cell |-> Foreign]}
    /\ destFile = destBefore /\ appended = {}
    /\ sendPc = "prologue" /\ sendStatus = "Started" /\ ctxOver = FALSE
    /\ destIsModified = FALSE
    /\ sourcePages = NoPages /\ destPages = NoPages
    /\ scheduledCells = 0 /\ prefetchErr = FALSE /\ soleChunk = 0
    /\ cell = [c \in Cell |-> "none"] /\ attempts = [c \in Cell |-> 0]
    /\ timeoutFromCtx = [c \in Cell |-> FALSE]
    /\ flushed = 0 /\ created = FALSE /\ unknown = FALSE

-----------------------------------------------------------------------------
(* Prologue.                                                               *)

(* The senders of shares and ADLS take it that they modify the destination *)
(* before they have made a request, the others when theirs has succeeded.  *)
ModifiesFromTheStart == kind \in {"share", "adls"}

NewFile == IF kind \in {"append", "adls"} THEN <<>> ELSE [c \in Cell |-> Zeros]

CreateSucceeds ==
    /\ ~ctxOver
    /\ destFile' = NewFile /\ created' = TRUE
    /\ destIsModified' = TRUE
    /\ UNCHANGED <<ctxOver, sendStatus, unknown>>

(* What is done besides (headers, tags, parent directories) can fail after *)
(* or before the file is created; and so can creating it, in which case it *)
(* may exist nevertheless.  A symlink in its place is deleted from a share.*)
CreateFails ==
    /\ \/ /\ ~ctxOver
          /\ destFile' = NewFile /\ created' = TRUE
          /\ \/ destIsModified' = TRUE /\ UNCHANGED unknown
             \/ destIsModified' = ModifiesFromTheStart /\ unknown' = TRUE
       \/ /\ destIsModified' = ModifiesFromTheStart
          /\ \/ UNCHANGED destFile
             \/ kind = "share" /\ ~ctxOver /\ destFile' = Absent
          /\ UNCHANGED <<created, unknown>>
    /\ FailActive

(* A disk is looked at instead, for its length and its pages.              *)
CheckDisk ==
    /\ UNCHANGED <<destFile, created, unknown, destIsModified>>
    /\ \/ ~ctxOver /\ UNCHANGED <<ctxOver, sendStatus>>
       \/ FailActive

HasData(file) == {c \in Cell : file[c] # Zeros}

(* fetchPages: the list is there when every page of it could be got.       *)
FetchedPages(file) == {NoPages, HasData(file)}

Prologue ==
    /\ sendPc = "prologue"
    /\ sendPc' = "schedule"
    /\ IF kind = "disk" THEN CheckDisk ELSE CreateSucceeds \/ CreateFails
    /\ destPages' \in IF kind = "disk" /\ ~ctxOver' THEN FetchedPages(destFile)
                                                   ELSE {NoPages}
    /\ sourcePages' \in IF kind \in {"page", "disk"} /\ ~isUpload /\ ~ctxOver'
                        THEN FetchedPages(Source) ELSE {NoPages}
    /\ UNCHANGED <<fixedVars, appended, chunkVars, flushed>>

-----------------------------------------------------------------------------
(* Scheduling.  All chunks are scheduled, whatever happens.                *)

(* A chunk of an append blob is made when no other is there, or, when the  *)
(* context is done, as one that does nothing.  A chunk that could not be   *)
(* read ahead fails the transfer, and no later one is read.                *)
ScheduleCell ==
    /\ sendPc = "schedule"
    /\ \E fate \in {"queued", "noop", "unread"} :
         /\ cell' = [cell EXCEPT ![scheduledCells + 1] = fate]
         /\ prefetchErr' = (prefetchErr \/ fate = "unread")
         /\ fate # "unread" => ~prefetchErr
         /\ fate = "unread" => isUpload
         /\ fate = "noop" => kind = "append" /\ ctxOver
         /\ IF fate = "queued" /\ kind = "append"
            THEN soleChunk = 0 /\ soleChunk' = scheduledCells + 1
            ELSE UNCHANGED soleChunk
    /\ scheduledCells' = scheduledCells + 1
    /\ sendPc' = IF scheduledCells' = SendChunks THEN "chunks" ELSE "schedule"
    /\ UNCHANGED <<fixedVars, destFile, appended, sendStatus, ctxOver, destIsModified,
                   pageVars, attempts, timeoutFromCtx, flushed, traceVars>>

-----------------------------------------------------------------------------
(* Chunk functions.                                                        *)

DestContainsData(c) == kind = "disk" /\ (destPages = NoPages \/ c \in destPages)

MutIsSkipped(c) ==  \* zeros are never sent
    IF isUpload
    THEN kind \in {"page", "disk", "share"} /\ c \notin withData
    ELSE sourcePages # NoPages /\ c \notin sourcePages

(* Zeros are not sent, unless the disk may hold data in their place.       *)
IsSkipped(c) ==
    /\ IF isUpload
       THEN kind \in {"page", "disk", "share"} /\ c \notin withData
       ELSE sourcePages # NoPages /\ c \notin sourcePages
    /\ ~DestContainsData(c)

(* The semaphore is given back by a chunk function that gets as far as     *)
(* taking part in the transfer.                                            *)
Ends(c) ==
    /\ cell' = [cell EXCEPT ![c] = "done"]
    /\ soleChunk' = IF soleChunk = c THEN 0 ELSE soleChunk

StartChunk(c) ==
    /\ cell[c] \in {"queued", "noop", "unread"}
    /\ IF ctxOver
       THEN /\ cell' = [cell EXCEPT ![c] = "done"]
            /\ UNCHANGED <<soleChunk, destIsModified, ctxOver, sendStatus>>
       ELSE /\ destIsModified' = TRUE
            /\ IF cell[c] = "queued" /\ ~IsSkipped(c)
               THEN cell' = [cell EXCEPT ![c] = "sending"] /\ UNCHANGED soleChunk
               ELSE Ends(c)
            /\ IF cell[c] = "unread" THEN FailActive ELSE UNCHANGED <<ctxOver, sendStatus>>
    /\ UNCHANGED <<fixedVars, destFile, appended, sendPc, pageVars, scheduledCells,
                   prefetchErr, attempts, timeoutFromCtx, flushed, traceVars>>

(* What a request does when it is carried out; an append block has to fit  *)
(* the length of the blob.                                                 *)
IsInPosition(c) == kind = "append" => Len(destFile) = c - 1

CarryOut(c) ==
    /\ IsInPosition(c)
    /\ destFile' = IF kind = "append" THEN Append(destFile, Source[c])
                   ELSE IF kind = "adls" THEN destFile
                   ELSE [destFile EXCEPT ![c] = Source[c]]
    /\ appended' = IF kind = "adls" THEN appended \cup {c} ELSE appended

sendFrame == <<fixedVars, sendPc, destIsModified, pageVars, scheduledCells, prefetchErr,
               flushed, traceVars>>

SendSucceeds(c) ==
    /\ cell[c] = "sending"
    /\ CarryOut(c)
    /\ Ends(c)
    /\ UNCHANGED <<ctxOver, sendStatus, attempts, timeoutFromCtx>>
    /\ UNCHANGED sendFrame

(* The SDK repeats a request, and the retry notification policy notes when *)
(* it was for the service's own timeout.                                   *)
SendIsRepeated(c) ==
    /\ cell[c] = "sending" /\ ~ctxOver
    /\ IsInPosition(c)
    /\ attempts[c] + 1 < MaxAttempts
    /\ attempts' = [attempts EXCEPT ![c] = @ + 1]
    /\ CarryOut(c) \/ UNCHANGED <<destFile, appended>>
    /\ \E timedOut \in IF kind = "append" THEN BOOLEAN ELSE {FALSE} :
           timeoutFromCtx' = [timeoutFromCtx EXCEPT ![c] = @ \/ timedOut]
    /\ UNCHANGED <<ctxOver, sendStatus, cell, soleChunk>>
    /\ UNCHANGED sendFrame

(* It fails for good, or because the context is done.                      *)
SendFails(c) ==
    /\ cell[c] = "sending"
    /\ CarryOut(c) \/ UNCHANGED <<destFile, appended>>
    /\ FailActive
    /\ Ends(c)
    /\ UNCHANGED <<attempts, timeoutFromCtx>>
    /\ UNCHANGED sendFrame

(* transformAppendConditionMismatchError: the blob does not end where the  *)
(* block belongs.  That is no error if an earlier attempt timed out, and   *)
(* the source's data is in that place; both hashes have to be got.         *)
PositionIsNotMet(c) ==
    /\ cell[c] = "sending" /\ ~ctxOver
    /\ ~IsInPosition(c)
    /\ \/ /\ timeoutFromCtx[c] /\ c \in DOMAIN destFile /\ destFile[c] = Source[c]
          /\ UNCHANGED <<ctxOver, sendStatus>>
       \/ FailActive
    /\ Ends(c)
    /\ UNCHANGED <<destFile, appended, attempts, timeoutFromCtx>>
    /\ UNCHANGED sendFrame

-----------------------------------------------------------------------------
(* Epilogue.                                                               *)
epilogueFrame == <<fixedVars, destIsModified, pageVars, chunkVars, created>>

(* A cancelled transfer is marked so; the source of a live one may have    *)
(* been modified.                                                          *)
EnterEpilogue ==
    /\ sendPc = "chunks" /\ \A c \in Cell : cell[c] = "done"
    /\ sendPc' = "service"
    /\ \/ /\ sendStatus' = IF ctxOver /\ sendStatus = "Started"
                           THEN "Cancelled" ELSE sendStatus
          /\ UNCHANGED ctxOver
       \/ IsLive /\ FailActive
    /\ UNCHANGED <<destFile, appended, flushed, unknown>>
    /\ UNCHANGED epilogueFrame

(* The hash and other properties of the finished file.                     *)
SetHash ==
    /\ sendPc = "service"
    /\ kind = "adls" => flushed = SendChunks \/ (flushed = 0 /\ ~IsLive)
    /\ sendPc' = "length"
    /\ UNCHANGED <<ctxOver, sendStatus>> \/ (IsLive /\ kind # "disk" /\ FailActive)
    /\ UNCHANGED <<destFile, appended, flushed, unknown>>
    /\ UNCHANGED epilogueFrame

FlushEnd ==
    IF flushed + FlushThreshold > SendChunks THEN SendChunks ELSE flushed + FlushThreshold

Flushed == [c \in 1 .. FlushEnd |-> Source[c]]

(* ADLS: the file is flushed piece by piece; the loop goes on when the     *)
(* context is done meanwhile, and its next request fails.                  *)
Flush ==
    /\ sendPc = "service" /\ kind = "adls" /\ flushed < SendChunks
    /\ IsLive \/ flushed > 0
    /\ \/ /\ ~ctxOver /\ 1 .. FlushEnd \subseteq appended
          /\ destFile' = Flushed /\ flushed' = FlushEnd
          /\ UNCHANGED <<ctxOver, sendStatus, sendPc>>
       \/ /\ FailActive
          /\ sendPc' = "length"
          /\ \/ 1 .. FlushEnd \subseteq appended /\ destFile' = Flushed
             \/ UNCHANGED destFile
          /\ UNCHANGED flushed
    /\ UNCHANGED <<appended, unknown>>
    /\ UNCHANGED epilogueFrame

(* The length is compared unless that is switched off or forbidden.        *)
CheckLength ==
    /\ sendPc = "length"
    /\ sendPc' = "cleanup"
    /\ UNCHANGED <<ctxOver, sendStatus>> \/ (IsLive /\ FailActive)
    /\ UNCHANGED <<destFile, appended, flushed, unknown>>
    /\ UNCHANGED epilogueFrame

(* What is in an unknown state is deleted, without the transfer's context. *)
Cleanup ==
    /\ sendPc = "cleanup"
    /\ sendPc' = "complete"
    /\ IF ~IsLive /\ destIsModified /\ kind # "disk"
       THEN \/ destFile' = Absent /\ UNCHANGED unknown
            \/ unknown' = TRUE /\ UNCHANGED destFile
       ELSE UNCHANGED <<destFile, unknown>>
    /\ UNCHANGED <<ctxOver, sendStatus, appended, flushed>>
    /\ UNCHANGED epilogueFrame

CompleteSend ==
    /\ sendPc = "complete"
    /\ sendPc' = "done"
    /\ sendStatus' = IF IsLive THEN "Success" ELSE sendStatus
    /\ UNCHANGED <<ctxOver, destFile, appended, flushed, unknown>>
    /\ UNCHANGED epilogueFrame

CancelSend ==
    /\ sendPc # "done" /\ ~ctxOver
    /\ ctxOver' = TRUE
    /\ UNCHANGED <<sendStatus, sendPc, destFile, appended, flushed, unknown>>
    /\ UNCHANGED epilogueFrame

SendStep == Prologue \/ ScheduleCell
EpilogueStep ==
    EnterEpilogue \/ SetHash \/ Flush \/ CheckLength \/ Cleanup \/ CompleteSend
CellStep(c) ==
    \/ StartChunk(c) \/ SendSucceeds(c) \/ SendIsRepeated(c) \/ SendFails(c)
    \/ PositionIsNotMet(c)

IPNext == SendStep \/ (\E c \in Cell : CellStep(c)) \/ EpilogueStep \/ CancelSend

(* The starting goroutine, the workers and the epilogue go on, and every   *)
(* request is answered in the end.                                         *)
IPSpec ==
    /\ IPInit /\ [][IPNext]_ipVars
    /\ WF_ipVars(SendStep) /\ WF_ipVars(EpilogueStep)
    /\ \A c \in Cell : WF_ipVars(CellStep(c))

-----------------------------------------------------------------------------
IPTypeOK ==
    /\ appended \subseteq Cell
    /\ flushed \in 0 .. SendChunks /\ scheduledCells \in 0 .. SendChunks
    /\ sendPc \in {"prologue", "schedule", "chunks", "service", "length", "cleanup",
                   "complete", "done"}
    /\ sendStatus \in {"Started", "Failed", "Cancelled", "Success"}
    /\ cell \in [Cell -> {"none", "queued", "noop", "unread", "sending", "done"}]
    /\ attempts \in [Cell -> 0 .. MaxAttempts - 1]
    /\ prefetchErr \in BOOLEAN
    /\ soleChunk \in {0} \cup Cell /\ (kind # "append" => soleChunk = 0)
    /\ destFile \in Seq(Data)

(* A file whose transfer has succeeded holds what the source holds, the    *)
(* ranges that were not sent included, whatever the destination held, and  *)
(* however often a request was carried out (IsSkipped, the page range      *)
(* optimizers, transformAppendConditionMismatchError).                     *)
SuccessMeansSame == sendStatus = "Success" => destFile = Source

(* A transfer that has not succeeded leaves nothing incomplete, except on  *)
(* a disk, or when the answer to a request that creates or deletes the     *)
(* file was lost (SetDestinationIsModified and Cleanup).                   *)
NothingIncompleteIsLeft ==
    sendPc = "done" /\ kind # "disk" /\ ~unknown =>
        destFile \in {destBefore, Absent, Source}

(* ... and it leaves alone the blob that it could not replace.             *)
UntouchedIsKept == kind \in {"page", "append"} /\ ~created => destFile = destBefore

(* The blocks of an append blob are sent in their order, one at a time: a  *)
(* first attempt finds the blob as long as it should be.                   *)
AppendsComeInTurn ==
    kind = "append" =>
        \A c \in Cell :
            cell[c] = "sending" /\ attempts[c] = 0 /\ ~ctxOver => IsInPosition(c)

(* What a live transfer flushes has been appended.                         *)
FlushFindsItsChunks == kind = "adls" /\ sendPc = "service" /\ IsLive => appended = Cell

(* The transfer ends: no chunk of an append blob that is cancelled before  *)
(* it gives the semaphore back keeps the scheduling goroutine waiting.     *)
EverySendEnds == []<>(sendPc = "done")

(* A file that is written in place is whole or gone at the end.            *)
InPlaceInv ==
    /\ IPTypeOK
    /\ SuccessMeansSame
    /\ NothingIncompleteIsLeft
    /\ UntouchedIsKept
    /\ AppendsComeInTurn
    /\ FlushFindsItsChunks
=============================================================================
