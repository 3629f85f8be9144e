----------------------------- MODULE RemoveJob -----------------------------
(***************************************************************************)
(* The transfers of a remove job (and of set-properties, which is built    *)
(* the same way), and standardFolderDeletionManager:                       *)
(*                                                                         *)
(*   DeleteFile, DeleteBlob, DeleteHNSResource, SetProperties              *)
(*       run on the transfer initiators; they queue one chunk function     *)
(*   doDeleteFile, doDeleteBlob, doDeleteHNSResource, setProperties...     *)
(*       run on the chunk processors and report the transfer               *)
(*   folderDeletionManager                                                 *)
(*       counts the children of each folder that are known and not deleted *)
(*       yet, and attempts to delete a folder when the count is zero; the  *)
(*       lock is not held during the request, so that attempts overlap     *)
(*                                                                         *)
(* Only Azure Files has folders to be deleted one by one; there every      *)
(* entry of the tree below the share's root is a transfer of the job.  The *)
(* manager lives in memory: a process that is killed or that ends because  *)
(* it has lost its permission is followed by one that resumes the job.     *)
(***************************************************************************)
EXTENDS Integers, FiniteSets

CONSTANTS Locations,   \* a subset of {"File", "Blob", "BlobFS"}
          Files, Folders,
          Root,        \* the share's root, never deleted
          Parent,      \* the folder, or Root, of each of Files and Folders
          MaxProcesses \* how many processes work at the job

Transfers == Files \cup Folders

(* What is in folders is a tree: any entries have an innermost one. *)
ASSUME TreeAssumption ==
    /\ Locations \subseteq {"File", "Blob", "BlobFS"}
    /\ IsFiniteSet(Transfers) /\ Files \cap Folders = {} /\ Root \notin Transfers
    /\ Parent \in [Transfers -> Folders \cup {Root}]
    /\ \A some \in SUBSET Transfers :
         some # {} => \E x \in some : \A y \in some : Parent[y] # x
    /\ MaxProcesses \in Nat \ {0}

Tracked == Folders \cup {Root}

VARIABLES
    location,    \* where the job's files are
    exists,      \* what there is at the service
    rmPc,        \* how far each transfer is in this process
    at,          \* the entry its recursion through the manager is at
    rmStatus,    \* the status in the plan file
    children,    \* contents[..].childCount
    tracked,     \* the keys of contents
    deleter,     \* the folders of contents that have a deletion function
    jobCancelled,   \* the job has been cancelled
    processes,   \* how many processes there have been
    \* why something may be left, for the properties
    \* faulty: the folders that an attempt could not delete though empty;
    \* orphans: those reported as deleted that existed when a process ended
    faulty, orphans

planVars == <<location, rmStatus>>
managerVars == <<children, tracked, deleter>>
removalHistoryVars == <<faulty, orphans>>
rmVars == <<planVars, exists, rmPc, at, managerVars, jobCancelled, processes, removalHistoryVars>>

RMInit ==
    /\ location \in Locations
    /\ exists = Transfers \cup {Root}
    /\ rmPc = [t \in Transfers |-> IF location = "File" \/ t \in Files THEN "todo" ELSE "done"]
    /\ at = [t \in Transfers |-> t]
    /\ rmStatus = [t \in Transfers |->
                      IF location = "File" \/ t \in Files THEN "Started" ELSE "Success"]
    /\ children = [d \in Tracked |-> 0]
    /\ tracked = {} /\ deleter = {}
    /\ jobCancelled = FALSE /\ processes = 1
    /\ faulty = {} /\ orphans = {}

Go(t, pc) == rmPc' = [rmPc EXCEPT ![t] = pc]

-----------------------------------------------------------------------------
(* The initiators.                                                         *)

(* A cancelled transfer is reported as it is.                              *)
StartCancelled(t) ==
    /\ rmPc[t] = "todo" /\ jobCancelled
    /\ Go(t, "done")
    /\ UNCHANGED <<planVars, exists, at, managerVars, jobCancelled, processes,
                   removalHistoryVars>>

(* RecordChildExists for all types of entry, before anything else.         *)
StartFileShareEntry(t) ==
    /\ rmPc[t] = "todo" /\ ~jobCancelled /\ location = "File"
    /\ children' = [children EXCEPT ![Parent[t]] = @ + 1]
    /\ tracked' = tracked \cup {Parent[t]}
    /\ Go(t, IF t \in Folders THEN "request" ELSE "queued")
    /\ UNCHANGED <<planVars, exists, at, deleter, jobCancelled, processes, removalHistoryVars>>

StartOther(t) ==
    /\ rmPc[t] = "todo" /\ ~jobCancelled /\ location # "File"
    /\ Go(t, "queued")
    /\ UNCHANGED <<planVars, exists, at, managerVars, jobCancelled, processes,
                   removalHistoryVars>>

MutRequestDeletion(d) ==  \* waits for a child to be deleted
    /\ rmPc[d] = "request"
    /\ deleter' = deleter \cup {d}
    /\ tracked' = tracked \cup {d}
    /\ Go(d, "report")
    /\ UNCHANGED <<planVars, exists, at, children, jobCancelled, processes, removalHistoryVars>>

(* RequestDeletion: a folder without known children is tried at once.      *)
RequestDeletion(d) ==
    /\ rmPc[d] = "request"
    /\ deleter' = deleter \cup {d}
    /\ tracked' = tracked \cup {d}
    /\ Go(d, IF children[d] = 0 THEN "try" ELSE "report")
    /\ UNCHANGED <<planVars, exists, at, children, jobCancelled, processes, removalHistoryVars>>

-----------------------------------------------------------------------------
(* The chunk processors.                                                   *)

(* createChunkFunc does not run the body of a cancelled transfer; there is *)
(* no count of chunks, and nobody else reports it.                         *)
DropChunk(t) ==
    /\ rmPc[t] = "queued" /\ jobCancelled
    /\ Go(t, "dropped")
    /\ UNCHANGED <<planVars, exists, at, managerVars, jobCancelled, processes,
                   removalHistoryVars>>

(* What the service, or the lack of it, may answer besides "forbidden".    *)
Answers == {"ok", "notFound", "snapshots", "refused", "noResponse"}

(* transferDone of doDeleteFile, doDeleteBlob and doDeleteHNSResource.  In *)
(* the last the case of a resource that is not found is overwritten by the *)
(* next test, and an error without a response is no failure.               *)
StatusAfter(loc, answer) ==
    CASE loc = "BlobFS" -> IF answer \in {"ok", "noResponse"} THEN "Success" ELSE "Failed"
      [] loc = "Blob"   -> IF answer = "snapshots" THEN "SkippedBlobHasSnapshots"
                           ELSE IF answer \in {"ok", "notFound"} THEN "Success" ELSE "Failed"
      [] OTHER          -> IF answer \in {"ok", "notFound"} THEN "Success" ELSE "Failed"

DeleteChunk(t) ==
    /\ rmPc[t] = "queued" /\ ~jobCancelled
    /\ \E answer \in Answers :
         /\ answer = "notFound" => t \notin exists
         /\ answer = "ok" => t \in exists
         /\ answer = "snapshots" => t \in exists /\ location = "Blob"
         /\ exists' = IF answer = "ok" THEN exists \ {t} ELSE exists
         /\ LET status == StatusAfter(location, answer)
            IN  /\ rmStatus' = [rmStatus EXCEPT ![t] = status]
                /\ Go(t, IF location = "File" /\ status = "Success"
                         THEN "recordDeleted" ELSE "report")
    /\ UNCHANGED <<location, at, managerVars, jobCancelled, processes, removalHistoryVars>>

-----------------------------------------------------------------------------
(* The manager, called by a chunk or by RequestDeletion.                   *)

Clamp(n) == IF n > 0 THEN n - 1 ELSE 0

(* RecordChildDeleted for the entry the transfer is at.                    *)
RecordChildDeleted(t) ==
    LET folder == Parent[at[t]]
        left == Clamp(children[folder])
    IN  /\ rmPc[t] = "recordDeleted"
        /\ IF folder \notin tracked
           THEN Go(t, "report") /\ UNCHANGED <<children, at>>
           ELSE /\ children' = [children EXCEPT ![folder] = left]
                /\ IF folder \in deleter /\ left = 0
                   THEN Go(t, "try") /\ at' = [at EXCEPT ![t] = folder]
                   ELSE Go(t, "report") /\ UNCHANGED at
        /\ UNCHANGED <<planVars, exists, tracked, deleter, jobCancelled, processes,
                       removalHistoryVars>>

IsEmpty(d) == \A x \in Transfers : Parent[x] = d => x \notin exists

(* doDeleteFolder: the request is not protected by the lock.               *)
TryDeletion(t) ==
    LET d == at[t]
    IN  /\ rmPc[t] = "try"
        /\ \/ /\ d \in exists /\ IsEmpty(d)
              /\ exists' = exists \ {d}
              /\ Go(t, "forget") /\ UNCHANGED faulty
           \/ d \notin exists /\ Go(t, "forget") /\ UNCHANGED <<exists, faulty>>
           \/ ~IsEmpty(d) /\ Go(t, "report") /\ UNCHANGED <<exists, faulty>>
           \/ /\ d \in exists /\ IsEmpty(d)
              /\ faulty' = faulty \cup {d}
              /\ Go(t, "report") /\ UNCHANGED exists
        /\ UNCHANGED <<planVars, at, managerVars, jobCancelled, processes, orphans>>

(* After a success its entry goes, and it is a deleted child itself.       *)
Forget(t) ==
    /\ rmPc[t] = "forget"
    /\ tracked' = tracked \ {at[t]}
    /\ deleter' = deleter \ {at[t]}
    /\ children' = [children EXCEPT ![at[t]] = 0]
    /\ Go(t, "recordDeleted")
    /\ UNCHANGED <<planVars, exists, at, jobCancelled, processes, removalHistoryVars>>

(* SetStatus for a folder, which "has no choice", and ReportTransferDone.  *)
Report(t) ==
    /\ rmPc[t] = "report"
    /\ rmStatus' = [rmStatus EXCEPT ![t] = IF t \in Folders THEN "Success" ELSE @]
    /\ Go(t, "done")
    /\ UNCHANGED <<location, exists, at, managerVars, jobCancelled, processes,
                   removalHistoryVars>>

-----------------------------------------------------------------------------
CancelRemoval ==
    /\ ~jobCancelled
    /\ jobCancelled' = TRUE
    /\ UNCHANGED <<planVars, exists, rmPc, at, managerVars, processes, removalHistoryVars>>

(* The process is killed, or it ends after a "403 forbidden"; the next one *)
(* schedules what has not succeeded and knows nothing of the folders.      *)
Restart ==
    /\ processes < MaxProcesses
    /\ \E t \in Transfers : rmPc[t] # "done"
    /\ processes' = processes + 1
    /\ jobCancelled' = FALSE
    /\ rmPc' = [t \in Transfers |-> IF rmStatus[t] = "Success" THEN "done" ELSE "todo"]
    /\ at' = [t \in Transfers |-> t]
    /\ rmStatus' = [t \in Transfers |->
                       IF rmStatus[t] = "Failed" THEN "Restarted" ELSE rmStatus[t]]
    /\ children' = [d \in Tracked |-> 0]
    /\ tracked' = {} /\ deleter' = {}
    /\ orphans' = orphans \cup {d \in Folders \cap exists : rmStatus[d] = "Success"}
    /\ UNCHANGED <<location, exists, faulty>>

RemovalStep(t) ==
    \/ StartCancelled(t) \/ StartFileShareEntry(t) \/ StartOther(t)
    \/ (t \in Folders /\ RequestDeletion(t))
    \/ DropChunk(t) \/ DeleteChunk(t)
    \/ RecordChildDeleted(t) \/ TryDeletion(t) \/ Forget(t) \/ Report(t)

RMNext == (\E t \in Transfers : RemovalStep(t)) \/ CancelRemoval \/ Restart

(* The initiators and the chunk processors go on.                          *)
RMFairness == \A t \in Transfers : WF_rmVars(RemovalStep(t))

RMSpec == RMInit /\ [][RMNext]_rmVars /\ RMFairness

-----------------------------------------------------------------------------
RMTypeOK ==
    /\ location \in {"File", "Blob", "BlobFS"}
    /\ exists \subseteq Transfers \cup {Root}
    /\ rmPc \in [Transfers -> {"todo", "request", "queued", "dropped", "recordDeleted", "try",
                              "forget", "report", "done"}]
    /\ \A t \in Transfers : at[t] \in Transfers
    /\ rmStatus \in [Transfers -> {"Started", "Restarted", "Success", "Failed",
                                  "SkippedBlobHasSnapshots"}]
    /\ children \in [Tracked -> 0..Cardinality(Transfers)]
    /\ tracked \subseteq Tracked /\ deleter \subseteq tracked

Ended == \A t \in Transfers : rmPc[t] \in {"done", "dropped"}

(* x and everything below it.                                              *)
Below[x \in Transfers \cup {Root}] ==
    {x} \cup UNION {Below[y] : y \in {z \in Transfers : Parent[z] = x}}

(* However the attempts of several goroutines overlap, a folder that is    *)
(* still there at the end has something in it that could not be deleted or *)
(* was not asked for any more: no attempt is made too early and never      *)
(* repeated (folderDeletionManager.go).                                    *)
OnlyFailuresKeepAFolder ==
    Ended /\ location = "File" =>
        \A d \in Folders \cap exists :
            \E x \in Below[d] \cap exists : x \in faulty \cup orphans \/ rmStatus[x] # "Success"

(* A file or blob that is reported as removed is gone (transferDone).      *)
SuccessMeansRemoved == \A t \in Files : rmStatus[t] = "Success" => t \notin exists

(* Every transfer is reported, or dropped by a cancellation.               *)
EveryRemovalEnds == \A t \in Transfers : []<>(rmPc[t] \in {"done", "dropped"})

(* Every transfer is reported: "If the transfer was cancelled, then       *)
(* reporting transfer as done" (xfer-deleteFile.go).                       *)
EveryRemovalIsReported == \A t \in Transfers : []<>(rmPc[t] = "done")

(* What was to be removed is gone at the end, or there is a failure to     *)
(* account for it.                                                         *)
RemovalInv ==
    /\ RMTypeOK
    /\ OnlyFailuresKeepAFolder
    /\ SuccessMeansRemoved
=============================================================================
