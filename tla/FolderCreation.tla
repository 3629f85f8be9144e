--------------------------- MODULE FolderCreation ---------------------------
(***************************************************************************)
(* The folders of a copy job: jpptFolderTracker and its users.             *)
(*                                                                         *)
(* A folder is created by whoever needs it first, its own transfer or one  *)
(* of a file below it, and the tracker remembers that this job did it, in  *)
(* the status of the folder's transfer ("FolderCreated"), so that with     *)
(* --overwrite=false only those folders get properties.  A folder whose    *)
(* part has not been scheduled yet is remembered in memory.                *)
(*                                                                         *)
(*   "local"  CreateDirectoryIfNotExist looks for the folder, then for the *)
(*            ones above it, and makes what is missing from the top        *)
(*   "share"  CreateDirToRoot asks for every folder from the top; one that *)
(*            exists is no error (Azure Files)                             *)
(*   "blob"   a folder is a blob of its own, which only its own transfer   *)
(*            makes, with its properties; one that exists is replaced      *)
(*                                                                         *)
(* All parts have been ordered, so that the job may be killed, or          *)
(* cancelled, and resumed.                                                 *)
(***************************************************************************)
EXTENDS Integers, Sequences, FiniteSets, SequencesExt

CONSTANTS Destinations,  \* a subset of {"local", "share", "blob"}
          Overwrites,    \* a subset of {"true", "false", "prompt"}
          CopyFolders, CopyFiles,
          Top,           \* where the job copies to; it exists
          FolderOf,      \* the folder, or Top, of each of them
          Schedule,      \* a sequence: the order of the plan files
          MaxRuns        \* bound: processes that work at the job

Copies == CopyFolders \cup CopyFiles

(* The folders are a tree: any of them have an outermost one.  A transfer  *)
(* is in one plan file, once.                                              *)
ASSUME CopyAssumption ==
    /\ Destinations \subseteq {"local", "share", "blob"}
    /\ Overwrites \subseteq {"true", "false", "prompt"}
    /\ CopyFolders \cap CopyFiles = {} /\ Top \notin Copies
    /\ FolderOf \in [Copies -> CopyFolders \cup {Top}]
    /\ \A some \in SUBSET CopyFolders :
         some # {} => \E d \in some : FolderOf[d] \notin some
    /\ Schedule \in Seq(Copies) /\ ToSet(Schedule) = Copies
    /\ \A i, j \in DOMAIN Schedule : Schedule[i] = Schedule[j] => i = j
    /\ MaxRuns \in Nat \ {0}

VARIABLES
    dest, overwrite,   \* of the job
    there,             \* the folders that exist
    withProperties,    \* folders that got their properties from the job
    fcStatus,          \* in the plan files
    runs,              \* processes so far
    scheduled,         \* transfers of Schedule scheduled by this one
    jobStopped,        \* cancelled
    fcPc, fcAt,        \* what each transfer is doing, and for which folder
    contents,          \* the folders with a registered transfer
    unregisteredButCreated,
    mu,                \* the holder of the tracker's lock, or Top
    \* for the properties
    before,            \* the folders that existed before the job
    forgotten          \* those the job made and has forgotten that it did

fcPlan == <<dest, overwrite, fcStatus>>
fcWorld == <<there, withProperties>>
trackerState == <<contents, unregisteredButCreated, mu>>
fcHistory == <<before, forgotten>>
fcVars == <<fcPlan, fcWorld, runs, scheduled, jobStopped, fcPc, fcAt, trackerState, fcHistory>>

HasItsParents(s) == \A d \in s : FolderOf[d] \in s \cup {Top}

FCInit ==
    /\ dest \in Destinations /\ overwrite \in Overwrites
    /\ there \in {s \in SUBSET CopyFolders : HasItsParents(s)}
    /\ withProperties = {}
    /\ fcStatus = [t \in Copies |-> "Started"]
    /\ runs = 1 /\ scheduled = 0 /\ jobStopped = FALSE
    /\ fcPc = [t \in Copies |-> "planned"]
    /\ fcAt = [t \in Copies |-> t]
    /\ contents = {} /\ unregisteredButCreated = {} /\ mu = Top
    /\ before = there /\ forgotten = {}

(* The folder a transfer needs. *)
Needs(t) == IF t \in CopyFolders THEN t ELSE FolderOf[t]

(* d and the folders above it; the next of them from a towards d. *)
PathTo(d) ==
    {x \in CopyFolders :
        \A s \in SUBSET CopyFolders : d \in s \cup {Top} /\ HasItsParents(s) => x \in s}

Towards(a, d) == CHOOSE x \in PathTo(d) : FolderOf[x] = a

FirstOf(d) == CHOOSE x \in PathTo(d) : FolderOf[x] = Top

(* SetTransferStatus leaves a settled status as it is. *)
Locked(status) == status \in {"Success", "Failed", "Skipped", "Cancelled"}

WithStatus(t, status) == IF Locked(fcStatus[t]) THEN fcStatus ELSE [fcStatus EXCEPT ![t] = status]

(* A status that replaces FolderCreated forgets who made the folder. *)
Forgets(t, status) ==
    IF fcStatus[t] = "FolderCreated" /\ status # "Success" THEN {t} ELSE {}

MutIsCreatedByUs(d) == d \in contents /\ fcStatus[d] # "Started"  \* a resumed folder counts

IsCreatedByUs(d) == d \in contents /\ fcStatus[d] = "FolderCreated"

FcGo(t, pc) == fcPc' = [fcPc EXCEPT ![t] = pc]

-----------------------------------------------------------------------------
(* RegisterPropertiesTransfer. *)
Register(t) ==
    /\ contents' = contents \cup {t}
    /\ fcStatus' = IF t \in unregisteredButCreated
                   THEN WithStatus(t, "FolderCreated") ELSE fcStatus
    /\ unregisteredButCreated' = unregisteredButCreated \ {t}

(* The folders among the transfers are registered. *)
IsRegistered(t) == t \in CopyFolders

(* ScheduleTransfers: what has succeeded is passed over. *)
ScheduleTransfer ==
    /\ scheduled < Len(Schedule) /\ mu = Top
    /\ scheduled' = scheduled + 1
    /\ LET t == Schedule[scheduled + 1]
       IN  IF fcStatus[t] = "Success"
           THEN FcGo(t, "done") /\ UNCHANGED <<fcStatus, contents, unregisteredButCreated>>
           ELSE /\ FcGo(t, "start")
                /\ IF IsRegistered(t) THEN Register(t)
                   ELSE UNCHANGED <<fcStatus, contents, unregisteredButCreated>>
    /\ UNCHANGED <<dest, overwrite, fcWorld, runs, jobStopped, fcAt, mu, fcHistory>>

(* The first lines of a transfer; a blob's file needs no folder. *)
StartCopy(t) ==
    /\ fcPc[t] = "start"
    /\ IF jobStopped
       THEN /\ FcGo(t, "done") /\ UNCHANGED fcAt
            /\ fcStatus' = WithStatus(t, "Cancelled")
            /\ forgotten' = forgotten \cup Forgets(t, "Cancelled")
       ELSE /\ UNCHANGED <<fcStatus, forgotten>>
            /\ \/ /\ Needs(t) = Top \/ (dest = "blob" /\ t \in CopyFiles)
                  /\ FcGo(t, "complete") /\ UNCHANGED fcAt
               \/ /\ Needs(t) # Top /\ dest = "local"
                  /\ FcGo(t, "stat") /\ fcAt' = [fcAt EXCEPT ![t] = Needs(t)]
               \/ /\ Needs(t) # Top /\ dest = "share"
                  /\ FcGo(t, "create") /\ fcAt' = [fcAt EXCEPT ![t] = FirstOf(Needs(t))]
               \/ /\ dest = "blob" /\ t \in CopyFolders
                  /\ FcGo(t, "probe") /\ fcAt' = [fcAt EXCEPT ![t] = t]
    /\ UNCHANGED <<dest, overwrite, fcWorld, runs, scheduled, jobStopped, trackerState, before>>

-----------------------------------------------------------------------------
(* CreateDirectoryIfNotExist: up to a folder that exists, then down.       *)

Ensured(t) == IF t \in CopyFolders THEN "properties" ELSE "complete"

Stat(t) ==
    LET d == fcAt[t]
    IN  /\ fcPc[t] = "stat"
        /\ IF d \in there
           THEN IF d = Needs(t) THEN FcGo(t, Ensured(t)) /\ UNCHANGED fcAt
                ELSE FcGo(t, "create") /\ fcAt' = [fcAt EXCEPT ![t] = Towards(d, Needs(t))]
           ELSE IF FolderOf[d] = Top THEN FcGo(t, "create") /\ UNCHANGED fcAt
                ELSE fcAt' = [fcAt EXCEPT ![t] = FolderOf[d]] /\ UNCHANGED fcPc
        /\ UNCHANGED <<fcPlan, fcWorld, runs, scheduled, jobStopped, trackerState, fcHistory>>

(* What follows a call of CreateFolder: the next folder of the path; after *)
(* the last, whether it is there.                                          *)
AfterCreate(t, ok) ==
    LET d == fcAt[t]
        goesOn == dest = "local" \/ ok
    IN  IF goesOn /\ d # Needs(t)
        THEN FcGo(t, "create") /\ fcAt' = [fcAt EXCEPT ![t] = Towards(d, Needs(t))]
        ELSE FcGo(t, IF ok THEN Ensured(t) ELSE "failEnsure") /\ UNCHANGED fcAt

(* CreateFolder, for a folder this job has made before.                    *)
AlreadyCreated(t) ==
    LET d == fcAt[t]
    IN  /\ fcPc[t] = "create" /\ mu = Top
        /\ IsCreatedByUs(d) \/ d \in unregisteredButCreated
        /\ AfterCreate(t, dest = "blob" \/ d \in there)
        /\ UNCHANGED <<fcPlan, fcWorld, runs, scheduled, jobStopped, trackerState, fcHistory>>

MayCreate(d) == ~IsCreatedByUs(d) /\ d \notin unregisteredButCreated

(* doCreation makes the folder; the lock is held until that is recorded.   *)
(* A blob has its properties from the start.                               *)
DoCreation(t) ==
    LET d == fcAt[t]
    IN  /\ fcPc[t] = "create" /\ mu = Top
        /\ MayCreate(d)
        /\ d \notin there
        /\ dest = "blob" \/ FolderOf[d] \in there \cup {Top}
        /\ dest = "local" \/ ~jobStopped
        /\ there' = there \cup {d}
        /\ withProperties' = IF dest = "blob" THEN withProperties \cup {d} ELSE withProperties
        /\ mu' = t
        /\ FcGo(t, "mark")
        /\ UNCHANGED <<fcPlan, runs, scheduled, jobStopped, fcAt, contents,
                       unregisteredButCreated, fcHistory>>

(* It fails, or the folder exists.  For a blob the error ends the transfer *)
(* unless that is cancelled, and is not handed to the tracker.             *)
CreationFails(t) ==
    LET d == fcAt[t]
    IN  /\ fcPc[t] = "create" /\ mu = Top
        /\ MayCreate(d)
        /\ IF dest = "blob"
           THEN /\ fcStatus' = IF jobStopped THEN fcStatus ELSE WithStatus(t, "Failed")
                /\ mu' = t
                /\ FcGo(t, "mark") /\ UNCHANGED fcAt
           ELSE /\ UNCHANGED <<fcStatus, mu>>
                /\ AfterCreate(t, d \in there)
        /\ UNCHANGED <<dest, overwrite, fcWorld, runs, scheduled, jobStopped, contents,
                       unregisteredButCreated, fcHistory>>

MutMarkCreated(t) ==  \* returns early, with the lock, if the folder is not registered
    LET d == fcAt[t]
    IN  /\ fcPc[t] = "mark"
        /\ fcStatus' = IF d \in contents THEN WithStatus(d, "FolderCreated") ELSE fcStatus
        /\ mu' = IF d \in contents THEN Top ELSE mu
        /\ AfterCreate(t, TRUE)
        /\ UNCHANGED <<dest, overwrite, fcWorld, runs, scheduled, jobStopped, contents,
                       unregisteredButCreated, fcHistory>>

(* The rest of CreateFolder. *)
MarkCreated(t) ==
    LET d == fcAt[t]
    IN  /\ fcPc[t] = "mark"
        /\ fcStatus' = IF d \in contents THEN WithStatus(d, "FolderCreated") ELSE fcStatus
        /\ unregisteredButCreated' =
             IF d \in contents THEN unregisteredButCreated ELSE unregisteredButCreated \cup {d}
        /\ mu' = Top
        /\ forgotten' = IF d \in contents /\ Locked(fcStatus[d]) /\ d \in there
                        THEN forgotten \cup {d} ELSE forgotten
        /\ AfterCreate(t, TRUE)
        /\ UNCHANGED <<dest, overwrite, fcWorld, runs, scheduled, jobStopped, contents, before>>

-----------------------------------------------------------------------------
(* ShouldSetProperties; the user is asked about folders of others.         *)
ShouldSet(t, answer) ==
    CASE overwrite = "true"  -> TRUE
      [] overwrite = "false" -> IsCreatedByUs(t)
      [] OTHER               -> IsCreatedByUs(t) \/ answer

Answerable == IF overwrite = "prompt" THEN BOOLEAN ELSE {FALSE}

Settle(t, status) ==
    /\ fcStatus' = WithStatus(t, status)
    /\ forgotten' = forgotten \cup Forgets(t, status)

(* EnsureFolderExists of a blob folder: what exists makes way, or stays.   *)
ProbeBlobFolder(t) ==
    /\ fcPc[t] = "probe" /\ mu = Top
    /\ \E answer \in Answerable :
         \/ /\ t \notin there /\ ~jobStopped
            /\ FcGo(t, "create") /\ UNCHANGED <<there, withProperties, fcStatus, forgotten>>
         \/ /\ t \in there /\ ~jobStopped /\ ShouldSet(t, answer)
            /\ there' = there \ {t} /\ withProperties' = withProperties \ {t}
            /\ FcGo(t, "create") /\ UNCHANGED <<fcStatus, forgotten>>
         \/ /\ t \in there /\ ~jobStopped /\ ~ShouldSet(t, answer)
            /\ Settle(t, "Skipped")
            /\ FcGo(t, "done") /\ UNCHANGED <<there, withProperties>>
         \/ \* a request fails, or is cancelled
            FcGo(t, "failEnsure") /\ UNCHANGED <<there, withProperties, fcStatus, forgotten>>
    /\ UNCHANGED <<dest, overwrite, runs, scheduled, jobStopped, fcAt, trackerState, before>>

(* A folder that exists: its properties, or not.  StopTracking comes with  *)
(* the end of the transfer.                                                *)
SetProperties(t) ==
    /\ fcPc[t] = "properties" /\ mu = Top
    /\ \E answer \in Answerable, ok \in BOOLEAN :
         IF ~ShouldSet(t, answer)
         THEN /\ Settle(t, "Skipped")
              /\ contents' = contents \ {t}
              /\ FcGo(t, "done") /\ UNCHANGED withProperties
         ELSE /\ ok => dest \in {"local", "blob"} \/ ~jobStopped
              /\ dest = "blob" => ok
              /\ withProperties' = IF ok /\ dest # "blob"
                                   THEN withProperties \cup {t} ELSE withProperties
              /\ FcGo(t, IF ok THEN "complete" ELSE "fail")
              /\ UNCHANGED <<fcStatus, forgotten, contents>>
    /\ UNCHANGED <<dest, overwrite, there, runs, scheduled, jobStopped, fcAt,
                   unregisteredButCreated, mu, before>>

(* FailActiveSend and FailActiveDownload do nothing after a cancellation.  *)
(* A sender stops the tracking only of a folder that exists.               *)
FailCopy(t) ==
    /\ fcPc[t] \in {"fail", "failEnsure"}
    /\ IF jobStopped THEN UNCHANGED <<fcStatus, forgotten>> ELSE Settle(t, "Failed")
    /\ FcGo(t, IF fcPc[t] = "failEnsure" /\ dest # "local" THEN "finish" ELSE "complete")
    /\ UNCHANGED <<dest, overwrite, fcWorld, runs, scheduled, jobStopped, fcAt, trackerState,
                   before>>

(* The standard completion, and StopTracking.                              *)
CompleteCopy(t) ==
    /\ fcPc[t] \in {"complete", "finish"} /\ mu = Top
    /\ fcStatus' = IF jobStopped THEN fcStatus ELSE WithStatus(t, "Success")
    /\ contents' = IF fcPc[t] = "complete" THEN contents \ {t} ELSE contents
    /\ FcGo(t, "done")
    /\ UNCHANGED <<dest, overwrite, fcWorld, runs, scheduled, jobStopped, fcAt,
                   unregisteredButCreated, mu, fcHistory>>

-----------------------------------------------------------------------------
StopJob ==
    /\ ~jobStopped
    /\ jobStopped' = TRUE
    /\ UNCHANGED <<fcPlan, fcWorld, runs, scheduled, fcPc, fcAt, trackerState, fcHistory>>

(* The process is killed, or has ended, and the next one resumes the job   *)
(* from the statuses in the plan files (ResumeJobOrder).                   *)
ResumeCopy ==
    /\ runs < MaxRuns
    /\ runs' = runs + 1
    /\ scheduled' = 0 /\ jobStopped' = FALSE
    /\ fcPc' = [t \in Copies |-> "planned"]
    /\ fcAt' = [t \in Copies |-> t]
    /\ contents' = {} /\ unregisteredButCreated' = {} /\ mu' = Top
    /\ fcStatus' = [t \in Copies |-> IF fcStatus[t] \in {"Failed", "Skipped", "Cancelled"}
                                     THEN "Restarted" ELSE fcStatus[t]]
    /\ forgotten' = forgotten \cup unregisteredButCreated
                      \cup {fcAt[t] : t \in {x \in Copies : fcPc[x] = "mark"}}
    /\ UNCHANGED <<dest, overwrite, fcWorld, before>>

CopyStep(t) ==
    \/ StartCopy(t) \/ Stat(t) \/ AlreadyCreated(t) \/ DoCreation(t) \/ CreationFails(t)
    \/ MarkCreated(t) \/ (t \in CopyFolders /\ (ProbeBlobFolder(t) \/ SetProperties(t)))
    \/ FailCopy(t) \/ CompleteCopy(t)

FCNext == ScheduleTransfer \/ (\E t \in Copies : CopyStep(t)) \/ StopJob \/ ResumeCopy

(* The scheduler and the initiators go on. *)
FCFairness ==
    WF_fcVars(ScheduleTransfer) /\ \A t \in Copies : WF_fcVars(CopyStep(t))

FCSpec == FCInit /\ [][FCNext]_fcVars /\ FCFairness

-----------------------------------------------------------------------------
FCTypeOK ==
    /\ dest \in Destinations /\ overwrite \in Overwrites
    /\ there \subseteq CopyFolders /\ withProperties \subseteq there
    /\ fcStatus \in [Copies -> {"Started", "FolderCreated", "Restarted", "Success", "Failed",
                               "Skipped", "Cancelled"}]
    /\ runs \in 1..MaxRuns /\ scheduled \in 0..Len(Schedule) /\ jobStopped \in BOOLEAN
    /\ fcPc \in [Copies -> {"planned", "start", "stat", "probe", "create", "mark", "properties",
                           "fail", "failEnsure", "complete", "finish", "done"}]
    /\ fcAt \in [Copies -> Copies]
    /\ contents \subseteq CopyFolders /\ unregisteredButCreated \subseteq CopyFolders \ contents
    /\ mu \in Copies \cup {Top}

(* With --overwrite=false the properties of a folder are passed over only  *)
(* if it was there before the job, or if the job has forgotten that it     *)
(* made it itself: its process died with that in memory, or the transfer's *)
(* own failure or cancellation replaced the mark, or came before it        *)
(* (folderCreationTracker.go).                                             *)
OnlyForeignFoldersAreSkipped ==
    \A d \in CopyFolders :
        fcStatus[d] = "Skipped" /\ overwrite = "false" => d \in before \cup forgotten

(* ... and a folder that was there before the job is never given any       *)
(* ("we only set folder properties on folders which were created by the    *)
(* current job", folderCreationTracker_interface.go).                      *)
ForeignFoldersKeepTheirs == overwrite = "false" => withProperties \cap before = {}

(* The first of these without the exception.                               *)
OwnFoldersAreNeverSkipped ==
    \A d \in CopyFolders :
        fcStatus[d] = "Skipped" /\ overwrite = "false" => d \in before

(* A folder, or a file, whose transfer has succeeded is in its place: its  *)
(* folder exists, and so do the ones above it.                             *)
SuccessMeansCreated ==
    dest # "blob" =>
        \A t \in Copies : fcStatus[t] = "Success" => PathTo(Needs(t)) \subseteq there

(* The same of a blob that stands for a folder (EnsureFolderExists).       *)
SuccessMeansBlobCreated ==
    dest = "blob" => \A d \in CopyFolders : fcStatus[d] = "Success" => d \in there

(* ShouldSetProperties and StopTracking panic for a folder that is not     *)
(* registered.                                                             *)
EveryFolderIsTracked ==
    \A d \in CopyFolders : fcPc[d] \in {"probe", "properties", "complete"} => d \in contents

(* However the transfers that need the same folder wait for one another,   *)
(* each of them ends.                                                      *)
EveryCopyEnds == \A t \in Copies : []<>(fcPc[t] = "done")

(* Folders are made once and in time, and get their properties from the    *)
(* job exactly when they are its own.                                      *)
FolderInv ==
    /\ FCTypeOK
    /\ OnlyForeignFoldersAreSkipped
    /\ ForeignFoldersKeepTheirs
    /\ SuccessMeansCreated
    /\ EveryFolderIsTracked
=============================================================================
