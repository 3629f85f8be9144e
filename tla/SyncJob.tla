------------------------------- MODULE SyncJob -------------------------------
(***************************************************************************)
(* "azcopy sync": one side is listed into an index, the other is compared  *)
(* with it while it is listed, and what is left in the index is dealt with *)
(* at the end (SyncEnumerator).                                            *)
(*                                                                         *)
(*   uploads       the source is indexed; syncDestinationComparator copies *)
(*                 what is out of date and deletes what the source has not;*)
(*                 the rest of the index is copied at the end              *)
(*   other kinds   the destination is indexed; syncSourceComparator copies;*)
(*                 the rest of the index is deleted at the end             *)
(*                                                                         *)
(* copyTransferProcessor sends the copies in parts to the engine, which    *)
(* works at them at once; the progress reporter ends the program when the  *)
(* job is done.                                                            *)
(***************************************************************************)
EXTENDS Integers, Sequences, FiniteSets

CONSTANTS Objects,          \* relative paths, in lower case
          PartCapacity,     \* NumOfFilesPerDispatchJobPart
          UploadsFirst,     \* the scan orders: TRUE for uploads
          Comparisons,      \* a subset of {"time", "hash", "mirror"}
          DeleteOptions,    \* of --delete-destination: {"true", "false", "prompt"}
          UnreadableCases   \* whether the source may have what cannot be read

ASSUME SyncAssumption ==
    /\ PartCapacity \in Nat \ {0}
    /\ UploadsFirst \subseteq BOOLEAN /\ UnreadableCases \subseteq BOOLEAN
    /\ Comparisons \subseteq {"time", "hash", "mirror"}
    /\ DeleteOptions \subseteq {"true", "false", "prompt"}

(* What the two sides have under one path: whether the source's version is *)
(* more recent, what is known of its hash, whether the source's can be     *)
(* read, and whether the destination spells the path in capitals.          *)
Pairs == [source : BOOLEAN, target : BOOLEAN, newer : BOOLEAN,
          hash : {"missing", "same", "differs"}, readable : BOOLEAN, capitals : BOOLEAN]

IsCanonical(p) ==
    /\ p.source \/ p.target
    /\ ~(p.source /\ p.target) => ~p.newer /\ p.hash = "missing"
    /\ p.hash # "missing" => ~p.newer           \* it is not looked at
    /\ ~p.source => p.readable
    /\ ~p.readable => ~p.newer /\ p.hash = "missing"
    /\ p.target \/ ~p.capitals

VARIABLES
    uploads, comparison, ignoresCase,   \* of the command
    pair,          \* what there is under each path
    phase,         \* of the enumeration
    leftToList,        \* paths that the present listing has not come to
    indexMap,      \* names in the index
    toFinish,      \* names of the index that finalize has not come to
    transfers,     \* the list of the part that is being filled
    sentParts,     \* the parts sent
    finalSent,     \* the last one has been
    asksEachTime, shouldDelete, deletionCount,
    attempted,     \* paths whose deletion was tried
    deleted,       \* those that are gone
    kept,          \* those the user, or the option, kept
    toCopy,        \* transfers that the engine has not ended
    message        \* with which the program ended, or "none"

options == <<uploads, comparison, ignoresCase>>
listing == <<leftToList, indexMap, toFinish>>
copying == <<transfers, sentParts, finalSent, toCopy>>
deleting == <<asksEachTime, shouldDelete, deletionCount, attempted, deleted, kept>>
syVars == <<options, pair, phase, listing, copying, deleting, message>>

SourcePaths == {o \in Objects : pair[o].source /\ pair[o].readable}
TargetPaths == {o \in Objects : pair[o].target}

(* A name is a path and whether it is spelt in capitals. *)
Name(o, capitals) == <<o, capitals>>
SourceName(o) == Name(o, FALSE)
TargetName(o) == Name(o, pair[o].capitals)

(* The key of the index.  *)
Key(name) == IF ignoresCase THEN Name(name[1], FALSE) ELSE name

NothingCompared ==
    /\ phase = "primary"
    /\ leftToList = IF uploads THEN SourcePaths ELSE TargetPaths
    /\ indexMap = {} /\ toFinish = {}
    /\ transfers = {} /\ sentParts = <<>> /\ finalSent = FALSE /\ toCopy = {}
    /\ \E option \in DeleteOptions :
         asksEachTime = (option = "prompt") /\ shouldDelete = (option = "true")
    /\ deletionCount = 0 /\ attempted = {} /\ deleted = {} /\ kept = {}
    /\ message = "none"

SYInit ==
    /\ uploads \in UploadsFirst /\ comparison \in Comparisons
    /\ ignoresCase \in IF uploads THEN {FALSE} ELSE BOOLEAN
    /\ \E unreadable \in UnreadableCases :
         pair \in [Objects -> {p \in Pairs : IsCanonical(p) /\ (ignoresCase \/ ~p.capitals)
                                                           /\ (unreadable \/ p.readable)}]
    /\ NothingCompared

-----------------------------------------------------------------------------
(* scheduleCopyTransfer: a part is sent before the next copy is put down,  *)
(* so that the last one is never empty.                                    *)
ScheduleCopy(o) ==
    /\ IF Cardinality(transfers) = PartCapacity
       THEN /\ sentParts' = Append(sentParts, transfers)
            /\ toCopy' = toCopy \cup transfers
            /\ transfers' = {o}
       ELSE transfers' = transfers \cup {o} /\ UNCHANGED <<sentParts, toCopy>>
    /\ UNCHANGED finalSent

(* promptForConfirmation: whether to delete, and whether to ask again.     *)
DeletionAnswers == BOOLEAN \X BOOLEAN

(* removeImmediately counts what it has tried to delete.                   *)
RemoveExtra(o) ==
    \E answer \in IF asksEachTime THEN DeletionAnswers ELSE {<<shouldDelete, FALSE>>} :
        /\ shouldDelete' = answer[1] /\ asksEachTime' = answer[2]
        /\ IF answer[1]
           THEN /\ deletionCount' = deletionCount + 1
                /\ attempted' = attempted \cup {o}
                /\ deleted' \in {deleted, deleted \cup {o}}
                /\ UNCHANGED kept
           ELSE kept' = kept \cup {o} /\ UNCHANGED <<deletionCount, attempted, deleted>>

(* The comparison of the two versions of a file.                           *)
NeedsCopy(o) ==
    CASE comparison = "mirror" -> TRUE
      [] comparison = "hash"   -> \/ pair[o].hash = "differs"
                                  \/ pair[o].hash = "missing" /\ pair[o].newer
      [] OTHER                 -> pair[o].newer

-----------------------------------------------------------------------------
(* Store. *)
ListPrimary(o) ==
    /\ phase = "primary" /\ o \in leftToList
    /\ leftToList' = leftToList \ {o}
    /\ indexMap' = indexMap \cup {Key(IF uploads THEN SourceName(o) ELSE TargetName(o))}
    /\ UNCHANGED <<options, pair, phase, toFinish, copying, deleting, message>>

PrimaryListed ==
    /\ phase = "primary" /\ leftToList = {}
    /\ phase' = "secondary"
    /\ leftToList' = IF uploads THEN TargetPaths ELSE SourcePaths
    /\ UNCHANGED <<options, pair, indexMap, toFinish, copying, deleting, message>>

MutCompareDestination(o) ==  \* what has been compared stays in the index
    /\ phase = "secondary" /\ uploads /\ o \in leftToList
    /\ leftToList' = leftToList \ {o}
    /\ IF TargetName(o) \in indexMap
       THEN /\ IF NeedsCopy(o) THEN ScheduleCopy(o) ELSE UNCHANGED copying
            /\ UNCHANGED deleting
       ELSE RemoveExtra(o) /\ UNCHANGED copying
    /\ UNCHANGED <<options, pair, phase, indexMap, toFinish, message>>

(* processIfNecessary of syncDestinationComparator.                        *)
CompareDestination(o) ==
    /\ phase = "secondary" /\ uploads /\ o \in leftToList
    /\ leftToList' = leftToList \ {o}
    /\ IF TargetName(o) \in indexMap
       THEN /\ indexMap' = indexMap \ {TargetName(o)}
            /\ IF NeedsCopy(o) THEN ScheduleCopy(o) ELSE UNCHANGED copying
            /\ UNCHANGED deleting
       ELSE RemoveExtra(o) /\ UNCHANGED <<indexMap, copying>>
    /\ UNCHANGED <<options, pair, phase, toFinish, message>>

(* processIfNecessary of syncSourceComparator.                             *)
CompareSource(o) ==
    /\ phase = "secondary" /\ ~uploads /\ o \in leftToList
    /\ leftToList' = leftToList \ {o}
    /\ indexMap' = indexMap \ {Key(SourceName(o))}
    /\ IF Key(SourceName(o)) \in indexMap => NeedsCopy(o)
       THEN ScheduleCopy(o)
       ELSE UNCHANGED copying
    /\ UNCHANGED <<options, pair, phase, toFinish, deleting, message>>

SecondaryListed ==
    /\ phase = "secondary" /\ leftToList = {}
    /\ phase' = "rest"
    /\ toFinish' = indexMap
    /\ UNCHANGED <<options, pair, leftToList, indexMap, copying, deleting, message>>

(* A listing that fails for good, or a part that is refused, ends it all.  *)
EnumerationFails ==
    /\ phase \in {"primary", "secondary"} /\ message = "none"
    /\ phase' = "ended" /\ message' = "failed"
    /\ UNCHANGED <<options, pair, listing, copying, deleting>>

(* finalize: the rest of the index. *)
FinishOne(name) ==
    /\ phase = "rest" /\ name \in toFinish
    /\ toFinish' = toFinish \ {name}
    /\ IF uploads THEN ScheduleCopy(name[1]) /\ UNCHANGED deleting
       ELSE RemoveExtra(name[1]) /\ UNCHANGED copying
    /\ UNCHANGED <<options, pair, phase, leftToList, indexMap, message>>

(* dispatchFinalPart and quitIfInSync. *)
DispatchFinalPart ==
    /\ phase = "rest" /\ toFinish = {}
    /\ IF transfers # {}
       THEN /\ sentParts' = Append(sentParts, transfers)
            /\ toCopy' = toCopy \cup transfers
            /\ transfers' = {} /\ finalSent' = TRUE
            /\ phase' = "dispatched" /\ UNCHANGED message
       ELSE /\ phase' = "ended"
            /\ message' = IF deletionCount > 0 THEN "now in sync" ELSE "already in sync"
            /\ UNCHANGED copying
    /\ UNCHANGED <<options, pair, listing, deleting>>

-----------------------------------------------------------------------------
(* The engine; its job is done when it has had the last part.              *)
EngineCopies(o) ==
    /\ o \in toCopy /\ phase # "ended"
    /\ toCopy' = toCopy \ {o}
    /\ UNCHANGED <<options, pair, phase, listing, transfers, sentParts, finalSent>>
    /\ UNCHANGED <<deleting, message>>

(* ReportProgressOrExit. *)
ReporterExits ==
    /\ finalSent /\ toCopy = {} /\ phase # "ended"
    /\ phase' = "ended" /\ message' = "summary"
    /\ UNCHANGED <<options, pair, listing, copying, deleting>>

SYNext ==
    \/ \E o \in Objects : ListPrimary(o) \/ CompareDestination(o) \/ CompareSource(o)
                          \/ EngineCopies(o)
    \/ PrimaryListed \/ SecondaryListed \/ EnumerationFails
    \/ \E name \in toFinish : FinishOne(name)
    \/ DispatchFinalPart \/ ReporterExits

SYSpec == SYInit /\ [][SYNext]_syVars

-----------------------------------------------------------------------------
Ordered == transfers \cup UNION {sentParts[i] : i \in DOMAIN sentParts}

SYTypeOK ==
    /\ pair \in [Objects -> Pairs]
    /\ phase \in {"primary", "secondary", "rest", "dispatched", "ended"}
    /\ leftToList \subseteq Objects /\ transfers \subseteq Objects /\ toCopy \subseteq Objects
    /\ indexMap \subseteq Objects \X BOOLEAN /\ toFinish \subseteq indexMap
    /\ deleted \subseteq attempted /\ attempted \cap kept = {}
    /\ deletionCount = Cardinality(attempted)

(* What is deleted at the destination is not at the source, but for what   *)
(* could not be read there (removeImmediately, called by both orders).     *)
OnlyExtrasAreDeleted == \A o \in attempted : pair[o].source => ~pair[o].readable

(* ... "delete extra files from the destination that are not present at    *)
(* the source" (cmd/sync.go): without that exception.                      *)
OnlyAbsentFilesAreDeleted == \A o \in attempted : ~pair[o].source

(* Both orders come to the same: when the last part is out, what has been  *)
(* ordered is what the source has and the destination lacks or has an out- *)
(* dated version of, each of them once, and every extra object was deleted *)
(* or kept on purpose (the two comparators and finalize).                  *)
EveryDifferenceIsSettled ==
    finalSent \/ message \in {"now in sync", "already in sync"} =>
        /\ Ordered = {o \in SourcePaths : pair[o].target => NeedsCopy(o)}
        /\ attempted \cup kept = TargetPaths \ SourcePaths

(* No object is in two parts, all parts but the last are full, and a job   *)
(* that has begun gets its last part (scheduleCopyTransfer).               *)
PartsAreProper ==
    /\ \A i, j \in DOMAIN sentParts : i # j => sentParts[i] \cap sentParts[j] = {}
    /\ \A i \in DOMAIN sentParts :
         /\ sentParts[i] # {}
         /\ i < Len(sentParts) \/ ~finalSent => Cardinality(sentParts[i]) = PartCapacity
    /\ message \in {"now in sync", "already in sync"} => sentParts = <<>>

(* The program does not end, however fast the copies are, before it has    *)
(* come to every extra object ("let the deletions happen first",           *)
(* syncEnumerator.go).                                                     *)
DeletionsComeFirst ==
    message = "summary" => TargetPaths \ SourcePaths \subseteq attempted \cup kept

(* "The source and destination are now in sync" (quitIfInSync).            *)
NowInSyncIsTrue == message = "now in sync" => attempted = deleted

(* A sync copies and deletes what the reference definition of a difference *)
(* says, in proper parts and in the right order.                           *)
SyncInv ==
    /\ SYTypeOK
    /\ OnlyExtrasAreDeleted
    /\ EveryDifferenceIsSettled
    /\ PartsAreProper
    /\ DeletionsComeFirst
=============================================================================
