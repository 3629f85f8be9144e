------------------------------ MODULE LocalScan ------------------------------
(***************************************************************************)
(* The listing of a local folder (localTraverser.Traverse): the workers of *)
(* parallel.Crawl read directories and write what they find to a bounded   *)
(* channel; parallel.Walk takes it from there and calls the walk function  *)
(* of WalkWithSymlinks, which puts links to folders in a queue of further  *)
(* walks; with hashing, files of which no hash is kept go through another  *)
(* bounded channel to threads that hash them and hand them on.             *)
(*                                                                         *)
(* Directories are read in one piece (the code takes 1024 entries at a     *)
(* time).  The workers of a walk that was broken off share nothing with    *)
(* those of the next one, which is begun after them here.                  *)
(***************************************************************************)
EXTENDS Integers, Sequences, FiniteSets

CONSTANTS ScanRoot, ScanDirs, ScanFiles, ScanLinks,  \* paths
          InDir,           \* the directory each path is in
          LinkTo,          \* what each link leads to
          Nowhere,
          Excluded,        \* paths that do not pass the filters
          HashKnown,       \* files with a valid hash on the side
          CrawlWorkers, HashThreads,   \* how many of each
          OutputRoom, HashBacklog,     \* capacities of the two channels
          QueueLimit,      \* maxQueueDirectories
          ParallelStat,    \* AZCOPY_PARALLEL_STAT_FILES
          Recursions, Handlings, Hashings,   \* the options' possible values
          ScanFaults,      \* a subset of {"read", "timeout", "process"}
          MaxFaults

ScanPaths == ScanDirs \cup ScanFiles \cup ScanLinks

Children(d) == {p \in ScanPaths : InDir[p] = d}

(* A path is one thing only, and no folder is within itself: of some       *)
(* folders, one has none of them in it.                                    *)
ASSUME ScanAssumption ==
    /\ ScanRoot \in ScanDirs /\ Nowhere \notin ScanPaths
    /\ ScanDirs \cap ScanFiles = {} /\ ScanLinks \cap (ScanDirs \cup ScanFiles) = {}
    /\ InDir \in [ScanPaths -> ScanDirs \cup {Nowhere}]
    /\ LinkTo \in [ScanLinks -> ScanDirs \cup ScanFiles \cup {Nowhere}]
    /\ \A folders \in SUBSET ScanDirs :
           folders # {} => \E d \in folders : Children(d) \cap folders = {}
    /\ CrawlWorkers \in Nat \ {0} /\ HashThreads \in Nat
    /\ OutputRoom \in Nat \ {0} /\ HashBacklog \in Nat \ {0} /\ QueueLimit \in Nat
    /\ ParallelStat \in BOOLEAN /\ Recursions \subseteq BOOLEAN /\ Hashings \subseteq BOOLEAN
    /\ Handlings \subseteq {"follow", "skip", "preserve"}
    /\ ScanFaults \subseteq {"read", "timeout", "process"} /\ MaxFaults \in Nat

Workers == 0 .. CrawlWorkers - 1
Threads == 1 .. HashThreads

VARIABLES
    recursive, handling, hashing,     \* options
    main,               \* what Traverse is at
    walkQueue, seenPaths,
    toList,             \* entries that the flat listing has to come to
    entityType,         \* of that listing
    stopped,            \* a walk was broken off
    result,             \* "none" until it has returned
    worker,             \* [at, dir, remaining, found] of each crawl worker
    unstartedDirs, dirInProgressCount,
    output,             \* CrawlResults
    cancelled,          \* the walk's context; its directory reader is closed with it
    panicked,           \* a worker has sent on the closed channel of the reader
    toHash,             \* the file that the walk function is about to defer, or Nowhere
    hashTargetChannel, hashClosed, immediateStopHashing,
    thread,             \* [at, file] of each hashing thread
    hashErrors,
    processed,          \* <<path, entity type>> of what the processor got
    again,              \* paths that it got more than once
    reported,           \* paths that the error channel got
    unlisted,           \* directories whose names Readdir has lost
    faults

scanOptions == <<recursive, handling, hashing>>
walkVars == <<main, walkQueue, seenPaths, toList, entityType, stopped, result>>
crawlVars == <<worker, unstartedDirs, dirInProgressCount, output, cancelled, panicked>>
hashVars == <<toHash, hashTargetChannel, hashClosed, immediateStopHashing, thread, hashErrors>>
outcomeVars == <<processed, again, reported, unlisted, faults>>
lsVars == <<scanOptions, walkVars, crawlVars, hashVars, outcomeVars>>

KindOf(p) == IF p \in ScanDirs THEN "folder" ELSE IF p \in ScanFiles THEN "file" ELSE "symlink"

Resting == [at |-> "gone", dir |-> Nowhere, remaining |-> {}, found |-> {}]
Waiting == [Resting EXCEPT !.at = "idle"]

LSInit ==
    /\ recursive \in Recursions /\ handling \in Handlings /\ hashing \in Hashings
    /\ main = IF recursive THEN "next" ELSE "flat"
    /\ walkQueue = <<ScanRoot>> /\ seenPaths = {}
    /\ toList = Children(ScanRoot) /\ entityType = "file"
    /\ stopped = FALSE /\ result = "none"
    /\ worker = [w \in Workers |-> Resting]
    /\ unstartedDirs = {} /\ dirInProgressCount = 0 /\ output = <<>>
    /\ cancelled = FALSE /\ panicked = FALSE
    /\ toHash = Nowhere /\ hashTargetChannel = <<>> /\ hashClosed = FALSE
    /\ immediateStopHashing = FALSE /\ hashErrors = 0
    /\ thread = [t \in Threads |-> [at |-> IF hashing THEN "idle" ELSE "gone", file |-> Nowhere]]
    /\ processed = {} /\ again = {} /\ reported = {}
    /\ unlisted = {} /\ faults = 0

MayFail(fault) == fault \in ScanFaults /\ faults < MaxFaults
Fail == faults' = faults + 1

-----------------------------------------------------------------------------
(* The crawl workers: processOneDirectory. *)
TakeDirectory(w) ==
    /\ worker[w].at = "idle"
    /\ \/ \E d \in unstartedDirs :
            /\ ~cancelled
            /\ worker' = [worker EXCEPT ![w] = [@ EXCEPT !.at = "reading", !.dir = d]]
            /\ unstartedDirs' = unstartedDirs \ {d}
            /\ dirInProgressCount' = dirInProgressCount + 1
       \/ /\ cancelled \/ (unstartedDirs = {} /\ dirInProgressCount = 0)
          /\ worker' = [worker EXCEPT ![w] = Resting]
          /\ UNCHANGED <<unstartedDirs, dirInProgressCount>>
    /\ UNCHANGED <<scanOptions, walkVars, output, cancelled, panicked, hashVars, outcomeVars>>

(* enqueueOutput: the entry is dropped only when the walk was given up.    *)
Put(entry) ==
    \/ Len(output) < OutputRoom /\ output' = Append(output, entry)
    \/ cancelled /\ UNCHANGED output

(* Readdir: the names, then the information on each of them, which with    *)
(* ParallelStat goes through the channel that Close closes.  When that     *)
(* takes too long Readdir starts over, behind the names it has read.       *)
ReadDirectory(w) ==
    /\ worker[w].at = "reading"
    /\ \/ /\ ~(ParallelStat /\ cancelled /\ Children(worker[w].dir) # {})
          /\ worker' = [worker EXCEPT ![w].at = "listing",
                                      ![w].remaining = Children(worker[w].dir)]
          /\ UNCHANGED <<output, panicked, unlisted, faults>>
       \/ /\ ParallelStat /\ MayFail("timeout") /\ Fail
          /\ worker' = [worker EXCEPT ![w].at = "listing"]
          /\ unlisted' = unlisted \cup {worker[w].dir}
          /\ UNCHANGED <<output, panicked>>
       \/ /\ ParallelStat /\ cancelled /\ Children(worker[w].dir) # {}
          /\ panicked' = TRUE
          /\ UNCHANGED <<worker, output, unlisted, faults>>
       \/ /\ MayFail("read") /\ Fail
          /\ Put([path |-> worker[w].dir, ok |-> FALSE])
          /\ worker' = [worker EXCEPT ![w].at = "listing"]
          /\ UNCHANGED <<panicked, unlisted>>
    /\ UNCHANGED <<scanOptions, walkVars, unstartedDirs, dirInProgressCount, cancelled>>
    /\ UNCHANGED <<hashVars, processed, again, reported>>

PutEntry(w, p) ==
    /\ worker[w].at = "listing" /\ p \in worker[w].remaining
    /\ worker' = [worker EXCEPT ![w].remaining = @ \ {p},
                                ![w].found = IF p \in ScanDirs THEN @ \cup {p} ELSE @]
    /\ Put([path |-> p, ok |-> TRUE])
    /\ UNCHANGED <<scanOptions, walkVars, unstartedDirs, dirInProgressCount, cancelled,
                   panicked>>
    /\ UNCHANGED <<hashVars, outcomeVars>>

(* ... under the lock again; a worker may shut itself down when the queue  *)
(* is very long (lastAutoShutdown has it do so or not).                    *)
FinishDirectory(w) ==
    /\ worker[w].at = "listing" /\ worker[w].remaining = {}
    /\ unstartedDirs' = unstartedDirs \cup worker[w].found
    /\ dirInProgressCount' = dirInProgressCount - 1
    /\ \/ worker' = [worker EXCEPT ![w] = Waiting]
       \/ /\ Cardinality(unstartedDirs') > QueueLimit /\ w > CrawlWorkers \div 4
          /\ worker' = [worker EXCEPT ![w] = Resting]
    /\ UNCHANGED <<scanOptions, walkVars, output, cancelled, panicked, hashVars, outcomeVars>>

Quiet == \A w \in Workers : worker[w].at = "gone"

-----------------------------------------------------------------------------
(* The processor, behind the mutex of mutexProcessor. *)
Process(p, kind) ==
    /\ again' = IF \E done \in processed : done[1] = p THEN again \cup {p} ELSE again
    /\ processed' = processed \cup {<<p, kind>>}

(* What the walk function does of one entry: offered is what it hands to   *)
(* the processor ("none": nothing), recorded and queued what it remembers  *)
(* unless the filters leave the entry out.                                 *)
Nothing == [offered |-> "none", recorded |-> {}, queued |-> <<>>, bad |-> FALSE]
Offer(kind, paths) == [Nothing EXCEPT !.offered = kind, !.recorded = paths]

HasSeen(p) == handling = "follow" /\ p \in seenPaths

MutVisitLink(p) ==  \* the link is remembered, its target is not
    CASE handling = "skip"     -> Nothing
      [] handling = "preserve" -> Offer("symlink", {p})
      [] handling = "follow" /\ LinkTo[p] = Nowhere -> [Nothing EXCEPT !.bad = TRUE]
      [] handling = "follow" /\ LinkTo[p] \in ScanFiles -> Offer("file", {})
      [] OTHER -> IF HasSeen(p) THEN Nothing
                  ELSE [Offer("folder", {p}) EXCEPT !.queued = <<LinkTo[p]>>]

VisitLink(p) ==
    CASE handling = "skip"     -> Nothing
      [] handling = "preserve" -> Offer("symlink", {p})
      [] handling = "follow" /\ LinkTo[p] = Nowhere -> [Nothing EXCEPT !.bad = TRUE]
      [] handling = "follow" /\ LinkTo[p] \in ScanFiles -> Offer("file", {})
      [] OTHER -> IF HasSeen(LinkTo[p]) THEN Nothing
                  ELSE [Offer("folder", {LinkTo[p], p}) EXCEPT !.queued = <<LinkTo[p]>>]

VisitPlain(p) == IF HasSeen(p) THEN Nothing ELSE Offer(KindOf(p), {p})

Visit(p) == IF p \in ScanLinks THEN VisitLink(p) ELSE VisitPlain(p)

Included(p, visit) == visit.offered # "none" /\ p \notin Excluded

Remember(p, visit) ==
    /\ seenPaths' = IF Included(p, visit) THEN seenPaths \cup visit.recorded ELSE seenPaths
    /\ walkQueue' = IF Included(p, visit) THEN walkQueue \o visit.queued ELSE walkQueue

(* hashingProcessor: a file without a known hash is deferred. *)
IsDeferred(p, kind) == hashing /\ kind = "file" /\ p \notin HashKnown

(* ProcessIfPassedFilters with hashingProcessor, when nothing goes wrong.  *)
Handle(p, visit) ==
    IF ~Included(p, visit) THEN UNCHANGED <<toHash, processed, again>>
    ELSE IF IsDeferred(p, visit.offered) THEN toHash' = p /\ UNCHANGED <<processed, again>>
    ELSE Process(p, visit.offered) /\ UNCHANGED toHash

(* Walk: the root first, then what the crawl finds. *)
StartWalk ==
    /\ main = "next" /\ walkQueue # <<>> /\ Quiet
    /\ LET root == Head(walkQueue)
           visit == VisitPlain(root)
       IN /\ seenPaths' = IF Included(root, visit) THEN seenPaths \cup {root} ELSE seenPaths
          /\ walkQueue' = Tail(walkQueue)
          /\ \/ /\ Handle(root, visit)
                /\ main' = "walking" /\ unstartedDirs' = {root}
                /\ worker' = [w \in Workers |-> Waiting]
                /\ UNCHANGED <<reported, faults, stopped>>
             \/ /\ Included(root, visit) /\ MayFail("process") /\ Fail
                /\ reported' = reported \cup {root} /\ stopped' = TRUE
                /\ UNCHANGED <<main, unstartedDirs, worker, toHash, processed, again>>
    /\ output' = <<>> /\ cancelled' = FALSE
    /\ UNCHANGED <<unlisted, scanOptions, toList, entityType, result, dirInProgressCount,
                   panicked>>
    /\ UNCHANGED <<hashTargetChannel, hashClosed, immediateStopHashing, thread, hashErrors>>

(* One result.  An error of the processor ends the walk: its context is    *)
(* cancelled and its reader closed, and WalkWithSymlinks goes on with the  *)
(* next one.                                                               *)
TakeResult ==
    /\ main = "walking" /\ toHash = Nowhere /\ output # <<>>
    /\ output' = Tail(output)
    /\ LET entry == Head(output)
           visit == IF entry.ok THEN Visit(entry.path) ELSE [Nothing EXCEPT !.bad = TRUE]
       IN /\ Remember(entry.path, visit)
          /\ reported' = IF visit.bad THEN reported \cup {entry.path} ELSE reported
          /\ \/ /\ Handle(entry.path, visit)
                /\ UNCHANGED <<main, stopped, cancelled, faults>>
             \/ /\ Included(entry.path, visit) /\ MayFail("process") /\ Fail
                /\ main' = "next" /\ stopped' = TRUE /\ cancelled' = TRUE
                /\ UNCHANGED <<toHash, processed, again>>
    /\ UNCHANGED <<unlisted, scanOptions, toList, entityType, result>>
    /\ UNCHANGED <<worker, unstartedDirs, dirInProgressCount, panicked>>
    /\ UNCHANGED <<hashTargetChannel, hashClosed, immediateStopHashing, thread, hashErrors>>

EndWalk ==
    /\ main = "walking" /\ toHash = Nowhere /\ output = <<>> /\ Quiet
    /\ main' = "next"
    /\ UNCHANGED <<scanOptions, walkQueue, seenPaths, toList, entityType, stopped, result>>
    /\ UNCHANGED <<crawlVars, hashVars, outcomeVars>>

(* WalkWithSymlinks returns no error, whatever its walk function returned. *)
EndWalks ==
    /\ main = "next" /\ walkQueue = <<>>
    /\ main' = "finalizing" /\ hashClosed' = TRUE
    /\ UNCHANGED <<scanOptions, walkQueue, seenPaths, toList, entityType, stopped, result>>
    /\ UNCHANGED <<crawlVars, toHash, hashTargetChannel, immediateStopHashing, thread>>
    /\ UNCHANGED <<hashErrors, outcomeVars>>

-----------------------------------------------------------------------------
(* Traverse without recursion. entityType is set before the loop, and by a *)
(* link that is preserved.                                                 *)
FlatType(p) == IF p \in ScanLinks /\ handling = "preserve" THEN "symlink" ELSE entityType

FlatReturn(error) ==
    /\ main' = "finalizing" /\ hashClosed' = TRUE
    /\ immediateStopHashing' = error /\ result' = IF error THEN "error" ELSE "none"

ListEntry(p) ==
    /\ main = "flat" /\ toHash = Nowhere /\ p \in toList
    /\ toList' = toList \ {p}
    /\ entityType' = FlatType(p)
    /\ LET visit == IF p \in ScanDirs \/ (p \in ScanLinks /\ handling = "skip") THEN Nothing
                    ELSE Offer(FlatType(p), {})
       IN \/ /\ Handle(p, visit)
             /\ UNCHANGED <<main, hashClosed, immediateStopHashing, result, faults>>
          \/ /\ Included(p, visit) /\ MayFail("process") /\ Fail
             /\ FlatReturn(TRUE)
             /\ UNCHANGED <<toHash, processed, again>>
    /\ UNCHANGED <<scanOptions, walkQueue, seenPaths, stopped, crawlVars>>
    /\ UNCHANGED <<hashTargetChannel, thread, hashErrors, reported, unlisted>>

EndFlatListing ==
    /\ main = "flat" /\ toHash = Nowhere /\ toList = {}
    /\ FlatReturn(FALSE)
    /\ UNCHANGED <<scanOptions, walkQueue, seenPaths, toList, entityType, stopped, crawlVars>>
    /\ UNCHANGED <<toHash, hashTargetChannel, thread, hashErrors, outcomeVars>>

-----------------------------------------------------------------------------
(* GetHashData defers the file; it waits while the backlog is full. *)
Defer ==
    /\ toHash # Nowhere /\ Len(hashTargetChannel) < HashBacklog
    /\ hashTargetChannel' = Append(hashTargetChannel, toHash) /\ toHash' = Nowhere
    /\ UNCHANGED <<scanOptions, walkVars, crawlVars, hashClosed, immediateStopHashing, thread>>
    /\ UNCHANGED <<hashErrors, outcomeVars>>

TakeFile(t) ==
    /\ thread[t].at = "idle"
    /\ \/ /\ hashTargetChannel # <<>>
          /\ hashTargetChannel' = Tail(hashTargetChannel)
          /\ thread' = [thread EXCEPT ![t] =
                IF immediateStopHashing THEN [at |-> "gone", file |-> Nowhere]
                ELSE [at |-> "hashing", file |-> Head(hashTargetChannel)]]
       \/ /\ hashTargetChannel = <<>> /\ hashClosed
          /\ thread' = [thread EXCEPT ![t].at = "gone"]
          /\ UNCHANGED hashTargetChannel
    /\ UNCHANGED <<scanOptions, walkVars, crawlVars, toHash, hashClosed, immediateStopHashing>>
    /\ UNCHANGED <<hashErrors, outcomeVars>>

(* A thread that meets an error hands it over and is gone. *)
HashFile(t) ==
    /\ thread[t].at = "hashing"
    /\ \/ /\ Process(thread[t].file, "file")
          /\ thread' = [thread EXCEPT ![t] = [at |-> "idle", file |-> Nowhere]]
          /\ UNCHANGED <<hashErrors, faults>>
       \/ /\ MayFail("process") /\ Fail
          /\ hashErrors' = hashErrors + 1
          /\ thread' = [thread EXCEPT ![t] = [at |-> "gone", file |-> Nowhere]]
          /\ UNCHANGED <<processed, again>>
    /\ UNCHANGED <<scanOptions, walkVars, crawlVars, toHash, hashTargetChannel, hashClosed>>
    /\ UNCHANGED <<immediateStopHashing, reported, unlisted>>

(* The finalizer of prepareHashingThreads, once all of them are gone.      *)
Finalize ==
    /\ main = "finalizing" /\ \A t \in Threads : thread[t].at = "gone"
    /\ main' = "done"
    /\ result' = IF result = "error" \/ hashErrors > 0 THEN "error" ELSE "ok"
    /\ UNCHANGED <<scanOptions, walkQueue, seenPaths, toList, entityType, stopped>>
    /\ UNCHANGED <<crawlVars, hashVars, outcomeVars>>

WorkerStep(w) ==
    \/ TakeDirectory(w) \/ ReadDirectory(w) \/ FinishDirectory(w)
    \/ \E p \in worker[w].remaining : PutEntry(w, p)

MainStep ==
    \/ StartWalk \/ TakeResult \/ EndWalk \/ EndWalks \/ Defer \/ EndFlatListing \/ Finalize
    \/ \E p \in toList : ListEntry(p)

ThreadStep(t) == TakeFile(t) \/ HashFile(t)

(* A panic takes the process down. *)
LSNext ==
    /\ ~panicked
    /\ \/ MainStep
       \/ \E w \in Workers : WorkerStep(w)
       \/ \E t \in Threads : ThreadStep(t)

(* Every goroutine is scheduled, and reading a file or a directory ends.   *)
LSFairness ==
    /\ WF_lsVars(~panicked /\ MainStep)
    /\ \A w \in Workers : WF_lsVars(~panicked /\ WorkerStep(w))
    /\ \A t \in Threads : WF_lsVars(~panicked /\ ThreadStep(t))

LSSpec == LSInit /\ [][LSNext]_lsVars /\ LSFairness

-----------------------------------------------------------------------------
LSTypeOK ==
    /\ main \in {"next", "walking", "flat", "finalizing", "done"}
    /\ result \in {"none", "ok", "error"}
    /\ seenPaths \subseteq ScanPaths /\ unstartedDirs \subseteq ScanDirs
    /\ dirInProgressCount = Cardinality({w \in Workers : worker[w].at \in {"reading", "listing"}})
    /\ Len(output) <= OutputRoom /\ Len(hashTargetChannel) <= HashBacklog
    /\ hashErrors \in 0 .. HashThreads

(* No path is handed on twice, however the links lead and whichever of two *)
(* ways to a folder is found first (WalkWithSymlinks, seenPaths), but for a *)
(* link to a file, which is not remembered: it comes once with every walk  *)
(* of the folder it is in.                                                 *)
NothingIsSentTwice ==
    again \subseteq {l \in ScanLinks : handling = "follow" /\ LinkTo[l] \in ScanFiles}

(* The folders whose entries a scan comes to: whichever folders hold the   *)
(* root and what leads on from them hold these.                            *)
LeadsTo(d, e) ==
    \/ InDir[e] = d
    \/ \E l \in ScanLinks \ Excluded : handling = "follow" /\ InDir[l] = d /\ LinkTo[l] = e

IsClosed(folders) ==
    /\ ScanRoot \in folders
    /\ \A d \in folders : \A e \in ScanDirs : LeadsTo(d, e) => e \in folders

Reached ==
    IF recursive
    THEN {d \in ScanDirs : \A folders \in SUBSET ScanDirs : IsClosed(folders) => d \in folders}
    ELSE {ScanRoot}

Wanted ==
    {p \in ScanPaths \ Excluded :
       /\ InDir[p] \in Reached \ reported
       /\ \/ p \in ScanFiles
          \/ p \in ScanLinks /\ handling = "preserve"
          \/ p \in ScanLinks /\ handling = "follow" /\ LinkTo[p] \in ScanFiles}

Unread == {d \in ScanDirs : d \in reported \/ InDir[d] \in reported}

IsComplete ==
    Unread = {} => \A p \in Wanted : \E done \in processed : done[1] = p

(* A scan that returns no error has handed on all there is ...             *)
ScanIsComplete == result = "ok" => IsComplete

(* ... unless a walk was broken off or Readdir has lost names (Walk, the   *)
(* crawl, finalizer).                                                      *)
QuietScanIsComplete == result = "ok" /\ ~stopped /\ unlisted = {} => IsComplete

(* What is handed on as a link is one (Traverse without recursion).        *)
KindsAreKept ==
    \A done \in processed : done[2] = "symlink" => done[1] \in ScanLinks

(* "File will be processed later": a file that is deferred to the hashing  *)
(* threads is not in their backlog when a scan returns no error            *)
(* (hashingProcessor).                                                     *)
DeferredFilesAreProcessed == result = "ok" => hashTargetChannel = <<>>

(* No worker sends on the channel that Walk has closed (Walk's deferred    *)
(* cancel and Close, doReaddir).                                           *)
WorkersOutliveNoReader == ~panicked

(* No hashing thread is left: there is none, or an error has ended each.   *)
HashingIsGivenUp == hashing /\ hashErrors = HashThreads

(* Every scan ends, cyclic links or not (crawler, WalkWithSymlinks,        *)
(* hashing threads), unless it waits for hashing threads that have ended   *)
(* (prepareHashingThreads).                                                *)
ScanEnds == []<>(main = "done" \/ panicked \/ HashingIsGivenUp)

(* A scan hands on everything there is, and nothing twice.                 *)
ScanInv ==
    /\ LSTypeOK
    /\ NothingIsSentTwice
    /\ QuietScanIsComplete
    /\ DeferredFilesAreProcessed
=============================================================================
