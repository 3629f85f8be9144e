------------------------------ MODULE ScansProofs ------------------------------
(***************************************************************************)
(* Proofs about how objects are found: LocalScan, for any tree of folders, *)
(* any links in it and any numbers of crawl workers and of hashing         *)
(* threads; ServiceScan, for any names in a container and any files in a   *)
(* share, any numbers of crawl workers and of converters, and channels of  *)
(* any capacity.  In both, nothing is handed on twice, and a scan that     *)
(* ends without an error has handed on what there is.                      *)
(***************************************************************************)
EXTENDS Scans, FiniteSetTheorems, TLAPS

(***************************************************************************)
(* LocalScan.  A folder is due (in the queue, in hand of a worker, in the  *)
(* output, or to be walked) or it is past, and what is past has been sent  *)
(* on whole, but for what was skipped, lost or not readable.  Each entry   *)
(* is in one place at a time, which is why it is sent once.                *)
(***************************************************************************)

(* A folder that the workers of a walk are busy with. *)
Busy == {w \in Workers : worker[w].at \in {"reading", "listing"}}

(* What a crawl worker can be at. *)
WorkerStates ==
    [at : {"gone", "idle", "reading", "listing"}, dir : ScanDirs \cup {Nowhere},
     remaining : SUBSET ScanPaths, found : SUBSET ScanDirs]

(* The types of what the walk and the crawl keep, ... *)
ScanTypes ==
    /\ recursive \in BOOLEAN /\ handling \in {"follow", "skip", "preserve"} /\ hashing \in BOOLEAN
    /\ main \in {"next", "walking", "flat", "finalizing", "done"}
    /\ walkQueue \in Seq(ScanDirs) /\ seenPaths \subseteq ScanPaths
    /\ toList \subseteq Children(ScanRoot) /\ entityType \in {"file", "symlink"}
    /\ stopped \in BOOLEAN /\ cancelled \in BOOLEAN /\ panicked \in BOOLEAN
    /\ result \in {"none", "ok", "error"}
    /\ worker \in [Workers -> WorkerStates] /\ unstartedDirs \subseteq ScanDirs
    /\ output \in Seq([path : ScanPaths, ok : BOOLEAN]) /\ Len(output) <= OutputRoom
    /\ processed \subseteq ScanPaths \X {"file", "folder", "symlink"}
    /\ again \subseteq ScanPaths /\ reported \subseteq ScanPaths
    /\ unlisted \subseteq ScanDirs /\ faults \in Nat

(* ... and of what the hashing keeps. *)
HashTypes ==
    /\ toHash \in ScanPaths \cup {Nowhere}
    /\ hashTargetChannel \in Seq(ScanPaths) /\ Len(hashTargetChannel) <= HashBacklog
    /\ hashClosed \in BOOLEAN /\ immediateStopHashing \in BOOLEAN
    /\ thread \in [Threads -> [at : {"gone", "idle", "hashing"}, file : ScanPaths \cup {Nowhere}]]
    /\ \A t \in Threads : thread[t].at = "hashing" => thread[t].file # Nowhere

(* The folders in progress are counted; a hashing thread fails once.       *)
CountInv ==
    /\ dirInProgressCount = Cardinality(Busy)
    /\ hashErrors \in Nat /\ hashErrors <= Cardinality({t \in Threads : thread[t].at = "gone"})

(* A worker has entries of the folder that it lists, and of no other.      *)
WorkerInv ==
    \A w \in Workers :
       /\ worker[w].at # "listing" => worker[w].remaining = {} /\ worker[w].found = {}
       /\ w \in Busy =>
             /\ worker[w].dir \in ScanDirs
             /\ worker[w].remaining \subseteq Children(worker[w].dir)
             /\ worker[w].found \subseteq Children(worker[w].dir)

(* What could not be read is a folder. *)
EntryInv == \A i \in 1 .. Len(output) : output[i].ok \/ output[i].path \in ScanDirs

(* What each phase of Traverse leaves behind. *)
PhaseInv ==
    /\ main = "flat" => ~recursive
    /\ main \in {"next", "walking"} => recursive
    /\ ~recursive => Quiet /\ unstartedDirs = {} /\ output = <<>>
    /\ main \in {"next", "finalizing", "done"} => toHash = Nowhere
    /\ hashClosed <=> main \in {"finalizing", "done"}
    /\ ~hashing => toHash = Nowhere /\ hashTargetChannel = <<>>
    /\ ~hashing => \A t \in Threads : thread[t].at = "gone"
    /\ main \in {"finalizing", "done"} => (recursive => walkQueue = <<>>)
    /\ main = "walking" => ~cancelled
    /\ ~stopped /\ main # "walking" => Quiet /\ unstartedDirs = {} /\ output = <<>>
    /\ ~stopped => ~cancelled

(* Worker 0, which never shuts itself down, goes only when all is read. *)
LastWorkerInv ==
    main = "walking" /\ worker[0].at = "gone" => unstartedDirs = {} /\ Busy = {}

(* When Traverse returns, and what it returns. *)
ErrorInv ==
    /\ immediateStopHashing => result = "error" /\ main \in {"finalizing", "done"}
    /\ result # "none" => main \in {"finalizing", "done"}
    /\ result = "ok" => main = "done" /\ hashErrors = 0
    /\ main = "done" => \A t \in Threads : thread[t].at = "gone"
    /\ ~recursive /\ main \in {"finalizing", "done"} /\ ~immediateStopHashing => toList = {}
    /\ hashing /\ hashErrors = 0 /\ ~immediateStopHashing =>
          \A t \in Threads : thread[t].at = "gone" => hashClosed /\ hashTargetChannel = <<>>

(* Where a path is on its way to the processor: in the backlog, ...        *)
InLine(p) == \E i \in 1 .. Len(hashTargetChannel) : hashTargetChannel[i] = p

(* ... with a hashing thread, ... *)
Hashed(t, p) == thread[t].at = "hashing" /\ thread[t].file = p

(* ... there already, ... *)
Sent(p) == \E done \in processed : done[1] = p

(* ... or anywhere of these. *)
Held(p) == Sent(p) \/ toHash = p \/ InLine(p) \/ \E t \in Threads : Hashed(t, p)

(* The links that are followed to a file: they are not remembered.         *)
FileLinks == {l \in ScanLinks : handling = "follow" /\ LinkTo[l] \in ScanFiles}

(* A path is held in one place. *)
InOnePlace(p) ==
    /\ Sent(p) => toHash # p /\ ~InLine(p) /\ \A t \in Threads : ~Hashed(t, p)
    /\ toHash = p => ~InLine(p) /\ \A t \in Threads : ~Hashed(t, p)
    /\ InLine(p) => \A t \in Threads : ~Hashed(t, p)
    /\ \A i, j \in 1 .. Len(hashTargetChannel) :
          hashTargetChannel[i] = p /\ hashTargetChannel[j] = p => i = j
    /\ \A t, u \in Threads : Hashed(t, p) /\ Hashed(u, p) => t = u

(* Unless it is a link to a file, a path is held in one place. *)
OneInv ==
    /\ again \subseteq FileLinks
    /\ \A p \in ScanPaths \ FileLinks : InOnePlace(p)

(* Following links: what is held has been seen, and so has a link's target. *)
SeenInv ==
    handling = "follow" /\ recursive =>
       \A p \in ScanPaths \ FileLinks :
          Held(p) => p \in seenPaths /\ (p \in ScanLinks => LinkTo[p] \in seenPaths)

(* The flat listing has not handed on what it has yet to come to.          *)
FlatInv == ~recursive => \A p \in toList : ~Held(p)

(* A path that the walk has yet to take from the channel. *)
Coming(p) == \E i \in 1 .. Len(output) : output[i].ok /\ output[i].path = p

(* What is read comes once. *)
ComesOnce ==
    \A i, j \in 1 .. Len(output) :
       output[i].ok /\ output[j].ok /\ output[i].path = output[j].path => i = j

(* Unless links are followed there is one walk. Ahead of it are paths that *)
(* it has yet to come to: they are below the folders that it has in hand.  *)
FoldersAhead(ahead) ==
    /\ \A d \in ahead \cap ScanDirs : Children(d) \subseteq ahead
    /\ \A d \in unstartedDirs : d \notin ahead /\ Children(d) \subseteq ahead

(* What the workers list is ahead, and no folder is listed by two.         *)
WorkersAhead(ahead) ==
    /\ \A w \in Busy : worker[w].dir \notin ahead /\ worker[w].remaining \subseteq ahead
    /\ \A w \in Busy : worker[w].dir \notin unstartedDirs
    /\ \A w \in Busy : worker[w].at = "reading" => Children(worker[w].dir) \subseteq ahead
    /\ \A w, v \in Busy : worker[w].dir = worker[v].dir => w = v
    /\ \A w \in Busy : worker[w].found \cap (ahead \cup unstartedDirs) = {}
    /\ \A w, v \in Busy : worker[w].dir \notin worker[v].found
    /\ \A w \in Busy : \A d \in worker[w].found : Children(d) \subseteq ahead

(* What is ahead is neither held nor coming; what is coming is not held.   *)
EntriesBehind(ahead) ==
    /\ ComesOnce
    /\ \A p \in ahead : ~Held(p) /\ ~Coming(p)
    /\ main = "walking" => \A p \in ScanPaths : Coming(p) => ~Held(p)

(* A walk without links to follow, with what is ahead of it. *)
AheadInv(ahead) == FoldersAhead(ahead) /\ WorkersAhead(ahead) /\ EntriesBehind(ahead)

(* Nothing of the walk has been done. *)
BeforeWalk ==
    /\ main = "next" /\ walkQueue = <<ScanRoot>> /\ (\A p \in ScanPaths : ~Held(p))
    /\ ~cancelled /\ Quiet /\ unstartedDirs = {} /\ output = <<>>

(* Unless links are followed there is one walk, which comes to nothing twice. *)
OnceInv ==
    recursive /\ handling # "follow" =>
       BeforeWalk \/ (walkQueue = <<>> /\ \E ahead \in SUBSET ScanPaths : AheadInv(ahead))

(* Nothing was left out on the way: no walk was broken off, no name lost, ... *)
Fine == ~stopped /\ unlisted = {} /\ hashErrors = 0 /\ ~immediateStopHashing

(* ... and every folder was read. *)
AllRead == reported \cap ScanDirs = {} /\ \A i \in 1 .. Len(output) : output[i].ok

(* Folders to be walked, ... *)
InQueue == {walkQueue[i] : i \in 1 .. Len(walkQueue)}

(* ... and folders that the present walk has found and not finished.       *)
InHand ==
    unstartedDirs \cup {worker[w].dir : w \in Busy}
    \cup UNION {worker[w].found : w \in Workers}

(* What the walk function is done with: an entry that is held or left out, or a *)
(* link to a folder that is known.                                         *)
IsHandled(p, known) ==
    \/ p \in Excluded
    \/ Held(p) /\ (p \notin ScanLinks \/ handling = "preserve" \/ p \in FileLinks)
    \/ p \in ScanLinks /\ handling = "skip"
    \/ /\ p \in ScanLinks /\ handling = "follow" /\ LinkTo[p] \notin ScanFiles
       /\ LinkTo[p] \in ScanDirs => LinkTo[p] \in known

(* An entry of a folder that was read is known, coming or handled.         *)
IsCared(p, known) ==
    IF p \in ScanDirs THEN p \in known ELSE Coming(p) \/ IsHandled(p, known)

(* What was read is accounted for, known being the folders that were read  *)
(* or are to be read.                                                      *)
Accounted(read, known) ==
    /\ ScanRoot \in known
    /\ \A d \in read : \A p \in Children(d) : IsCared(p, known)
    /\ \A w \in Workers : worker[w].at = "listing" =>
          \A p \in Children(worker[w].dir) \ worker[w].remaining : IsCared(p, known)
    /\ \A i \in 1 .. Len(output) : output[i].path \in ScanDirs => output[i].path \in known
    /\ seenPaths \cap ScanDirs \subseteq known
    /\ \A p \in seenPaths \cap ScanFiles : Held(p)

(* The folders that were read or will be. *)
Known(read) == read \cup InQueue \cup InHand

(* What a walk has read is accounted for, ... *)
WalkAccounted == \E read \in SUBSET ScanDirs : Accounted(read, Known(read))

(* ... when nothing was left out, ... *)
WalkIsAccounted == recursive /\ Fine /\ AllRead => WalkAccounted

(* ... and so is what the flat listing has come to. *)
ListIsAccounted ==
    ~recursive /\ Fine =>
       \A p \in Children(ScanRoot) \ toList :
          \/ p \in ScanDirs \/ p \in Excluded \/ Held(p)
          \/ p \in ScanLinks /\ handling = "skip"

(* Nothing is left out without a trace. *)
CompleteInv == WalkIsAccounted /\ ListIsAccounted

(* The inductive invariant of a scan. *)
ScanIInv ==
    /\ ScanTypes /\ HashTypes /\ CountInv /\ WorkerInv /\ EntryInv /\ PhaseInv
    /\ LastWorkerInv /\ ErrorInv
    /\ OneInv /\ SeenInv /\ FlatInv /\ OnceInv /\ CompleteInv

(* The first of a sequence, and the rest. *)
LEMMA HeadAndTail ==
    ASSUME NEW S, NEW s \in Seq(S), s # <<>>
    PROVE  /\ Len(s) \in Nat /\ Len(s) > 0 /\ s[1] \in S /\ Head(s) = s[1]
           /\ Tail(s) \in Seq(S) /\ Len(Tail(s)) = Len(s) - 1
           /\ \A i \in 1 .. Len(Tail(s)) : Tail(s)[i] = s[i + 1] /\ i + 1 \in 1 .. Len(s)
OBVIOUS

(* Where a walk can put what it reads. *)
LEMMA EntriesAreTyped ==
    ASSUME ScanTypes, NEW entry \in [path : ScanPaths, ok : BOOLEAN], Put(entry)
    PROVE  output' \in Seq([path : ScanPaths, ok : BOOLEAN]) /\ Len(output') <= OutputRoom
<1> DEFINE E == [path : ScanPaths, ok : BOOLEAN]
<1>0. output \in Seq(E) /\ Len(output) <= OutputRoom
  BY DEF ScanTypes
<1> HIDE DEF E
<1>1. entry \in E
  BY DEF E
<1>2. CASE Len(output) < OutputRoom /\ output' = Append(output, entry)
  <2>1. Len(output') = Len(output) + 1 /\ output' \in Seq(E)
    BY <1>0, <1>1, <1>2
  <2> QED BY <1>0, <1>2, <2>1, ScanAssumption DEF E
<1>3. CASE UNCHANGED output
  BY <1>0, <1>3 DEF E
<1> QED BY <1>2, <1>3 DEF Put

(* What the crawl leaves alone. *)
CrawlFrame ==
    /\ UNCHANGED <<scanOptions, walkVars, hashVars, processed, again, reported, cancelled>>
    /\ unlisted' \in SUBSET ScanDirs /\ faults' \in Nat /\ panicked' \in BOOLEAN
    /\ unlisted \subseteq unlisted'

(* What the steps of the workers leave of their types. *)
WorkersTyped ==
    worker \in [Workers -> WorkerStates] /\ WorkerInv

(* The types after TakeDirectory. *)
LEMMA TakeDirectoryTypes ==
    ASSUME ScanTypes, WorkerInv, NEW w \in Workers, TakeDirectory(w)
    PROVE  CrawlFrame /\ WorkersTyped' /\ output' = output /\ unstartedDirs' \subseteq ScanDirs
<1>1. CrawlFrame /\ output' = output
  BY DEF TakeDirectory, CrawlFrame, outcomeVars, ScanTypes
<1>2. CASE \E d \in unstartedDirs :
              /\ worker' = [worker EXCEPT ![w] = [@ EXCEPT !.at = "reading", !.dir = d]]
              /\ unstartedDirs' = unstartedDirs \ {d}
  <2>1. PICK d \in unstartedDirs :
              /\ worker' = [worker EXCEPT ![w] = [@ EXCEPT !.at = "reading", !.dir = d]]
              /\ unstartedDirs' = unstartedDirs \ {d}
    BY <1>2
  <2>2. /\ d \in ScanDirs /\ worker[w] \in WorkerStates /\ worker[w].remaining = {}
        /\ worker[w].found = {}
    BY <2>1 DEF ScanTypes, WorkerInv, TakeDirectory
  <2>3. worker'[w] = [worker[w] EXCEPT !.at = "reading", !.dir = d]
    BY <2>1 DEF ScanTypes
  <2>4. /\ worker'[w] \in WorkerStates
        /\ worker'[w].at = "reading" /\ worker'[w].dir = d
        /\ worker'[w].remaining = {} /\ worker'[w].found = {}
    BY <2>2, <2>3 DEF WorkerStates
  <2>5. worker' \in [Workers -> WorkerStates] /\ \A v \in Workers \ {w} : worker'[v] = worker[v]
    BY <2>1, <2>3, <2>4 DEF ScanTypes
  <2>6. WorkerInv'
    BY <2>2, <2>4, <2>5 DEF WorkerInv, Busy
  <2> QED BY <1>1, <2>1, <2>5, <2>6 DEF ScanTypes, WorkersTyped
<1>3. CASE worker' = [worker EXCEPT ![w] = Resting] /\ UNCHANGED unstartedDirs
  <2>1. /\ Resting \in WorkerStates /\ Resting.at = "gone"
        /\ Resting.remaining = {} /\ Resting.found = {}
    BY DEF Resting, WorkerStates
  <2>2. worker' \in [Workers -> WorkerStates] /\ worker'[w] = Resting
        /\ \A v \in Workers \ {w} : worker'[v] = worker[v]
    BY <1>3, <2>1 DEF ScanTypes
  <2>3. WorkerInv'
    BY <2>1, <2>2 DEF WorkerInv, Busy
  <2> QED BY <1>1, <1>3, <2>2, <2>3 DEF ScanTypes, WorkersTyped
<1> QED BY <1>2, <1>3 DEF TakeDirectory
(* One worker has moved. *)
Moved(w) ==
    worker' \in [Workers -> WorkerStates] /\ \A v \in Workers \ {w} : worker'[v] = worker[v]

(* A worker's step changes that worker. *)
LEMMA RemainingSet ==
    ASSUME ScanTypes, NEW w \in Workers, NEW state \in WorkerStates,
           worker' = [worker EXCEPT ![w] = state]
    PROVE  Moved(w) /\ worker'[w] = state
BY DEF ScanTypes, Moved

(* What ReadDirectory does of a worker. *)
LEMMA ReadDirectoryDoes ==
    ASSUME ScanTypes, WorkerInv, NEW w \in Workers, ReadDirectory(w)
    PROVE  /\ CrawlFrame /\ UNCHANGED <<unstartedDirs, dirInProgressCount>>
           /\ worker[w].at = "reading" /\ worker[w].dir \in ScanDirs /\ Moved(w)
           /\ output' \in Seq([path : ScanPaths, ok : BOOLEAN]) /\ Len(output') <= OutputRoom
           /\ worker[w].remaining = {} /\ worker[w].found = {}
           /\ worker'[w].found = {} /\ worker'[w].dir = worker[w].dir
           /\ \/ /\ worker'[w].at = "listing" /\ worker'[w].remaining = Children(worker[w].dir)
                 /\ UNCHANGED <<output, panicked, unlisted, faults>>
              \/ /\ worker'[w].at = "listing" /\ worker'[w].remaining = {}
                 /\ unlisted' # {} /\ UNCHANGED <<output, panicked>>
              \/ panicked' = TRUE /\ UNCHANGED <<worker, output, unlisted, faults>>
              \/ /\ worker'[w].at = "listing" /\ worker'[w].remaining = {}
                 /\ Put([path |-> worker[w].dir, ok |-> FALSE]) /\ UNCHANGED <<panicked, unlisted>>
<1> DEFINE d == worker[w].dir
           W == worker[w]
<1>1. /\ W \in WorkerStates /\ W.at = "reading" /\ d \in ScanDirs
      /\ W.remaining = {} /\ W.found = {}
  BY DEF ReadDirectory, ScanTypes, WorkerInv, Busy
<1>2. CrawlFrame /\ UNCHANGED <<unstartedDirs, dirInProgressCount>>
  <2>1. UNCHANGED <<scanOptions, walkVars, hashVars, processed, again, reported, cancelled>>
    BY DEF ReadDirectory
  <2>2. unlisted' \in SUBSET ScanDirs /\ unlisted \subseteq unlisted'
    BY <1>1 DEF ReadDirectory, ScanTypes
  <2>3. faults' \in Nat
    <3>1. faults' = faults \/ faults' = faults + 1
      BY DEF ReadDirectory, Fail
    <3> QED BY <3>1 DEF ScanTypes
  <2>4. panicked' \in BOOLEAN
    <3>1. panicked' = panicked \/ panicked' = TRUE
      BY DEF ReadDirectory
    <3> QED BY <3>1 DEF ScanTypes
  <2> QED BY <2>1, <2>2, <2>3, <2>4 DEF CrawlFrame, ReadDirectory
<1> DEFINE Listing(remaining) == [W EXCEPT !.at = "listing", !.remaining = remaining]
<1>3. ASSUME NEW remaining \in SUBSET ScanPaths
      PROVE  /\ Listing(remaining) \in WorkerStates /\ Listing(remaining).at = "listing"
             /\ Listing(remaining).remaining = remaining /\ Listing(remaining).dir = d
             /\ Listing(remaining).found = {}
  BY <1>1 DEF WorkerStates
<1>4. CASE /\ worker' = [worker EXCEPT ![w].at = "listing", ![w].remaining = Children(worker[w].dir)]
           /\ UNCHANGED <<output, panicked, unlisted, faults>>
  <2>1. worker' = [worker EXCEPT ![w] = Listing(Children(d))]
    BY <1>1, <1>4 DEF ScanTypes, WorkerStates
  <2>2. Children(d) \in SUBSET ScanPaths
    BY DEF Children
  <2>3. Moved(w) /\ worker'[w] = Listing(Children(d))
    BY <1>3, <2>1, <2>2, RemainingSet
  <2> QED BY <1>1, <1>2, <1>3, <1>4, <2>2, <2>3 DEF ScanTypes
<1>5. ASSUME worker' = [worker EXCEPT ![w].at = "listing"]
      PROVE  /\ Moved(w) /\ worker'[w].at = "listing" /\ worker'[w].remaining = {}
             /\ worker'[w].dir = d /\ worker'[w].found = {}
  <2>1. worker' = [worker EXCEPT ![w] = Listing({})]
    BY <1>1, <1>5 DEF ScanTypes, WorkerStates
  <2>2. /\ Listing({}) \in WorkerStates /\ Listing({}).at = "listing"
        /\ Listing({}).remaining = {} /\ Listing({}).dir = d /\ Listing({}).found = {}
    BY <1>3
  <2> HIDE DEF Listing
  <2>3. Moved(w) /\ worker'[w] = Listing({})
    BY <2>1, <2>2, RemainingSet
  <2> QED BY <2>2, <2>3
<1>6. CASE /\ worker' = [worker EXCEPT ![w].at = "listing"]
           /\ unlisted' = unlisted \cup {worker[w].dir}
           /\ UNCHANGED <<output, panicked>>
  <2>1. unlisted' # {}
    BY <1>6
  <2> QED BY <1>1, <1>2, <1>5, <1>6, <2>1 DEF ScanTypes
<1>7. CASE panicked' = TRUE /\ UNCHANGED <<worker, output, unlisted, faults>>
  <2>1. Moved(w)
    BY <1>7 DEF Moved, ScanTypes
  <2> QED BY <1>1, <1>2, <1>7, <2>1 DEF ScanTypes
<1>8. CASE /\ Put([path |-> worker[w].dir, ok |-> FALSE])
           /\ worker' = [worker EXCEPT ![w].at = "listing"]
           /\ UNCHANGED <<panicked, unlisted>>
  <2>1. [path |-> worker[w].dir, ok |-> FALSE] \in [path : ScanPaths, ok : BOOLEAN]
    BY <1>1 DEF ScanPaths
  <2>2. output' \in Seq([path : ScanPaths, ok : BOOLEAN]) /\ Len(output') <= OutputRoom
    BY <1>8, <2>1, EntriesAreTyped
  <2> QED BY <1>1, <1>2, <1>5, <1>8, <2>2
<1> QED BY <1>4, <1>6, <1>7, <1>8 DEF ReadDirectory

(* What PutEntry does. *)
LEMMA PutEntryDoes ==
    ASSUME ScanTypes, WorkerInv, NEW w \in Workers, NEW p \in worker[w].remaining, PutEntry(w, p)
    PROVE  /\ CrawlFrame /\ UNCHANGED <<unstartedDirs, dirInProgressCount, panicked, unlisted>>
           /\ worker[w].at = "listing" /\ worker'[w].at = "listing" /\ Moved(w)
           /\ worker'[w].dir = worker[w].dir /\ worker[w].dir \in ScanDirs
           /\ worker'[w].remaining = worker[w].remaining \ {p}
           /\ worker'[w].found = worker[w].found \cup ({p} \cap ScanDirs)
           /\ p \in ScanPaths /\ InDir[p] = worker[w].dir
           /\ worker[w].remaining \subseteq Children(worker[w].dir)
           /\ worker[w].found \subseteq Children(worker[w].dir)
           /\ Put([path |-> p, ok |-> TRUE])
           /\ output' \in Seq([path : ScanPaths, ok : BOOLEAN]) /\ Len(output') <= OutputRoom
<1> DEFINE W == worker[w]
           Next1 == [W EXCEPT !.remaining = W.remaining \ {p},
                              !.found = W.found \cup ({p} \cap ScanDirs)]
<1>1. /\ W \in WorkerStates /\ W.at = "listing" /\ W.dir \in ScanDirs
      /\ W.remaining \subseteq Children(W.dir) /\ W.found \subseteq Children(W.dir)
  BY DEF PutEntry, ScanTypes, WorkerInv, Busy
<1>2. p \in ScanPaths /\ InDir[p] = W.dir
  BY <1>1 DEF Children
<1>3. /\ Next1 \in WorkerStates /\ Next1.at = "listing" /\ Next1.dir = W.dir
      /\ Next1.remaining = W.remaining \ {p} /\ Next1.found = W.found \cup ({p} \cap ScanDirs)
  BY <1>1 DEF WorkerStates
<1>4. worker' = [worker EXCEPT ![w] = Next1]
  <2>1. worker' = [worker EXCEPT ![w].remaining = @ \ {p},
                                ![w].found = IF p \in ScanDirs THEN @ \cup {p} ELSE @]
    BY DEF PutEntry
  <2>2. (IF p \in ScanDirs THEN W.found \cup {p} ELSE W.found) = W.found \cup ({p} \cap ScanDirs)
    OBVIOUS
  <2> QED BY <1>1, <2>1, <2>2 DEF ScanTypes, WorkerStates
<1>5. Moved(w) /\ worker'[w] = Next1
  BY <1>3, <1>4, RemainingSet
<1>6. [path |-> p, ok |-> TRUE] \in [path : ScanPaths, ok : BOOLEAN]
  BY <1>2
<1>7. /\ Put([path |-> p, ok |-> TRUE])
      /\ output' \in Seq([path : ScanPaths, ok : BOOLEAN]) /\ Len(output') <= OutputRoom
  BY <1>6, EntriesAreTyped DEF PutEntry
<1>8. CrawlFrame /\ UNCHANGED <<unstartedDirs, dirInProgressCount, panicked, unlisted>>
  BY DEF PutEntry, CrawlFrame, outcomeVars, ScanTypes
<1> QED BY <1>1, <1>2, <1>3, <1>5, <1>7, <1>8

(* What FinishDirectory does. *)
LEMMA FinishDirectoryDoes ==
    ASSUME ScanTypes, WorkerInv, NEW w \in Workers, FinishDirectory(w)
    PROVE  /\ CrawlFrame /\ UNCHANGED <<output, panicked, unlisted>>
           /\ worker[w].at = "listing" /\ worker[w].remaining = {} /\ Moved(w)
           /\ worker[w].dir \in ScanDirs /\ worker[w].found \subseteq ScanDirs
           /\ worker[w].found \subseteq Children(worker[w].dir)
           /\ worker'[w].at \in {"idle", "gone"} /\ (w = 0 => worker'[w].at = "idle")
           /\ worker'[w].remaining = {} /\ worker'[w].found = {}
           /\ unstartedDirs' = unstartedDirs \cup worker[w].found
           /\ dirInProgressCount' = dirInProgressCount - 1
<1>1. /\ worker[w] \in WorkerStates /\ worker[w].at = "listing" /\ worker[w].dir \in ScanDirs
      /\ worker[w].found \subseteq Children(worker[w].dir) /\ worker[w].found \subseteq ScanDirs
      /\ worker[w].remaining = {}
  BY DEF FinishDirectory, ScanTypes, WorkerInv, Busy, WorkerStates
<1>2. CrawlFrame /\ UNCHANGED <<output, panicked, unlisted>>
  BY DEF FinishDirectory, CrawlFrame, outcomeVars, ScanTypes
<1>3. /\ Resting \in WorkerStates /\ Resting.at = "gone"
      /\ Resting.remaining = {} /\ Resting.found = {}
      /\ Waiting \in WorkerStates /\ Waiting.at = "idle"
      /\ Waiting.remaining = {} /\ Waiting.found = {}
  BY DEF Resting, Waiting, WorkerStates
<1>4. CASE worker' = [worker EXCEPT ![w] = Waiting]
  <2>1. Moved(w) /\ worker'[w] = Waiting
    BY <1>3, <1>4, RemainingSet
  <2> QED BY <1>1, <1>2, <1>3, <2>1 DEF FinishDirectory
<1>5. CASE w > CrawlWorkers \div 4 /\ worker' = [worker EXCEPT ![w] = Resting]
  <2>1. Moved(w) /\ worker'[w] = Resting
    BY <1>3, <1>5, RemainingSet
  <2>2. w # 0
    BY <1>5, ScanAssumption
  <2> QED BY <1>1, <1>2, <1>3, <2>1, <2>2 DEF FinishDirectory
<1> QED BY <1>4, <1>5 DEF FinishDirectory
(* What becomes of an entry that is handed on.                             *)
LEMMA HandleDoes ==
    ASSUME ScanTypes, HashTypes, toHash = Nowhere, NEW p \in ScanPaths, NEW visit,
           visit.offered \in {"none", "file", "folder", "symlink"},
           Handle(p, visit), UNCHANGED <<hashTargetChannel, thread, handling>>
    PROVE  /\ \A q \in ScanPaths : Held(q)' <=> Held(q) \/ (q = p /\ Included(p, visit))
           /\ toHash' \in {Nowhere, p} /\ (toHash' # Nowhere => hashing)
           /\ processed' \subseteq ScanPaths \X {"file", "folder", "symlink"}
           /\ again' \subseteq ScanPaths
           /\ visit.offered # "file" => toHash' = toHash
           /\ OneInv /\ (Included(p, visit) => p \in FileLinks \/ ~Held(p)) => OneInv'
<1>0. p # Nowhere /\ \A q \in ScanPaths : q # Nowhere
  BY ScanAssumption DEF ScanPaths
<1>1. \A q : InLine(q)' <=> InLine(q)
  BY DEF InLine
<1>2. \A q : \A t \in Threads : Hashed(t, q)' <=> Hashed(t, q)
  BY DEF Hashed
<1>3. FileLinks' = FileLinks
  BY DEF FileLinks
<1>4. CASE ~Included(p, visit)
  <2>1. UNCHANGED <<toHash, processed, again>>
    BY <1>4 DEF Handle
  <2>2. \A q : Sent(q)' <=> Sent(q)
    BY <2>1 DEF Sent
  <2>3. \A q : Held(q)' <=> Held(q)
    BY <1>1, <1>2, <2>1, <2>2 DEF Held
  <2>4. \A q : InOnePlace(q) => InOnePlace(q)'
    BY <1>1, <1>2, <2>1, <2>2 DEF InOnePlace
  <2>5. OneInv => OneInv'
    BY <1>3, <2>1, <2>4 DEF OneInv
  <2> QED BY <1>4, <2>1, <2>3, <2>5 DEF ScanTypes
<1>5. CASE Included(p, visit) /\ IsDeferred(p, visit.offered)
  <2>1. toHash' = p /\ UNCHANGED <<processed, again>> /\ hashing /\ visit.offered = "file"
    BY <1>5 DEF Handle, IsDeferred
  <2>2. \A q : Sent(q)' <=> Sent(q)
    BY <2>1 DEF Sent
  <2>3. \A q \in ScanPaths : Held(q)' <=> Held(q) \/ q = p
    BY <1>0, <1>1, <1>2, <2>1, <2>2 DEF Held
  <2>4. ASSUME NEW q \in ScanPaths, q # p, InOnePlace(q)
        PROVE  InOnePlace(q)'
    BY <1>1, <1>2, <2>1, <2>2, <2>4 DEF InOnePlace
  <2>5. ASSUME ~Held(p), InOnePlace(p)
        PROVE  InOnePlace(p)'
    BY <1>1, <1>2, <2>1, <2>2, <2>5 DEF InOnePlace, Held
  <2>6. OneInv /\ (Included(p, visit) => p \in FileLinks \/ ~Held(p)) => OneInv'
    BY <1>3, <1>5, <2>1, <2>4, <2>5 DEF OneInv
  <2> QED BY <1>5, <2>1, <2>3, <2>6 DEF ScanTypes
<1>6. CASE Included(p, visit) /\ ~IsDeferred(p, visit.offered)
  <2>1. /\ Process(p, visit.offered) /\ UNCHANGED toHash
        /\ visit.offered \in {"file", "folder", "symlink"}
    BY <1>6 DEF Handle, Included
  <2>2. \A q : Sent(q)' <=> Sent(q) \/ q = p
    <3> DEFINE new == <<p, visit.offered>>
    <3>1. processed' = processed \cup {new}
      BY <2>1 DEF Process
    <3>2. new[1] = p
      OBVIOUS
    <3> HIDE DEF new
    <3>3. ASSUME NEW q
          PROVE  Sent(q)' <=> Sent(q) \/ q = p
      BY <3>1, <3>2 DEF Sent
    <3> QED BY <3>3
  <2>3. again' = again \/ again' = again \cup {p}
    BY <2>1 DEF Process
  <2>9. ~Sent(p) => again' = again
    BY <2>1 DEF Sent, Process
  <2>4. \A q \in ScanPaths : Held(q)' <=> Held(q) \/ q = p
    BY <1>1, <1>2, <2>1, <2>2 DEF Held
  <2>5. ASSUME NEW q \in ScanPaths, q # p, InOnePlace(q)
        PROVE  InOnePlace(q)'
    BY <1>1, <1>2, <2>1, <2>2, <2>5 DEF InOnePlace
  <2>6. ASSUME ~Held(p), InOnePlace(p)
        PROVE  InOnePlace(p)'
    BY <1>1, <1>2, <2>1, <2>2, <2>6 DEF InOnePlace, Held
  <2>7. OneInv /\ (Included(p, visit) => p \in FileLinks \/ ~Held(p)) => OneInv'
    BY <1>3, <1>6, <2>3, <2>5, <2>6, <2>9 DEF OneInv, Held
  <2>8. /\ processed' \subseteq ScanPaths \X {"file", "folder", "symlink"}
        /\ again' \subseteq ScanPaths
    <3>1. again' \subseteq ScanPaths
      BY <2>3 DEF ScanTypes
    <3>2. processed' = processed \cup {<<p, visit.offered>>}
      BY <2>1 DEF Process
    <3> QED BY <2>1, <3>1, <3>2 DEF ScanTypes
  <2> QED BY <1>6, <2>1, <2>4, <2>7, <2>8
<1> QED BY <1>4, <1>5, <1>6
(* What the hashing of files leaves alone. *)
HashFrame ==
    /\ UNCHANGED <<scanOptions, walkVars, crawlVars, hashClosed, immediateStopHashing>>
    /\ UNCHANGED <<reported, unlisted>>

(* ... and what it does to the files that are held: they are passed on.    *)
PassedOn ==
    /\ \A q \in ScanPaths : Held(q)' => Held(q)
    /\ OneInv => OneInv'

(* Defer moves the file at hand to the backlog. *)
LEMMA DeferDoes ==
    ASSUME ScanTypes, HashTypes, PhaseInv, Defer
    PROVE  /\ HashFrame /\ HashTypes' /\ PassedOn /\ hashing /\ toHash' = Nowhere
           /\ toHash # Nowhere /\ hashTargetChannel' # <<>>
           /\ \A q \in ScanPaths : Held(q) => Held(q)'
           /\ UNCHANGED <<thread, hashErrors, processed, again, faults>>
<1>1. /\ toHash \in ScanPaths /\ toHash # Nowhere /\ toHash' = Nowhere
      /\ hashTargetChannel' = Append(hashTargetChannel, toHash)
      /\ Len(hashTargetChannel) < HashBacklog /\ hashTargetChannel \in Seq(ScanPaths)
  BY DEF Defer, HashTypes
<1>2. HashFrame /\ UNCHANGED <<thread, hashErrors, processed, again, faults>>
  BY DEF Defer, HashFrame, outcomeVars
<1>3. /\ hashTargetChannel' \in Seq(ScanPaths)
      /\ Len(hashTargetChannel') = Len(hashTargetChannel) + 1
      /\ Len(hashTargetChannel) \in Nat
      /\ \A i \in 1 .. Len(hashTargetChannel) : hashTargetChannel'[i] = hashTargetChannel[i]
      /\ hashTargetChannel'[Len(hashTargetChannel) + 1] = toHash
  BY <1>1
<1>4. Len(hashTargetChannel') <= HashBacklog /\ hashTargetChannel' # <<>>
  BY <1>1, <1>3, ScanAssumption
<1>5. HashTypes'
  BY <1>1, <1>2, <1>3, <1>4 DEF HashTypes, HashFrame
<1>6. \A q : InLine(q)' <=> InLine(q) \/ q = toHash
  <2>1. ASSUME NEW q, InLine(q)
        PROVE  InLine(q)'
    BY <1>3, <2>1 DEF InLine
  <2>2. ASSUME NEW q, q = toHash
        PROVE  InLine(q)'
    BY <1>3, <2>2 DEF InLine
  <2>3. ASSUME NEW q, InLine(q)', q # toHash
        PROVE  InLine(q)
    <3>1. PICK i \in 1 .. Len(hashTargetChannel') : hashTargetChannel'[i] = q
      BY <2>3 DEF InLine
    <3>2. i \in 1 .. Len(hashTargetChannel) \/ i = Len(hashTargetChannel) + 1
      BY <1>3
    <3> QED BY <1>3, <2>3, <3>1, <3>2 DEF InLine
  <2> QED BY <2>1, <2>2, <2>3
<1>7. \A q : Sent(q)' <=> Sent(q)
  BY <1>2 DEF Sent
<1>8. \A q : \A t \in Threads : Hashed(t, q)' <=> Hashed(t, q)
  BY <1>2 DEF Hashed
<1>9. \A q \in ScanPaths : q # Nowhere
  BY ScanAssumption DEF ScanPaths
<1>10. \A q \in ScanPaths : Held(q)' <=> Held(q)
  BY <1>1, <1>6, <1>7, <1>8, <1>9 DEF Held
<1>11. ASSUME NEW q \in ScanPaths, InOnePlace(q)
       PROVE  InOnePlace(q)'
  <2>1. \A i, j \in 1 .. Len(hashTargetChannel') :
           hashTargetChannel'[i] = q /\ hashTargetChannel'[j] = q => i = j
    <3> SUFFICES ASSUME NEW i \in 1 .. Len(hashTargetChannel'),
                        NEW j \in 1 .. Len(hashTargetChannel'),
                        hashTargetChannel'[i] = q, hashTargetChannel'[j] = q
                 PROVE  i = j
      OBVIOUS
    <3>1. /\ i \in 1 .. Len(hashTargetChannel) \/ i = Len(hashTargetChannel) + 1
          /\ j \in 1 .. Len(hashTargetChannel) \/ j = Len(hashTargetChannel) + 1
      BY <1>3
    <3>2. q = toHash => ~InLine(q)
      BY <1>11 DEF InOnePlace
    <3>3. CASE q = toHash
      BY <1>3, <3>1, <3>2, <3>3 DEF InLine
    <3>4. CASE q # toHash
      BY <1>3, <1>11, <3>1, <3>4 DEF InOnePlace
    <3> QED BY <3>3, <3>4
  <2> QED BY <1>1, <1>6, <1>7, <1>8, <1>9, <1>11, <2>1 DEF InOnePlace
<1>12. OneInv => OneInv'
  <2>1. FileLinks' = FileLinks
    BY <1>2 DEF FileLinks, HashFrame, scanOptions
  <2> QED BY <1>2, <1>11, <2>1 DEF OneInv
<1>13. hashing
  BY <1>1 DEF PhaseInv
<1> QED BY <1>1, <1>2, <1>4, <1>5, <1>10, <1>12, <1>13 DEF PassedOn

(* TakeFile moves a file from the backlog to a thread, or ends the thread. *)
LEMMA TakeFileDoes ==
    ASSUME ScanTypes, HashTypes, NEW t \in Threads, TakeFile(t)
    PROVE  /\ HashFrame /\ HashTypes' /\ PassedOn /\ thread[t].at = "idle"
           /\ \A u \in Threads \ {t} : thread'[u] = thread[u]
           /\ thread'[t].at = "gone" =>
                immediateStopHashing \/ (hashClosed /\ hashTargetChannel' = <<>>)
           /\ ~immediateStopHashing => \A q \in ScanPaths : Held(q) => Held(q)'
           /\ hashTargetChannel = <<>> => hashTargetChannel' = <<>>
           /\ UNCHANGED <<toHash, hashErrors, processed, again, faults>>
<1>1. /\ HashFrame /\ UNCHANGED <<toHash, hashErrors, processed, again, faults>>
      /\ thread[t].at = "idle"
  BY DEF TakeFile, HashFrame, outcomeVars
<1>2. FileLinks' = FileLinks
  BY <1>1 DEF FileLinks, HashFrame, scanOptions
<1>3. \A q : Sent(q)' <=> Sent(q)
  BY <1>1 DEF Sent
<1>4. \A q : ~Hashed(t, q)
  BY <1>1 DEF Hashed
<1>5. CASE /\ hashTargetChannel # <<>> /\ hashTargetChannel' = Tail(hashTargetChannel)
           /\ thread' = [thread EXCEPT ![t] =
                IF immediateStopHashing THEN [at |-> "gone", file |-> Nowhere]
                ELSE [at |-> "hashing", file |-> Head(hashTargetChannel)]]
  <2> DEFINE file == hashTargetChannel[1]
  <2>1. /\ file \in ScanPaths /\ Head(hashTargetChannel) = file
        /\ hashTargetChannel \in Seq(ScanPaths)
        /\ Len(hashTargetChannel) \in Nat \ {0}
        /\ hashTargetChannel' \in Seq(ScanPaths)
        /\ Len(hashTargetChannel') = Len(hashTargetChannel) - 1
        /\ \A i \in 1 .. Len(hashTargetChannel') : hashTargetChannel'[i] = hashTargetChannel[i + 1]
    BY <1>5 DEF HashTypes
  <2> HIDE DEF file
  <2>2. \A u \in Threads \ {t} : thread'[u] = thread[u]
    BY <1>5 DEF HashTypes
  <2>3. /\ immediateStopHashing => thread'[t] = [at |-> "gone", file |-> Nowhere]
        /\ ~immediateStopHashing => thread'[t] = [at |-> "hashing", file |-> file]
    BY <1>5, <2>1 DEF HashTypes
  <2>4. thread' \in [Threads -> [at : {"gone", "idle", "hashing"}, file : ScanPaths \cup {Nowhere}]]
    <3>1. /\ [at |-> "gone", file |-> Nowhere] \in
                [at : {"gone", "idle", "hashing"}, file : ScanPaths \cup {Nowhere}]
          /\ [at |-> "hashing", file |-> file] \in
                [at : {"gone", "idle", "hashing"}, file : ScanPaths \cup {Nowhere}]
      BY <2>1
    <3> QED BY <1>5, <2>1, <3>1 DEF HashTypes
  <2>5. HashTypes'
    <3>1. Len(hashTargetChannel') <= HashBacklog
      BY <2>1, ScanAssumption DEF HashTypes
    <3>2. file # Nowhere
      BY <2>1, ScanAssumption DEF ScanPaths
    <3>3. \A u \in Threads : thread'[u].at = "hashing" => thread'[u].file # Nowhere
      BY <2>2, <2>3, <3>2 DEF HashTypes
    <3> QED BY <1>1, <2>1, <2>4, <3>1, <3>3 DEF HashTypes, HashFrame
  <2>6. \A q : \A u \in Threads : u # t => (Hashed(u, q)' <=> Hashed(u, q))
    BY <2>2 DEF Hashed
  <2>7. \A q : Hashed(t, q)' <=> ~immediateStopHashing /\ q = file
    BY <2>3 DEF Hashed, HashTypes
  <2>8. \A q : InLine(q) <=> InLine(q)' \/ q = file
    <3>1. ASSUME NEW q, InLine(q), q # file
          PROVE  InLine(q)'
      <4>1. PICK i \in 1 .. Len(hashTargetChannel) : hashTargetChannel[i] = q
        BY <3>1 DEF InLine
      <4>2. i # 1
        BY <3>1, <4>1 DEF file
      <4>3. i - 1 \in 1 .. Len(hashTargetChannel') /\ (i - 1) + 1 = i
        BY <2>1, <4>2
      <4>4. hashTargetChannel'[i - 1] = q
        BY <2>1, <4>1, <4>3
      <4> QED BY <4>3, <4>4 DEF InLine
    <3>2. InLine(file)
      <4>1. 1 \in 1 .. Len(hashTargetChannel)
        BY <2>1
      <4> QED BY <4>1 DEF InLine, file
    <3>3. ASSUME NEW q, InLine(q)'
          PROVE  InLine(q)
      <4>1. PICK i \in 1 .. Len(hashTargetChannel') : hashTargetChannel'[i] = q
        BY <3>3 DEF InLine
      <4>2. i + 1 \in 1 .. Len(hashTargetChannel)
        BY <2>1
      <4> QED BY <2>1, <4>1, <4>2 DEF InLine
    <3> QED BY <3>1, <3>2, <3>3
  <2>9. \A q \in ScanPaths : Held(q)' => Held(q)
    BY <1>1, <1>3, <2>6, <2>7, <2>8 DEF Held
  <2>10. ~immediateStopHashing => \A q \in ScanPaths : Held(q) => Held(q)'
    BY <1>1, <1>3, <1>4, <2>6, <2>7, <2>8 DEF Held
  <2>11. ASSUME NEW q \in ScanPaths, InOnePlace(q)
         PROVE  InOnePlace(q)'
    <3>1. \A i, j \in 1 .. Len(hashTargetChannel') :
             hashTargetChannel'[i] = q /\ hashTargetChannel'[j] = q => i = j
      <4> SUFFICES ASSUME NEW i \in 1 .. Len(hashTargetChannel'),
                          NEW j \in 1 .. Len(hashTargetChannel'),
                          hashTargetChannel'[i] = q, hashTargetChannel'[j] = q
                   PROVE  i = j
        OBVIOUS
      <4>1. /\ i + 1 \in 1 .. Len(hashTargetChannel) /\ hashTargetChannel[i + 1] = q
            /\ j + 1 \in 1 .. Len(hashTargetChannel) /\ hashTargetChannel[j + 1] = q
        BY <2>1
      <4>2. i + 1 = j + 1
        BY <2>11, <4>1 DEF InOnePlace
      <4> QED BY <4>2
    <3>2. q = file => ~InLine(q)'
      <4> SUFFICES ASSUME q = file, NEW i \in 1 .. Len(hashTargetChannel'),
                          hashTargetChannel'[i] = q
                   PROVE  FALSE
        BY DEF InLine
      <4>1. /\ i + 1 \in 1 .. Len(hashTargetChannel) /\ hashTargetChannel[i + 1] = q
            /\ 1 \in 1 .. Len(hashTargetChannel) /\ hashTargetChannel[1] = q /\ i + 1 # 1
        BY <2>1 DEF file
      <4> QED BY <2>11, <4>1 DEF InOnePlace
    <3>3. q = file => InLine(q)
      BY <2>8
    <3>4. (Sent(q) \/ toHash = q) => q # file /\ \A u \in Threads : ~Hashed(u, q)'
      BY <2>6, <2>7, <2>11, <3>3 DEF InOnePlace
    <3>5. \A u, v \in Threads : Hashed(u, q)' /\ Hashed(v, q)' => u = v
      BY <2>6, <2>7, <2>11, <3>3 DEF InOnePlace
    <3>6. InLine(q)' => \A u \in Threads : ~Hashed(u, q)'
      BY <2>6, <2>7, <2>8, <2>11, <3>2 DEF InOnePlace
    <3> QED BY <1>1, <1>3, <2>8, <2>11, <3>1, <3>4, <3>5, <3>6 DEF InOnePlace
  <2>12. OneInv => OneInv'
    BY <1>1, <1>2, <2>11 DEF OneInv
  <2> QED BY <1>1, <1>5, <2>2, <2>3, <2>5, <2>9, <2>10, <2>12 DEF PassedOn
<1>6. CASE /\ hashTargetChannel = <<>> /\ hashClosed
           /\ thread' = [thread EXCEPT ![t].at = "gone"] /\ UNCHANGED hashTargetChannel
  <2>1. \A u \in Threads \ {t} : thread'[u] = thread[u]
    BY <1>6 DEF HashTypes
  <2>2. thread' \in [Threads -> [at : {"gone", "idle", "hashing"}, file : ScanPaths \cup {Nowhere}]]
        /\ thread'[t].at = "gone"
    BY <1>6 DEF HashTypes
  <2>3. HashTypes'
    BY <1>1, <1>6, <2>1, <2>2 DEF HashTypes, HashFrame
  <2>4. \A q : \A u \in Threads : Hashed(u, q)' <=> Hashed(u, q)
    BY <1>4, <2>1, <2>2 DEF Hashed
  <2>5. \A q : InLine(q)' <=> InLine(q)
    BY <1>6 DEF InLine
  <2>6. \A q \in ScanPaths : Held(q)' <=> Held(q)
    BY <1>1, <1>3, <2>4, <2>5 DEF Held
  <2>7. \A q : InOnePlace(q) => InOnePlace(q)'
    BY <1>1, <1>3, <1>6, <2>4, <2>5 DEF InOnePlace
  <2>8. OneInv => OneInv'
    BY <1>1, <1>2, <2>7 DEF OneInv
  <2> QED BY <1>1, <1>6, <2>1, <2>3, <2>6, <2>8 DEF PassedOn
<1> QED BY <1>5, <1>6 DEF TakeFile

(* HashFile hands the file on, or ends the thread with an error.           *)
LEMMA HashFileDoes ==
    ASSUME ScanTypes, HashTypes, NEW t \in Threads, HashFile(t)
    PROVE  /\ HashFrame /\ HashTypes' /\ PassedOn /\ thread[t].at = "hashing"
           /\ \A u \in Threads \ {t} : thread'[u] = thread[u]
           /\ UNCHANGED <<toHash, hashTargetChannel>>
           /\ processed' \subseteq ScanPaths \X {"file", "folder", "symlink"}
           /\ again' \subseteq ScanPaths /\ faults' \in Nat
           /\ \/ /\ thread'[t].at = "idle" /\ hashErrors' = hashErrors
                 /\ \A q \in ScanPaths : Held(q) => Held(q)'
              \/ thread'[t].at = "gone" /\ hashErrors' = hashErrors + 1
<1> DEFINE file == thread[t].file
<1>1. /\ file \in ScanPaths /\ thread[t].at = "hashing"
      /\ thread \in [Threads -> [at : {"gone", "idle", "hashing"}, file : ScanPaths \cup {Nowhere}]]
  BY DEF HashFile, HashTypes
<1>2. HashFrame /\ UNCHANGED <<toHash, hashTargetChannel>>
  BY DEF HashFile, HashFrame, outcomeVars
<1>3. FileLinks' = FileLinks
  BY <1>2 DEF FileLinks, HashFrame, scanOptions
<1>4. \A q : InLine(q)' <=> InLine(q)
  BY <1>2 DEF InLine
<1>5. \A q : Hashed(t, q) <=> q = file
  BY <1>1 DEF Hashed
<1> HIDE DEF file
<1>6. ASSUME NEW at \in {"idle", "gone"},
             thread' = [thread EXCEPT ![t] = [at |-> at, file |-> Nowhere]]
      PROVE  /\ HashTypes' /\ thread'[t].at = at /\ \A u \in Threads \ {t} : thread'[u] = thread[u]
             /\ \A q : ~Hashed(t, q)'
             /\ \A q : \A u \in Threads : u # t => (Hashed(u, q)' <=> Hashed(u, q))
  <2>1. /\ thread'[t] = [at |-> at, file |-> Nowhere] /\ \A u \in Threads \ {t} : thread'[u] = thread[u]
        /\ thread' \in [Threads -> [at : {"gone", "idle", "hashing"}, file : ScanPaths \cup {Nowhere}]]
    BY <1>1, <1>6
  <2>2. HashTypes'
    BY <1>2, <2>1 DEF HashTypes, HashFrame
  <2> QED BY <2>1, <2>2 DEF Hashed
<1>7. CASE /\ Process(file, "file")
           /\ thread' = [thread EXCEPT ![t] = [at |-> "idle", file |-> Nowhere]]
           /\ UNCHANGED <<hashErrors, faults>>
  <2>1. \A q : Sent(q)' <=> Sent(q) \/ q = file
    <3> DEFINE new == <<file, "file">>
    <3>1. processed' = processed \cup {new}
      BY <1>7 DEF Process
    <3>2. new[1] = file
      OBVIOUS
    <3> HIDE DEF new
    <3>3. ASSUME NEW q
          PROVE  Sent(q)' <=> Sent(q) \/ q = file
      BY <3>1, <3>2 DEF Sent
    <3> QED BY <3>3
  <2>2. again' = again \/ again' = again \cup {file}
    BY <1>7 DEF Process
  <2>3. ~Sent(file) => again' = again
    BY <1>7 DEF Sent, Process
  <2>4. /\ HashTypes' /\ thread'[t].at = "idle" /\ \A u \in Threads \ {t} : thread'[u] = thread[u]
        /\ \A q : ~Hashed(t, q)'
        /\ \A q : \A u \in Threads : u # t => (Hashed(u, q)' <=> Hashed(u, q))
    BY <1>6, <1>7
  <2>5. \A q \in ScanPaths : Held(q)' <=> Held(q)
    BY <1>2, <1>4, <1>5, <2>1, <2>4 DEF Held
  <2>6. ASSUME NEW q \in ScanPaths, InOnePlace(q)
        PROVE  InOnePlace(q)'
    BY <1>2, <1>4, <1>5, <2>1, <2>4, <2>6 DEF InOnePlace
  <2>7. InOnePlace(file) => ~Sent(file)
    BY <1>5 DEF InOnePlace
  <2>8. OneInv => OneInv'
    BY <1>1, <1>3, <2>2, <2>3, <2>6, <2>7 DEF OneInv
  <2>9. again' \subseteq ScanPaths
    BY <1>1, <2>2 DEF ScanTypes
  <2>10. processed' \subseteq ScanPaths \X {"file", "folder", "symlink"}
    <3>1. processed' = processed \cup {<<file, "file">>}
      BY <1>7 DEF Process
    <3> QED BY <1>1, <3>1 DEF ScanTypes
  <2> QED BY <1>1, <1>2, <1>7, <2>4, <2>5, <2>8, <2>9, <2>10 DEF PassedOn, ScanTypes
<1>8. CASE /\ Fail /\ hashErrors' = hashErrors + 1
           /\ thread' = [thread EXCEPT ![t] = [at |-> "gone", file |-> Nowhere]]
           /\ UNCHANGED <<processed, again>>
  <2>1. \A q : Sent(q)' <=> Sent(q)
    BY <1>8 DEF Sent
  <2>2. /\ HashTypes' /\ thread'[t].at = "gone" /\ \A u \in Threads \ {t} : thread'[u] = thread[u]
        /\ \A q : ~Hashed(t, q)'
        /\ \A q : \A u \in Threads : u # t => (Hashed(u, q)' <=> Hashed(u, q))
    BY <1>6, <1>8
  <2>3. \A q \in ScanPaths : Held(q)' => Held(q)
    BY <1>2, <1>4, <2>1, <2>2 DEF Held
  <2>4. ASSUME NEW q \in ScanPaths, InOnePlace(q)
        PROVE  InOnePlace(q)'
    BY <1>2, <1>4, <2>1, <2>2, <2>4 DEF InOnePlace
  <2>5. OneInv => OneInv'
    BY <1>3, <1>8, <2>4 DEF OneInv
  <2>6. faults' \in Nat
    BY <1>8 DEF Fail, ScanTypes
  <2> QED BY <1>1, <1>2, <1>8, <2>2, <2>3, <2>5, <2>6 DEF PassedOn, ScanTypes
<1> QED BY <1>7, <1>8 DEF HashFile, file
(* What the walk function makes of an entry. *)
IsVisit(visit, offered, recorded, queued) ==
    visit.offered = offered /\ visit.recorded = recorded /\ visit.queued = queued

(* What the walk function passes over. *)
IsPassedOver(p) ==
    \/ p \notin ScanLinks /\ HasSeen(p)
    \/ p \in ScanLinks /\ handling = "skip"
    \/ /\ p \in ScanLinks /\ handling = "follow"
       /\ LinkTo[p] = Nowhere \/ LinkTo[p] \in ScanDirs \cap seenPaths

(* The outcomes of the walk function. *)
LEMMA VisitIs ==
    ASSUME ScanTypes, NEW p \in ScanPaths
    PROVE  \/ IsPassedOver(p) /\ IsVisit(Visit(p), "none", {}, <<>>)
           \/ p \notin ScanLinks /\ ~HasSeen(p) /\ IsVisit(Visit(p), KindOf(p), {p}, <<>>)
           \/ p \in ScanLinks /\ handling = "preserve" /\ IsVisit(Visit(p), "symlink", {p}, <<>>)
           \/ p \in FileLinks /\ IsVisit(Visit(p), "file", {}, <<>>)
           \/ /\ p \in ScanLinks /\ handling = "follow" /\ LinkTo[p] \in ScanDirs \ seenPaths
              /\ IsVisit(Visit(p), "folder", {LinkTo[p], p}, <<LinkTo[p]>>)
<1>1. /\ IsVisit(Nothing, "none", {}, <<>>)
      /\ IsVisit([Nothing EXCEPT !.bad = TRUE], "none", {}, <<>>)
  BY DEF IsVisit, Nothing
<1>2. \A kind, paths : IsVisit(Offer(kind, paths), kind, paths, <<>>)
  BY DEF IsVisit, Nothing, Offer
<1>3. IsVisit([Offer("folder", {LinkTo[p], p}) EXCEPT !.queued = <<LinkTo[p]>>],
              "folder", {LinkTo[p], p}, <<LinkTo[p]>>)
  BY DEF IsVisit, Nothing, Offer
<1>4. CASE p \notin ScanLinks
  BY <1>1, <1>2, <1>4 DEF Visit, VisitPlain, IsPassedOver
<1>5. CASE p \in ScanLinks /\ handling # "follow"
  <2>1. handling \in {"skip", "preserve"} /\ Visit(p) = VisitLink(p)
    BY <1>5 DEF ScanTypes, Visit
  <2>2. CASE handling = "skip"
    <3>1. VisitLink(p) = Nothing
      BY <2>2 DEF VisitLink
    <3> QED BY <1>1, <1>5, <2>1, <2>2, <3>1 DEF IsPassedOver
  <2>3. CASE handling = "preserve"
    <3>1. VisitLink(p) = Offer("symlink", {p})
      BY <2>3 DEF VisitLink
    <3> QED BY <1>2, <1>5, <2>1, <2>3, <3>1
  <2> QED BY <2>1, <2>2, <2>3
<1>6. CASE p \in ScanLinks /\ handling = "follow"
  <2>1. Visit(p) = VisitLink(p) /\ LinkTo[p] \in ScanDirs \cup ScanFiles \cup {Nowhere}
    BY <1>6, ScanAssumption DEF Visit
  <2>2. Nowhere \notin ScanFiles \cup ScanDirs
    BY ScanAssumption DEF ScanPaths
  <2>3. CASE LinkTo[p] = Nowhere
    <3>1. VisitLink(p) = [Nothing EXCEPT !.bad = TRUE]
      BY <1>6, <2>2, <2>3 DEF VisitLink
    <3> QED BY <1>1, <1>6, <2>1, <2>3, <3>1 DEF IsPassedOver
  <2>4. CASE LinkTo[p] \in ScanFiles
    <3>1. VisitLink(p) = Offer("file", {})
      BY <1>6, <2>2, <2>4 DEF VisitLink
    <3> QED BY <1>2, <1>6, <2>1, <2>4, <3>1 DEF FileLinks
  <2>5. CASE LinkTo[p] \in ScanDirs
    <3>1. LinkTo[p] \notin ScanFiles /\ LinkTo[p] # Nowhere
      BY <2>2, <2>5, ScanAssumption
    <3>2. VisitLink(p) = IF HasSeen(LinkTo[p]) THEN Nothing
                         ELSE [Offer("folder", {LinkTo[p], p}) EXCEPT !.queued = <<LinkTo[p]>>]
      BY <1>6, <3>1 DEF VisitLink
    <3>3. HasSeen(LinkTo[p]) <=> LinkTo[p] \in seenPaths
      BY <1>6 DEF HasSeen
    <3>4. CASE LinkTo[p] \in seenPaths
      <4>1. Visit(p) = Nothing
        BY <2>1, <3>2, <3>3, <3>4
      <4>2. IsPassedOver(p)
        BY <1>6, <2>5, <3>4 DEF IsPassedOver
      <4> QED BY <1>1, <4>1, <4>2
    <3>5. CASE LinkTo[p] \notin seenPaths
      BY <1>3, <1>6, <2>1, <2>5, <3>2, <3>3, <3>5
    <3> QED BY <3>4, <3>5
  <2> QED BY <2>1, <2>3, <2>4, <2>5
<1> QED BY <1>4, <1>5, <1>6 DEF ScanTypes

(* What it makes of an entry that it is given; broken off, the walk leaves *)
(* what is held as it was.                                                 *)
IsWanted(p, offered) == offered # "none" /\ p \notin Excluded

(* What TakeResult does with an entry and what the walk function made of it. *)
Taken(p, offered, recorded, queued) ==
    /\ seenPaths' = IF IsWanted(p, offered) THEN seenPaths \cup recorded ELSE seenPaths
    /\ walkQueue' = IF IsWanted(p, offered) THEN walkQueue \o queued ELSE walkQueue
    /\ \/ /\ \A q \in ScanPaths : Held(q)' <=> Held(q) \/ (q = p /\ IsWanted(p, offered))
          /\ OneInv /\ (IsWanted(p, offered) => p \in FileLinks \/ ~Held(p)) => OneInv'
          /\ UNCHANGED <<main, stopped, cancelled, faults>>
       \/ /\ \A q \in ScanPaths : Held(q)' <=> Held(q)
          /\ OneInv => OneInv'
          /\ main' = "next" /\ stopped' /\ cancelled' /\ faults' \in Nat
          /\ UNCHANGED <<toHash, processed, again>>

(* What TakeResult leaves alone. *)
TakenFrame ==
    /\ UNCHANGED <<unlisted, scanOptions, toList, entityType, result>>
    /\ UNCHANGED <<worker, unstartedDirs, dirInProgressCount, panicked>>
    /\ UNCHANGED <<hashTargetChannel, hashClosed, immediateStopHashing, thread, hashErrors>>

(* The types of what Process and Defer write to. *)
HeldTyped ==
    /\ toHash \in ScanPaths \cup {Nowhere} /\ (toHash # Nowhere => hashing)
    /\ processed \subseteq ScanPaths \X {"file", "folder", "symlink"} /\ again \subseteq ScanPaths

(* What changes nothing of these holds what was held. *)
LEMMA NothingHeldMore ==
    ASSUME UNCHANGED <<toHash, hashTargetChannel, thread, processed, again, handling>>
    PROVE  (\A q \in ScanPaths : Held(q)' <=> Held(q)) /\ (OneInv => OneInv')
<1>1. \A q : Sent(q)' <=> Sent(q)
  BY DEF Sent
<1>2. \A q : InLine(q)' <=> InLine(q)
  BY DEF InLine
<1>3. \A q : \A t \in Threads : Hashed(t, q)' <=> Hashed(t, q)
  BY DEF Hashed
<1>4. FileLinks' = FileLinks
  BY DEF FileLinks
<1>5. \A q : InOnePlace(q) => InOnePlace(q)'
  BY <1>1, <1>2, <1>3 DEF InOnePlace
<1> QED BY <1>1, <1>2, <1>3, <1>4, <1>5 DEF Held, OneInv

(* What TakeResult does, entry by entry. *)
LEMMA TakeResultDoes ==
    ASSUME ScanTypes, HashTypes, PhaseInv, TakeResult
    PROVE  /\ main = "walking" /\ toHash = Nowhere /\ Len(output) > 0 /\ TakenFrame /\ HeldTyped'
           /\ output' = Tail(output) /\ output[1] \in [path : ScanPaths, ok : BOOLEAN]
           /\ output[1].path \in ScanPaths /\ reported \subseteq reported'
           /\ \/ ~output[1].ok /\ Taken(output[1].path, "none", {}, <<>>)
                               /\ reported' = reported \cup {output[1].path}
              \/ /\ output[1].ok /\ reported' \subseteq reported \cup {output[1].path}
                 /\ \E visit : visit = Visit(output[1].path)
                        /\ Taken(output[1].path, visit.offered, visit.recorded, visit.queued)
<1> DEFINE entry == output[1]
           p == entry.path
           visit == IF entry.ok THEN Visit(p) ELSE [Nothing EXCEPT !.bad = TRUE]
<1>1. /\ main = "walking" /\ toHash = Nowhere /\ output # <<>> /\ output' = Tail(output)
      /\ TakenFrame
  BY DEF TakeResult, TakenFrame
<1>2. /\ Len(output) > 0 /\ entry \in [path : ScanPaths, ok : BOOLEAN] /\ Head(output) = entry
      /\ p \in ScanPaths /\ entry.ok \in BOOLEAN
  <2>0. output \in Seq([path : ScanPaths, ok : BOOLEAN]) /\ output # <<>>
    BY <1>1 DEF ScanTypes
  <2>1. entry \in [path : ScanPaths, ok : BOOLEAN] /\ Len(output) > 0 /\ Head(output) = entry
    BY <2>0, HeadAndTail
  <2> QED BY <2>1
<1> HIDE DEF entry
<1>3. /\ Remember(p, visit)
      /\ reported' = IF visit.bad THEN reported \cup {p} ELSE reported
      /\ \/ /\ Handle(p, visit)
            /\ UNCHANGED <<main, stopped, cancelled, faults>>
         \/ /\ Included(p, visit) /\ Fail
            /\ main' = "next" /\ stopped' = TRUE /\ cancelled' = TRUE
            /\ UNCHANGED <<toHash, processed, again>>
  BY <1>2 DEF TakeResult
<1>4. /\ ~entry.ok => IsVisit(visit, "none", {}, <<>>) /\ visit.bad = TRUE
      /\ entry.ok => visit = Visit(p)
  BY DEF Nothing, IsVisit
<1>5. visit.offered \in {"none", "file", "folder", "symlink"}
  <2>1. CASE ~entry.ok
    BY <1>4, <2>1 DEF IsVisit
  <2>2. CASE entry.ok
    <3>1. KindOf(p) \in {"file", "folder", "symlink"}
      BY DEF KindOf
    <3> QED BY <1>2, <1>4, <2>2, <3>1, VisitIs DEF IsVisit
  <2> QED BY <2>1, <2>2
<1> HIDE DEF visit
<1>6. IsWanted(p, visit.offered) <=> Included(p, visit)
  BY DEF IsWanted, Included
<1>7. UNCHANGED <<hashTargetChannel, thread, handling, hashing>>
  BY <1>1 DEF TakenFrame, scanOptions
<1>8. HeldTyped' /\ Taken(p, visit.offered, visit.recorded, visit.queued)
  <2>1. /\ seenPaths' = IF IsWanted(p, visit.offered) THEN seenPaths \cup visit.recorded ELSE seenPaths
        /\ walkQueue' = IF IsWanted(p, visit.offered) THEN walkQueue \o visit.queued ELSE walkQueue
    BY <1>3, <1>6 DEF Remember
  <2>2. CASE Handle(p, visit) /\ UNCHANGED <<main, stopped, cancelled, faults>>
    <3>1. /\ \A q \in ScanPaths : Held(q)' <=> Held(q) \/ (q = p /\ Included(p, visit))
          /\ toHash' \in {Nowhere, p} /\ (toHash' # Nowhere => hashing)
          /\ processed' \subseteq ScanPaths \X {"file", "folder", "symlink"}
          /\ again' \subseteq ScanPaths
          /\ OneInv /\ (Included(p, visit) => p \in FileLinks \/ ~Held(p)) => OneInv'
      BY <1>1, <1>2, <1>5, <1>7, <2>2, HandleDoes
    <3>2. HeldTyped'
      BY <1>2, <1>7, <3>1 DEF HeldTyped
    <3>3. \A q \in ScanPaths : Held(q)' <=> Held(q) \/ (q = p /\ IsWanted(p, visit.offered))
      BY <1>6, <3>1
    <3> QED BY <1>6, <2>1, <2>2, <3>1, <3>2, <3>3 DEF Taken
  <2>3. CASE /\ Fail /\ main' = "next" /\ stopped' = TRUE /\ cancelled' = TRUE
             /\ UNCHANGED <<toHash, processed, again>>
    <3>1. (\A q \in ScanPaths : Held(q)' <=> Held(q)) /\ (OneInv => OneInv')
      BY <1>7, <2>3, NothingHeldMore
    <3>2. HeldTyped'
      BY <1>1, <1>7, <2>3 DEF HeldTyped, ScanTypes
    <3>3. faults' \in Nat
      BY <2>3 DEF Fail, ScanTypes
    <3> QED BY <2>1, <2>3, <3>1, <3>2, <3>3 DEF Taken
  <2> QED BY <1>3, <2>2, <2>3
<1>9. CASE ~entry.ok
  <2>1. Taken(p, "none", {}, <<>>) /\ reported' = reported \cup {p}
    BY <1>3, <1>4, <1>8, <1>9 DEF IsVisit
  <2> QED BY <1>1, <1>2, <1>8, <1>9, <2>1 DEF entry
<1>10. CASE entry.ok
  <2>1. /\ Taken(p, visit.offered, visit.recorded, visit.queued) /\ visit = Visit(p)
        /\ reported' \subseteq reported \cup {p} /\ reported \subseteq reported'
    BY <1>3, <1>4, <1>8, <1>10
  <2> QED BY <1>1, <1>2, <1>8, <1>10, <2>1 DEF entry
<1> QED BY <1>9, <1>10
(* Whether the root of a walk is handed on. *)
IsNewRoot(root) == ~HasSeen(root) /\ root \notin Excluded

(* What StartWalk leaves alone. *)
StartFrame ==
    /\ UNCHANGED <<unlisted, scanOptions, toList, entityType, result, dirInProgressCount, panicked>>
    /\ UNCHANGED <<toHash, hashTargetChannel, hashClosed, immediateStopHashing, thread, hashErrors>>

(* What StartWalk does with the root of the walk. *)
LEMMA StartWalkDoes ==
    ASSUME ScanTypes, HashTypes, PhaseInv, StartWalk
    PROVE  /\ main = "next" /\ Len(walkQueue) > 0 /\ Quiet /\ StartFrame /\ HeldTyped'
           /\ walkQueue[1] \in ScanDirs /\ walkQueue' = Tail(walkQueue)
           /\ output' = <<>> /\ ~cancelled' /\ cancelled' \in BOOLEAN
           /\ seenPaths' = IF IsNewRoot(walkQueue[1]) THEN seenPaths \cup {walkQueue[1]} ELSE seenPaths
           /\ \/ /\ \A q \in ScanPaths : Held(q)' <=> Held(q) \/ (q = walkQueue[1] /\ IsNewRoot(walkQueue[1]))
                 /\ OneInv /\ (IsNewRoot(walkQueue[1]) => ~Held(walkQueue[1])) => OneInv'
                 /\ main' = "walking" /\ unstartedDirs' = {walkQueue[1]}
                 /\ worker' = [w \in Workers |-> Waiting]
                 /\ UNCHANGED <<reported, faults, stopped>>
              \/ /\ \A q \in ScanPaths : Held(q)' <=> Held(q)
                 /\ OneInv => OneInv'
                 /\ main' = "next" /\ stopped' /\ stopped' \in BOOLEAN /\ faults' \in Nat
                 /\ reported' = reported \cup {walkQueue[1]}
                 /\ UNCHANGED <<unstartedDirs, worker>>
<1> DEFINE root == walkQueue[1]
           visit == VisitPlain(root)
<1>1. main = "next" /\ walkQueue # <<>> /\ Quiet /\ toHash = Nowhere
  BY DEF StartWalk, PhaseInv
<1>2. /\ root \in ScanDirs /\ Head(walkQueue) = root /\ Len(walkQueue) > 0
      /\ root \in ScanPaths /\ root \notin ScanLinks
  <2>1. walkQueue \in Seq(ScanDirs)
    BY DEF ScanTypes
  <2>2. root \in ScanDirs /\ Head(walkQueue) = root /\ Len(walkQueue) > 0
    BY <1>1, <2>1, HeadAndTail
  <2> QED BY <2>2, ScanAssumption DEF ScanPaths
<1> HIDE DEF root
<1>3. /\ seenPaths' = IF Included(root, visit) THEN seenPaths \cup {root} ELSE seenPaths
      /\ walkQueue' = Tail(walkQueue)
      /\ \/ /\ Handle(root, visit)
            /\ main' = "walking" /\ unstartedDirs' = {root}
            /\ worker' = [w \in Workers |-> Waiting]
            /\ UNCHANGED <<reported, faults, stopped>>
         \/ /\ Fail
            /\ reported' = reported \cup {root} /\ stopped' = TRUE
            /\ UNCHANGED <<main, unstartedDirs, worker, toHash, processed, again>>
  BY <1>2 DEF StartWalk
<1>4. /\ output' = <<>> /\ cancelled' = FALSE
      /\ UNCHANGED <<unlisted, scanOptions, toList, entityType, result, dirInProgressCount, panicked>>
      /\ UNCHANGED <<hashTargetChannel, hashClosed, immediateStopHashing, thread, hashErrors>>
  BY DEF StartWalk
<1>5. IsVisit(visit, IF HasSeen(root) THEN "none" ELSE "folder", {root} \cap visit.recorded, <<>>)
  <2>1. KindOf(root) = "folder"
    BY <1>2 DEF KindOf
  <2> QED BY <2>1 DEF VisitPlain, Offer, Nothing, IsVisit
<1> HIDE DEF visit
<1>6. /\ visit.offered \in {"none", "folder"}
      /\ Included(root, visit) <=> IsNewRoot(root)
  BY <1>5 DEF IsVisit, Included, IsNewRoot
<1>7. UNCHANGED <<hashTargetChannel, thread, handling, hashing>>
  BY <1>4 DEF scanOptions
<1>8. CASE /\ Handle(root, visit)
           /\ main' = "walking" /\ unstartedDirs' = {root}
           /\ worker' = [w \in Workers |-> Waiting]
           /\ UNCHANGED <<reported, faults, stopped>>
  <2>1. /\ \A q \in ScanPaths : Held(q)' <=> Held(q) \/ (q = root /\ Included(root, visit))
        /\ processed' \subseteq ScanPaths \X {"file", "folder", "symlink"}
        /\ again' \subseteq ScanPaths /\ toHash' = toHash
        /\ OneInv /\ (Included(root, visit) => root \in FileLinks \/ ~Held(root)) => OneInv'
    BY <1>1, <1>2, <1>6, <1>7, <1>8, HandleDoes
  <2>2. HeldTyped' /\ StartFrame
    BY <1>1, <1>4, <2>1 DEF HeldTyped, StartFrame
  <2> QED BY <1>1, <1>2, <1>3, <1>4, <1>6, <1>8, <2>1, <2>2 DEF root
<1>9. CASE /\ Fail
           /\ reported' = reported \cup {root} /\ stopped' = TRUE
           /\ UNCHANGED <<main, unstartedDirs, worker, toHash, processed, again>>
  <2>1. (\A q \in ScanPaths : Held(q)' <=> Held(q)) /\ (OneInv => OneInv')
    BY <1>7, <1>9, NothingHeldMore
  <2>2. HeldTyped' /\ StartFrame
    BY <1>1, <1>4, <1>7, <1>9 DEF HeldTyped, StartFrame, ScanTypes
  <2>3. faults' \in Nat
    BY <1>9 DEF Fail, ScanTypes
  <2> QED BY <1>1, <1>2, <1>3, <1>4, <1>6, <1>9, <2>1, <2>2, <2>3 DEF root
<1> QED BY <1>3, <1>8, <1>9

(* What ListEntry leaves alone. *)
ListFrame ==
    /\ UNCHANGED <<scanOptions, walkQueue, seenPaths, stopped, crawlVars>>
    /\ UNCHANGED <<hashTargetChannel, thread, hashErrors, reported, unlisted>>

(* Whether the flat listing hands an entry on. *)
IsListed1(p) ==
    p \notin ScanDirs /\ ~(p \in ScanLinks /\ handling = "skip") /\ p \notin Excluded

(* What ListEntry does with an entry. *)
LEMMA ListEntryDoes ==
    ASSUME ScanTypes, HashTypes, PhaseInv, NEW p \in toList, ListEntry(p)
    PROVE  /\ main = "flat" /\ ListFrame /\ HeldTyped' /\ p \in ScanPaths
           /\ toList' = toList \ {p} /\ entityType' \in {"file", "symlink"}
           /\ \/ /\ \A q \in ScanPaths : Held(q)' <=> Held(q) \/ (q = p /\ IsListed1(p))
                 /\ OneInv /\ (IsListed1(p) => ~Held(p)) => OneInv'
                 /\ UNCHANGED <<main, hashClosed, immediateStopHashing, result, faults>>
              \/ /\ \A q \in ScanPaths : Held(q)' <=> Held(q)
                 /\ OneInv => OneInv'
                 /\ main' = "finalizing" /\ hashClosed' = TRUE /\ immediateStopHashing' = TRUE
                 /\ result' = "error" /\ faults' \in Nat /\ toHash' = Nowhere
<1> DEFINE visit == IF p \in ScanDirs \/ (p \in ScanLinks /\ handling = "skip") THEN Nothing
                    ELSE Offer(FlatType(p), {})
<1>1. main = "flat" /\ toHash = Nowhere /\ toList' = toList \ {p} /\ entityType' = FlatType(p)
  BY DEF ListEntry
<1>2. p \in ScanPaths
  BY DEF ScanTypes, Children
<1>3. FlatType(p) \in {"file", "symlink"}
  BY DEF FlatType, ScanTypes
<1>4. ListFrame
  BY DEF ListEntry, ListFrame
<1>5. \/ /\ Handle(p, visit)
         /\ UNCHANGED <<main, hashClosed, immediateStopHashing, result, faults>>
      \/ /\ Fail /\ FlatReturn(TRUE)
         /\ UNCHANGED <<toHash, processed, again>>
  BY DEF ListEntry
<1>6. /\ visit.offered \in {"none", "file", "symlink"}
      /\ Included(p, visit) <=> IsListed1(p)
  BY <1>3 DEF Nothing, Offer, Included, IsListed1
<1> HIDE DEF visit
<1>7. UNCHANGED <<hashTargetChannel, thread, handling, hashing>>
  BY <1>4 DEF ListFrame, scanOptions
<1>8. CASE /\ Handle(p, visit)
           /\ UNCHANGED <<main, hashClosed, immediateStopHashing, result, faults>>
  <2>1. /\ \A q \in ScanPaths : Held(q)' <=> Held(q) \/ (q = p /\ Included(p, visit))
        /\ toHash' \in {Nowhere, p} /\ (toHash' # Nowhere => hashing)
        /\ processed' \subseteq ScanPaths \X {"file", "folder", "symlink"}
        /\ again' \subseteq ScanPaths
        /\ OneInv /\ (Included(p, visit) => p \in FileLinks \/ ~Held(p)) => OneInv'
    BY <1>1, <1>2, <1>6, <1>7, <1>8, HandleDoes
  <2>2. HeldTyped'
    BY <1>2, <1>7, <2>1 DEF HeldTyped
  <2> QED BY <1>1, <1>2, <1>3, <1>4, <1>6, <1>8, <2>1, <2>2
<1>9. CASE /\ Fail /\ FlatReturn(TRUE)
           /\ UNCHANGED <<toHash, processed, again>>
  <2>1. (\A q \in ScanPaths : Held(q)' <=> Held(q)) /\ (OneInv => OneInv')
    BY <1>7, <1>9, NothingHeldMore
  <2>2. HeldTyped' /\ faults' \in Nat
    BY <1>1, <1>7, <1>9 DEF HeldTyped, ScanTypes, Fail
  <2> QED BY <1>1, <1>2, <1>3, <1>4, <1>9, <2>1, <2>2 DEF FlatReturn
<1> QED BY <1>5, <1>8, <1>9

(* The ends of the walks and of the listing leave what is held as it is.   *)
EndFrame ==
    /\ UNCHANGED <<scanOptions, walkQueue, seenPaths, toList, entityType, stopped, crawlVars>>
    /\ UNCHANGED <<toHash, hashTargetChannel, thread, hashErrors, outcomeVars>>

(* What the steps between two phases do. *)
LEMMA EndsDo ==
    ASSUME ScanTypes, HashTypes, PhaseInv,
           EndWalk \/ EndWalks \/ EndFlatListing \/ Finalize
    PROVE  /\ EndFrame /\ HashTypes' /\ (\A q \in ScanPaths : Held(q)' <=> Held(q)) /\ (OneInv => OneInv')
           /\ toHash = Nowhere /\ immediateStopHashing' \in {immediateStopHashing, FALSE}
           /\ \/ /\ main = "walking" /\ main' = "next" /\ output = <<>> /\ Quiet
                 /\ UNCHANGED <<hashClosed, immediateStopHashing, result>>
              \/ /\ main = "next" /\ walkQueue = <<>> /\ main' = "finalizing" /\ hashClosed' = TRUE
                 /\ UNCHANGED <<immediateStopHashing, result>>
              \/ /\ main = "flat" /\ toList = {} /\ main' = "finalizing" /\ hashClosed' = TRUE
                 /\ immediateStopHashing' = FALSE /\ result' = "none"
              \/ /\ main = "finalizing" /\ main' = "done" /\ (\A t \in Threads : thread[t].at = "gone")
                 /\ result' = (IF result = "error" \/ hashErrors > 0 THEN "error" ELSE "ok")
                 /\ UNCHANGED <<hashClosed, immediateStopHashing>>
<1>1. EndFrame
  BY DEF EndFrame, EndWalk, EndWalks, EndFlatListing, Finalize, hashVars
<1>2. (\A q \in ScanPaths : Held(q)' <=> Held(q)) /\ (OneInv => OneInv')
  BY <1>1, NothingHeldMore DEF EndFrame, outcomeVars, scanOptions
<1>3. /\ toHash = Nowhere
      /\ \/ /\ main = "walking" /\ main' = "next" /\ output = <<>> /\ Quiet
            /\ UNCHANGED <<hashClosed, immediateStopHashing, result>>
         \/ /\ main = "next" /\ walkQueue = <<>> /\ main' = "finalizing" /\ hashClosed' = TRUE
            /\ UNCHANGED <<immediateStopHashing, result>>
         \/ /\ main = "flat" /\ toList = {} /\ main' = "finalizing" /\ hashClosed' = TRUE
            /\ immediateStopHashing' = FALSE /\ result' = "none"
         \/ /\ main = "finalizing" /\ main' = "done" /\ (\A t \in Threads : thread[t].at = "gone")
            /\ result' = (IF result = "error" \/ hashErrors > 0 THEN "error" ELSE "ok")
            /\ UNCHANGED <<hashClosed, immediateStopHashing>>
  BY DEF EndWalk, EndWalks, EndFlatListing, Finalize, PhaseInv, FlatReturn, hashVars
<1>4. HashTypes'
  BY <1>1, <1>3 DEF HashTypes, EndFrame
<1> QED BY <1>1, <1>2, <1>3, <1>4
(* The steps of a scan. *)
LEMMA StepCases ==
    ASSUME LSNext
    PROVE  \/ \E w \in Workers : TakeDirectory(w)
           \/ \E w \in Workers : ReadDirectory(w)
           \/ \E w \in Workers : \E p \in worker[w].remaining : PutEntry(w, p)
           \/ \E w \in Workers : FinishDirectory(w)
           \/ StartWalk
           \/ TakeResult
           \/ EndWalk \/ EndWalks \/ EndFlatListing \/ Finalize
           \/ \E p \in toList : ListEntry(p)
           \/ Defer
           \/ \E t \in Threads : TakeFile(t)
           \/ \E t \in Threads : HashFile(t)
BY DEF LSNext, MainStep, WorkerStep, ThreadStep

(* The types of what the crawl and the hashing share with nobody.          *)
LEMMA CrawlKeepsTypes ==
    ASSUME ScanTypes, HashTypes, CrawlFrame, worker' \in [Workers -> WorkerStates],
           unstartedDirs' \subseteq ScanDirs,
           output' \in Seq([path : ScanPaths, ok : BOOLEAN]), Len(output') <= OutputRoom
    PROVE  ScanTypes' /\ HashTypes'
<1>1. HashTypes'
  BY DEF HashTypes, CrawlFrame, hashVars
<1>2. ScanTypes'
  BY DEF ScanTypes, CrawlFrame, scanOptions, walkVars
<1> QED BY <1>1, <1>2

(* The types after a step of the hashing. *)
LEMMA HashKeepsTypes ==
    ASSUME ScanTypes, WorkerInv, EntryInv, HashFrame,
           processed' \subseteq ScanPaths \X {"file", "folder", "symlink"},
           again' \subseteq ScanPaths, faults' \in Nat
    PROVE  ScanTypes' /\ WorkerInv' /\ EntryInv'
<1>1. ScanTypes'
  BY DEF ScanTypes, HashFrame, scanOptions, walkVars, crawlVars
<1>2. WorkerInv'
  BY DEF WorkerInv, Busy, HashFrame, crawlVars
<1>3. EntryInv'
  BY DEF EntryInv, HashFrame, crawlVars
<1> QED BY <1>1, <1>2, <1>3

(* A worker keeps to the entries of its directory. *)
LEMMA WorkerMoves ==
    ASSUME WorkerInv, NEW w \in Workers, Moved(w),
           worker'[w].at # "listing" => worker'[w].remaining = {} /\ worker'[w].found = {},
           worker'[w].at \in {"reading", "listing"} =>
               /\ worker'[w].dir \in ScanDirs
               /\ worker'[w].remaining \subseteq Children(worker'[w].dir)
               /\ worker'[w].found \subseteq Children(worker'[w].dir)
    PROVE  WorkerInv' /\ worker' \in [Workers -> WorkerStates]
<1> SUFFICES ASSUME NEW v \in Workers
             PROVE  /\ worker'[v].at # "listing" =>
                         worker'[v].remaining = {} /\ worker'[v].found = {}
                    /\ worker'[v].at \in {"reading", "listing"} =>
                          /\ worker'[v].dir \in ScanDirs
                          /\ worker'[v].remaining \subseteq Children(worker'[v].dir)
                          /\ worker'[v].found \subseteq Children(worker'[v].dir)
  BY DEF WorkerInv, Busy, Moved
<1>1. CASE v = w
  BY <1>1
<1>2. CASE v # w
  BY <1>2 DEF WorkerInv, Busy, Moved
<1> QED BY <1>1, <1>2

(* What is put in the channel. *)
LEMMA PutIs ==
    ASSUME ScanTypes, NEW path \in ScanPaths, NEW ok \in BOOLEAN, Put([path |-> path, ok |-> ok])
    PROVE  \/ UNCHANGED output /\ cancelled
           \/ /\ output' \in Seq([path : ScanPaths, ok : BOOLEAN])
              /\ Len(output') = Len(output) + 1 /\ Len(output) \in Nat
              /\ \A i \in 1 .. Len(output) : output'[i] = output[i]
              /\ output'[Len(output) + 1] = [path |-> path, ok |-> ok]
              /\ \A i \in 1 .. Len(output') : i \in 1 .. Len(output) \/ i = Len(output) + 1
<1> DEFINE E == [path : ScanPaths, ok : BOOLEAN]
           entry == [path |-> path, ok |-> ok]
<1>1. entry \in E /\ output \in Seq(E)
  BY DEF ScanTypes
<1> HIDE DEF E, entry
<1>2. CASE output' = Append(output, entry)
  <2>1. /\ output' \in Seq(E) /\ Len(output') = Len(output) + 1 /\ Len(output) \in Nat
        /\ \A i \in 1 .. Len(output) : output'[i] = output[i]
        /\ output'[Len(output) + 1] = entry
        /\ \A i \in 1 .. Len(output') : i \in 1 .. Len(output) \/ i = Len(output) + 1
    BY <1>1, <1>2
  <2> QED BY <2>1 DEF E, entry
<1> QED BY <1>2 DEF Put, entry

(* What is put in the channel is an entry. *)
LEMMA PutKeepsEntries ==
    ASSUME ScanTypes, EntryInv, NEW path \in ScanPaths, NEW ok \in BOOLEAN,
           Put([path |-> path, ok |-> ok]), ok \/ path \in ScanDirs
    PROVE  EntryInv'
<1>1. CASE UNCHANGED output
  BY <1>1 DEF EntryInv
<1>2. CASE ~UNCHANGED output
  <2>1. /\ \A i \in 1 .. Len(output) : output'[i] = output[i]
        /\ output'[Len(output) + 1] = [path |-> path, ok |-> ok]
        /\ \A i \in 1 .. Len(output') : i \in 1 .. Len(output) \/ i = Len(output) + 1
    BY <1>2, PutIs
  <2> SUFFICES ASSUME NEW i \in 1 .. Len(output')
               PROVE  output'[i].ok \/ output'[i].path \in ScanDirs
    BY DEF EntryInv
  <2>2. CASE i \in 1 .. Len(output)
    BY <2>1, <2>2 DEF EntryInv
  <2>3. CASE i = Len(output) + 1
    BY <2>1, <2>3
  <2> QED BY <2>1, <2>2, <2>3
<1> QED BY <1>1, <1>2

(* What an entry that was taken has put in the list of paths seen and in   *)
(* the queue of walks.                                                     *)
TakenTyped(p) ==
    \E offered : \E recorded \in SUBSET ScanPaths : \E queued \in Seq(ScanDirs) :
        Taken(p, offered, recorded, queued)

(* The types after TakeResult. *)
LEMMA TakenIsTyped ==
    ASSUME NEW p, NEW offered, NEW recorded \in SUBSET ScanPaths, NEW queued \in Seq(ScanDirs),
           Taken(p, offered, recorded, queued)
    PROVE  TakenTyped(p)
BY DEF TakenTyped

(* Every step keeps the types. *)
LEMMA TypesStep ==
    ASSUME ScanTypes, HashTypes, WorkerInv, EntryInv, PhaseInv, LSNext
    PROVE  ScanTypes' /\ HashTypes' /\ WorkerInv' /\ EntryInv'
<1>1. CASE \E w \in Workers : TakeDirectory(w)
  <2>1. PICK w \in Workers : TakeDirectory(w)
    BY <1>1
  <2>2. CrawlFrame /\ WorkersTyped' /\ output' = output /\ unstartedDirs' \subseteq ScanDirs
    BY <2>1, TakeDirectoryTypes
  <2>3. ScanTypes' /\ HashTypes'
    BY <2>2, CrawlKeepsTypes DEF WorkersTyped, ScanTypes
  <2>4. EntryInv'
    BY <2>2 DEF EntryInv
  <2> QED BY <2>2, <2>3, <2>4 DEF WorkersTyped
<1>2. CASE \E w \in Workers : ReadDirectory(w)
  <2>1. PICK w \in Workers : ReadDirectory(w)
    BY <1>2
  <2>2. /\ CrawlFrame /\ UNCHANGED <<unstartedDirs, dirInProgressCount>>
        /\ worker[w].dir \in ScanDirs /\ Moved(w) /\ worker[w].at = "reading"
        /\ output' \in Seq([path : ScanPaths, ok : BOOLEAN]) /\ Len(output') <= OutputRoom
        /\ worker[w].remaining = {}
        /\ worker'[w].found = {} /\ worker'[w].dir = worker[w].dir
    BY <2>1, ReadDirectoryDoes
  <2>3. /\ worker'[w].remaining \subseteq Children(worker[w].dir)
        /\ worker'[w].at = "reading" => worker'[w].remaining = {}
        /\ worker'[w].at \in {"reading", "listing"}
        /\ UNCHANGED output \/ Put([path |-> worker[w].dir, ok |-> FALSE])
    BY <2>1, <2>2, ReadDirectoryDoes
  <2>4. WorkerInv' /\ worker' \in [Workers -> WorkerStates]
    BY <2>2, <2>3, WorkerMoves
  <2>5. ScanTypes' /\ HashTypes'
    BY <2>2, <2>4, CrawlKeepsTypes DEF ScanTypes
  <2>6. EntryInv'
    <3>1. CASE UNCHANGED output
      BY <3>1 DEF EntryInv
    <3>2. CASE Put([path |-> worker[w].dir, ok |-> FALSE])
      <4>1. worker[w].dir \in ScanPaths
        BY <2>2 DEF ScanPaths
      <4> QED BY <2>2, <3>2, <4>1, PutKeepsEntries
    <3> QED BY <2>3, <3>1, <3>2
  <2> QED BY <2>4, <2>5, <2>6
<1>3. CASE \E w \in Workers : \E p \in worker[w].remaining : PutEntry(w, p)
  <2>1. PICK w \in Workers : \E p \in worker[w].remaining : PutEntry(w, p)
    BY <1>3
  <2>2. PICK p \in worker[w].remaining : PutEntry(w, p)
    BY <2>1
  <2>3. /\ CrawlFrame /\ UNCHANGED <<unstartedDirs>> /\ Moved(w)
        /\ worker'[w].at = "listing"
        /\ worker'[w].dir = worker[w].dir /\ worker[w].dir \in ScanDirs
        /\ worker'[w].remaining = worker[w].remaining \ {p}
        /\ worker'[w].found = worker[w].found \cup ({p} \cap ScanDirs)
        /\ worker[w].remaining \subseteq Children(worker[w].dir)
        /\ worker[w].found \subseteq Children(worker[w].dir)
        /\ p \in ScanPaths /\ InDir[p] = worker[w].dir
        /\ Put([path |-> p, ok |-> TRUE])
        /\ output' \in Seq([path : ScanPaths, ok : BOOLEAN]) /\ Len(output') <= OutputRoom
    BY <2>2, PutEntryDoes
  <2>4. worker'[w].found \subseteq Children(worker[w].dir)
    BY <2>3 DEF Children
  <2>5. WorkerInv' /\ worker' \in [Workers -> WorkerStates]
    BY <2>3, <2>4, WorkerMoves
  <2>6. ScanTypes' /\ HashTypes'
    BY <2>3, <2>5, CrawlKeepsTypes DEF ScanTypes
  <2>7. EntryInv'
    BY <2>3, PutKeepsEntries
  <2> QED BY <2>5, <2>6, <2>7
<1>4. CASE \E w \in Workers : FinishDirectory(w)
  <2>1. PICK w \in Workers : FinishDirectory(w)
    BY <1>4
  <2>2. /\ CrawlFrame /\ UNCHANGED <<output>> /\ Moved(w)
        /\ worker[w].found \subseteq ScanDirs
        /\ worker'[w].at \in {"idle", "gone"}
        /\ worker'[w].remaining = {} /\ worker'[w].found = {}
        /\ unstartedDirs' = unstartedDirs \cup worker[w].found
    BY <2>1, FinishDirectoryDoes
  <2>3. WorkerInv' /\ worker' \in [Workers -> WorkerStates]
    BY <2>2, WorkerMoves
  <2>4. ScanTypes' /\ HashTypes'
    BY <2>2, <2>3, CrawlKeepsTypes DEF ScanTypes
  <2>5. EntryInv'
    BY <2>2 DEF EntryInv
  <2> QED BY <2>3, <2>4, <2>5
<1>5. CASE StartWalk
  <2>1. /\ main = "next" /\ StartFrame /\ HeldTyped'
        /\ walkQueue[1] \in ScanDirs /\ walkQueue' = Tail(walkQueue) /\ Len(walkQueue) > 0
        /\ output' = <<>> /\ cancelled' \in BOOLEAN
        /\ seenPaths' \subseteq seenPaths \cup {walkQueue[1]}
        /\ reported' \subseteq reported \cup {walkQueue[1]}
        /\ main' \in {"next", "walking"} /\ stopped' \in BOOLEAN /\ faults' \in Nat
        /\ worker' = worker \/ worker' = [w \in Workers |-> Waiting]
        /\ unstartedDirs' \subseteq unstartedDirs \cup {walkQueue[1]}
    <3>1. \/ /\ main' = "walking" /\ unstartedDirs' = {walkQueue[1]}
             /\ worker' = [w \in Workers |-> Waiting] /\ UNCHANGED <<reported, faults, stopped>>
          \/ /\ main' = "next" /\ stopped' \in BOOLEAN /\ faults' \in Nat
             /\ reported' = reported \cup {walkQueue[1]} /\ UNCHANGED <<unstartedDirs, worker>>
      BY <1>5, StartWalkDoes
    <3> QED BY <1>5, <3>1, StartWalkDoes DEF ScanTypes
  <2>2. walkQueue' \in Seq(ScanDirs)
    BY <2>1 DEF ScanTypes
  <2>3. /\ Waiting \in WorkerStates /\ Waiting.at = "idle"
        /\ Waiting.remaining = {} /\ Waiting.found = {}
    BY DEF Waiting, Resting, WorkerStates
  <2>4. WorkerInv' /\ worker' \in [Workers -> WorkerStates]
    <3>1. CASE worker' = worker
      BY <3>1 DEF WorkerInv, Busy, ScanTypes
    <3>2. CASE worker' = [w \in Workers |-> Waiting]
      BY <2>3, <3>2 DEF WorkerInv, Busy
    <3> QED BY <2>1, <3>1, <3>2
  <2>5. EntryInv'
    BY <2>1 DEF EntryInv
  <2>6. HashTypes'
    BY <2>1 DEF HashTypes, StartFrame
  <2>7. <<>> \in Seq([path : ScanPaths, ok : BOOLEAN]) /\ Len(<<>>) <= OutputRoom
    BY ScanAssumption
  <2>8. walkQueue[1] \in ScanPaths
    BY <2>1 DEF ScanPaths
  <2>9. /\ output' \in Seq([path : ScanPaths, ok : BOOLEAN]) /\ Len(output') <= OutputRoom
        /\ unstartedDirs' \subseteq ScanDirs /\ seenPaths' \subseteq ScanPaths
        /\ reported' \subseteq ScanPaths
    BY <2>1, <2>7, <2>8 DEF ScanTypes
  <2>10. ScanTypes'
    BY <2>1, <2>2, <2>4, <2>9 DEF ScanTypes, StartFrame, scanOptions, HeldTyped
  <2> QED BY <2>4, <2>5, <2>6, <2>10
<1>6. CASE TakeResult
  <2>1. /\ TakenFrame /\ HeldTyped' /\ main = "walking" /\ Len(output) > 0
        /\ output' = Tail(output) /\ output[1].path \in ScanPaths
        /\ reported' \subseteq reported \cup {output[1].path}
        /\ TakenTyped(output[1].path)
    <3>1. /\ TakenFrame /\ HeldTyped' /\ main = "walking" /\ Len(output) > 0
          /\ output' = Tail(output) /\ output[1].path \in ScanPaths
          /\ \/ ~output[1].ok /\ Taken(output[1].path, "none", {}, <<>>)
                               /\ reported' = reported \cup {output[1].path}
             \/ /\ output[1].ok /\ reported' \subseteq reported \cup {output[1].path}
                /\ \E visit : visit = Visit(output[1].path)
                       /\ Taken(output[1].path, visit.offered, visit.recorded, visit.queued)
      BY <1>6, TakeResultDoes
    <3>2. CASE /\ ~output[1].ok /\ Taken(output[1].path, "none", {}, <<>>)
               /\ reported' = reported \cup {output[1].path}
      <4>1. {} \subseteq ScanPaths /\ <<>> \in Seq(ScanDirs)
        OBVIOUS
      <4>2. PICK p : p = output[1].path
        OBVIOUS
      <4>3. Taken(p, "none", {}, <<>>)
        BY <3>2, <4>2
      <4>4. TakenTyped(p)
        BY ONLY <4>1, <4>3, TakenIsTyped
      <4> QED BY <3>1, <3>2, <4>2, <4>4
    <3>3. CASE /\ output[1].ok /\ reported' \subseteq reported \cup {output[1].path}
               /\ \E visit : visit = Visit(output[1].path)
                       /\ Taken(output[1].path, visit.offered, visit.recorded, visit.queued)
      <4>1. PICK p : p = output[1].path
        OBVIOUS
      <4>2. Taken(p, Visit(p).offered, Visit(p).recorded, Visit(p).queued) /\ p \in ScanPaths
        BY <3>1, <3>3, <4>1
      <4>3. Visit(p).recorded \subseteq ScanPaths /\ Visit(p).queued \in Seq(ScanDirs)
        <5>1. <<>> \in Seq(ScanDirs) /\ \A d \in ScanDirs : <<d>> \in Seq(ScanDirs)
          OBVIOUS
        <5>2. ScanDirs \subseteq ScanPaths
          BY DEF ScanPaths
        <5>3. p \in ScanLinks /\ LinkTo[p] \in ScanDirs => {LinkTo[p], p} \subseteq ScanPaths
          BY <4>2, <5>2
        <5>4. \/ Visit(p).recorded = {} /\ Visit(p).queued = <<>>
              \/ Visit(p).recorded = {p} /\ Visit(p).queued = <<>>
              \/ /\ p \in ScanLinks /\ LinkTo[p] \in ScanDirs
                 /\ Visit(p).recorded = {LinkTo[p], p} /\ Visit(p).queued = <<LinkTo[p]>>
          BY <4>2, VisitIs DEF IsVisit
        <5> QED BY <4>2, <5>1, <5>3, <5>4
      <4>4. TakenTyped(p)
        <5>1. PICK o, r, q : o = Visit(p).offered /\ r = Visit(p).recorded /\ q = Visit(p).queued
          OBVIOUS
        <5>2. r \in SUBSET ScanPaths /\ q \in Seq(ScanDirs) /\ Taken(p, o, r, q)
          BY <4>2, <4>3, <5>1
        <5> QED BY ONLY <5>2, TakenIsTyped
      <4> QED BY <3>1, <3>3, <4>1, <4>4
    <3> QED BY <3>1, <3>2, <3>3
  <2>2. PICK recorded, queued :
              /\ \E offered : Taken(output[1].path, offered, recorded, queued)
              /\ recorded \subseteq ScanPaths /\ queued \in Seq(ScanDirs)
    BY <2>1 DEF TakenTyped
  <2>3. /\ seenPaths' \subseteq seenPaths \cup recorded
        /\ walkQueue' = walkQueue \/ walkQueue' = walkQueue \o queued
        /\ main' \in {"walking", "next"} /\ stopped' \in BOOLEAN /\ cancelled' \in BOOLEAN
        /\ faults' \in Nat
    <3>1. PICK offered : Taken(output[1].path, offered, recorded, queued)
      BY <2>2
    <3>2. /\ seenPaths' \subseteq seenPaths \cup recorded
          /\ walkQueue' = walkQueue \/ walkQueue' = walkQueue \o queued
      BY <3>1 DEF Taken
    <3>3. \/ UNCHANGED <<main, stopped, cancelled, faults>>
          \/ main' = "next" /\ stopped' = TRUE /\ cancelled' = TRUE /\ faults' \in Nat
      BY <1>6, <3>1 DEF Taken, TakeResult
    <3> QED BY <2>1, <3>2, <3>3 DEF ScanTypes
  <2>4. walkQueue' \in Seq(ScanDirs)
    <3>1. walkQueue \in Seq(ScanDirs)
      BY DEF ScanTypes
    <3>2. walkQueue \o queued \in Seq(ScanDirs)
      BY <2>2, <3>1
    <3> QED BY <2>3, <3>1, <3>2
  <2>5. /\ output' \in Seq([path : ScanPaths, ok : BOOLEAN]) /\ Len(output') <= OutputRoom
        /\ \A i \in 1 .. Len(output') : output'[i] = output[i + 1] /\ i + 1 \in 1 .. Len(output)
    <3>1. output \in Seq([path : ScanPaths, ok : BOOLEAN]) /\ output # <<>> /\ Len(output) <= OutputRoom
      BY <2>1 DEF ScanTypes
    <3>2. /\ output' \in Seq([path : ScanPaths, ok : BOOLEAN]) /\ Len(output') = Len(output) - 1
          /\ Len(output) \in Nat
          /\ \A i \in 1 .. Len(output') : output'[i] = output[i + 1] /\ i + 1 \in 1 .. Len(output)
      BY <2>1, <3>1, HeadAndTail
    <3> QED BY <3>1, <3>2, ScanAssumption
  <2>6. EntryInv'
    BY <2>5 DEF EntryInv
  <2>7. WorkerInv'
    BY <2>1 DEF WorkerInv, Busy, TakenFrame
  <2>8. HashTypes'
    BY <2>1 DEF HashTypes, TakenFrame, HeldTyped
  <2>9. ScanTypes'
    BY <2>1, <2>2, <2>3, <2>4, <2>5 DEF ScanTypes, TakenFrame, scanOptions, HeldTyped
  <2> QED BY <2>6, <2>7, <2>8, <2>9
<1>7. CASE EndWalk \/ EndWalks \/ EndFlatListing \/ Finalize
  <2>1. /\ EndFrame /\ HashTypes'
        /\ main' \in {"next", "finalizing", "done"} /\ result' \in {"none", "ok", "error"}
    <3>1. /\ EndFrame /\ HashTypes'
          /\ main' \in {"next", "finalizing", "done"} /\ result' \in {result, "none", "error", "ok"}
      BY <1>7, EndsDo
    <3> QED BY <3>1 DEF ScanTypes
  <2>2. ScanTypes'
    BY <2>1 DEF ScanTypes, EndFrame, scanOptions, crawlVars, outcomeVars
  <2>3. WorkerInv' /\ EntryInv'
    BY <2>1 DEF WorkerInv, Busy, EntryInv, EndFrame, crawlVars
  <2> QED BY <2>1, <2>2, <2>3
<1>8. CASE \E p \in toList : ListEntry(p)
  <2>1. PICK p \in toList : ListEntry(p)
    BY <1>8
  <2>2. /\ main = "flat" /\ ListFrame /\ HeldTyped'
        /\ toList' = toList \ {p} /\ entityType' \in {"file", "symlink"}
        /\ main' \in {main, "finalizing"} /\ hashClosed' \in {hashClosed, TRUE}
        /\ immediateStopHashing' \in {immediateStopHashing, TRUE}
        /\ result' \in {result, "error"} /\ (faults' = faults \/ faults' \in Nat)
    BY <2>1, ListEntryDoes
  <2>3. ScanTypes'
    BY <2>2 DEF ScanTypes, ListFrame, scanOptions, crawlVars, HeldTyped
  <2>4. HashTypes'
    BY <2>2 DEF HashTypes, ListFrame, HeldTyped
  <2>5. WorkerInv' /\ EntryInv'
    BY <2>2 DEF WorkerInv, Busy, EntryInv, ListFrame, crawlVars
  <2> QED BY <2>3, <2>4, <2>5
<1>9. CASE Defer
  <2>1. HashFrame /\ HashTypes' /\ UNCHANGED <<processed, again, faults>>
    BY <1>9, DeferDoes
  <2> QED BY <2>1, HashKeepsTypes DEF ScanTypes
<1>10. CASE \E t \in Threads : TakeFile(t)
  <2>1. PICK t \in Threads : TakeFile(t)
    BY <1>10
  <2>2. HashFrame /\ HashTypes' /\ UNCHANGED <<processed, again, faults>>
    BY <2>1, TakeFileDoes
  <2> QED BY <2>2, HashKeepsTypes DEF ScanTypes
<1>11. CASE \E t \in Threads : HashFile(t)
  <2>1. PICK t \in Threads : HashFile(t)
    BY <1>11
  <2>2. /\ HashFrame /\ HashTypes' /\ again' \subseteq ScanPaths /\ faults' \in Nat
        /\ processed' \subseteq ScanPaths \X {"file", "folder", "symlink"}
    BY <2>1, HashFileDoes
  <2> QED BY <2>2, HashKeepsTypes
<1> QED BY <1>1, <1>2, <1>3, <1>4, <1>5, <1>6, <1>7, <1>8, <1>9, <1>10, <1>11, StepCases

(* What TakeDirectory does of a worker. *)
LEMMA TakeDirectoryDoes ==
    ASSUME ScanTypes, WorkerInv, NEW w \in Workers, TakeDirectory(w)
    PROVE  /\ CrawlFrame /\ UNCHANGED <<output, panicked, unlisted, faults>>
           /\ worker[w].at = "idle" /\ Moved(w)
           /\ worker'[w].remaining = {} /\ worker'[w].found = {}
           /\ \/ \E d \in unstartedDirs :
                   /\ worker'[w].at = "reading" /\ worker'[w].dir = d
                   /\ unstartedDirs' = unstartedDirs \ {d}
                   /\ dirInProgressCount' = dirInProgressCount + 1
              \/ /\ worker'[w].at = "gone" /\ UNCHANGED <<unstartedDirs, dirInProgressCount>>
                 /\ cancelled \/ (unstartedDirs = {} /\ dirInProgressCount = 0)
<1>1. /\ CrawlFrame /\ UNCHANGED <<output, panicked, unlisted, faults>> /\ worker[w].at = "idle"
  BY DEF TakeDirectory, CrawlFrame, outcomeVars, ScanTypes
<1>2. ASSUME NEW d \in unstartedDirs,
             worker' = [worker EXCEPT ![w] = [@ EXCEPT !.at = "reading", !.dir = d]]
      PROVE  /\ Moved(w) /\ worker'[w].at = "reading" /\ worker'[w].dir = d
             /\ worker'[w].remaining = {} /\ worker'[w].found = {}
  <2> DEFINE state == [worker[w] EXCEPT !.at = "reading", !.dir = d]
  <2>1. /\ d \in ScanDirs /\ worker[w] \in WorkerStates /\ worker[w].remaining = {}
        /\ worker[w].found = {}
    BY <1>1 DEF ScanTypes, WorkerInv
  <2>2. /\ state \in WorkerStates /\ state.at = "reading" /\ state.dir = d
        /\ state.remaining = {} /\ state.found = {}
    BY <2>1 DEF WorkerStates
  <2>3. worker' = [worker EXCEPT ![w] = state]
    BY <1>2
  <2> HIDE DEF state
  <2>4. Moved(w) /\ worker'[w] = state
    BY <2>2, <2>3, RemainingSet
  <2> QED BY <2>2, <2>4
<1>3. ASSUME worker' = [worker EXCEPT ![w] = Resting]
      PROVE  /\ Moved(w) /\ worker'[w].at = "gone"
             /\ worker'[w].remaining = {} /\ worker'[w].found = {}
  <2>1. /\ Resting \in WorkerStates /\ Resting.at = "gone"
        /\ Resting.remaining = {} /\ Resting.found = {}
    BY DEF Resting, WorkerStates
  <2>2. Moved(w) /\ worker'[w] = Resting
    BY <1>3, <2>1, RemainingSet
  <2> QED BY <2>1, <2>2
<1>4. CASE \E d \in unstartedDirs :
             /\ worker' = [worker EXCEPT ![w] = [@ EXCEPT !.at = "reading", !.dir = d]]
             /\ unstartedDirs' = unstartedDirs \ {d}
             /\ dirInProgressCount' = dirInProgressCount + 1
  <2>1. PICK d \in unstartedDirs :
             /\ worker' = [worker EXCEPT ![w] = [@ EXCEPT !.at = "reading", !.dir = d]]
             /\ unstartedDirs' = unstartedDirs \ {d}
             /\ dirInProgressCount' = dirInProgressCount + 1
    BY <1>4
  <2>2. /\ Moved(w) /\ worker'[w].at = "reading" /\ worker'[w].dir = d
        /\ worker'[w].remaining = {} /\ worker'[w].found = {}
    BY <1>2, <2>1
  <2> QED BY <1>1, <2>1, <2>2
<1>5. CASE /\ cancelled \/ (unstartedDirs = {} /\ dirInProgressCount = 0)
           /\ worker' = [worker EXCEPT ![w] = Resting]
           /\ UNCHANGED <<unstartedDirs, dirInProgressCount>>
  BY <1>1, <1>3, <1>5
<1> QED BY <1>4, <1>5 DEF TakeDirectory

(* A step of a crawl worker ...                                            *)
CrawlStep ==
    \E w \in Workers :
       TakeDirectory(w) \/ ReadDirectory(w) \/ FinishDirectory(w)
       \/ \E p \in worker[w].remaining : PutEntry(w, p)

(* A crawl worker leaves everything else alone. *)
LEMMA CrawlStepDoes ==
    ASSUME ScanTypes, WorkerInv, CrawlStep
    PROVE  CrawlFrame /\ ~Quiet /\ (\A q \in ScanPaths : Held(q)' <=> Held(q)) /\ (OneInv => OneInv')
<1>1. PICK w \in Workers :
       TakeDirectory(w) \/ ReadDirectory(w) \/ FinishDirectory(w)
       \/ \E p \in worker[w].remaining : PutEntry(w, p)
  BY DEF CrawlStep
<1>2. CrawlFrame /\ worker[w].at # "gone"
  <2>1. CASE TakeDirectory(w)
    BY <2>1, TakeDirectoryDoes
  <2>2. CASE ReadDirectory(w)
    BY <2>2, ReadDirectoryDoes
  <2>3. CASE FinishDirectory(w)
    BY <2>3, FinishDirectoryDoes
  <2>4. CASE \E p \in worker[w].remaining : PutEntry(w, p)
    BY <2>4, PutEntryDoes
  <2> QED BY <1>1, <2>1, <2>2, <2>3, <2>4
<1>3. (\A q \in ScanPaths : Held(q)' <=> Held(q)) /\ (OneInv => OneInv')
  BY <1>2, NothingHeldMore DEF CrawlFrame, hashVars, scanOptions
<1> QED BY <1>2, <1>3 DEF Quiet

(* ... of the hashing ...                                                  *)
HashStep == Defer \/ \E t \in Threads : TakeFile(t) \/ HashFile(t)

(* The hashing leaves the walk alone, and loses nothing without an error.  *)
LEMMA HashStepDoes ==
    ASSUME ScanTypes, HashTypes, PhaseInv, HashStep
    PROVE  /\ HashFrame /\ PassedOn /\ hashing
           /\ toHash' \in {toHash, Nowhere}
           /\ main \in {"next", "finalizing", "done"} => toHash' = toHash
           /\ hashErrors' = 0 /\ hashErrors \in Nat /\ ~immediateStopHashing =>
                 hashErrors = 0 /\ \A q \in ScanPaths : Held(q) <=> Held(q)'
<1>1. CASE Defer
  <2>1. /\ HashFrame /\ PassedOn /\ hashing /\ toHash' = Nowhere /\ toHash # Nowhere
        /\ \A q \in ScanPaths : Held(q) => Held(q)'
        /\ UNCHANGED hashErrors
    BY <1>1, DeferDoes
  <2> QED BY <2>1 DEF PhaseInv, PassedOn
<1>2. CASE \E t \in Threads : TakeFile(t)
  <2>1. PICK t \in Threads : TakeFile(t)
    BY <1>2
  <2>2. /\ HashFrame /\ PassedOn /\ thread[t].at = "idle" /\ UNCHANGED <<toHash, hashErrors>>
        /\ ~immediateStopHashing => \A q \in ScanPaths : Held(q) => Held(q)'
    BY <2>1, TakeFileDoes
  <2> QED BY <2>2 DEF PhaseInv, PassedOn, ScanTypes
<1>3. CASE \E t \in Threads : HashFile(t)
  <2>1. PICK t \in Threads : HashFile(t)
    BY <1>3
  <2>2. /\ HashFrame /\ PassedOn /\ thread[t].at = "hashing" /\ UNCHANGED toHash
        /\ \/ hashErrors' = hashErrors /\ \A q \in ScanPaths : Held(q) => Held(q)'
           \/ hashErrors' = hashErrors + 1
    BY <2>1, HashFileDoes
  <2>3. hashErrors' = 0 /\ hashErrors \in Nat => hashErrors' # hashErrors + 1
    OBVIOUS
  <2> QED BY <2>2, <2>3 DEF PhaseInv, PassedOn, ScanTypes
<1> QED BY <1>1, <1>2, <1>3 DEF HashStep

(* ... or another one. *)
LEMMA StepKinds ==
    ASSUME LSNext
    PROVE  \/ CrawlStep \/ HashStep \/ StartWalk \/ TakeResult
           \/ EndWalk \/ EndWalks \/ EndFlatListing \/ Finalize
           \/ \E p \in toList : ListEntry(p)
BY StepCases DEF CrawlStep, HashStep

(* What TakeResult does of the walk. *)
LEMMA TakenIs ==
    ASSUME ScanTypes, HashTypes, PhaseInv, TakeResult
    PROVE  /\ TakenFrame /\ HeldTyped' /\ main = "walking" /\ toHash = Nowhere
           /\ \/ UNCHANGED <<main, stopped, cancelled>>
              \/ main' = "next" /\ stopped' /\ cancelled' /\ UNCHANGED toHash
<1>1. PICK offered, recorded, queued : Taken(output[1].path, offered, recorded, queued)
  BY TakeResultDoes
<1>2. TakenFrame /\ HeldTyped' /\ main = "walking" /\ toHash = Nowhere
  BY TakeResultDoes
<1> QED BY <1>1, <1>2 DEF Taken

(* Every step keeps what the phases leave behind. *)
LEMMA PhaseStep ==
    ASSUME ScanTypes, HashTypes, WorkerInv, PhaseInv, LastWorkerInv, LSNext,
           ScanTypes', HashTypes'
    PROVE  PhaseInv'
<1>0. main \in {"next", "walking", "flat", "finalizing", "done"}
  BY DEF ScanTypes
<1>1. CASE CrawlStep
  <2>1. CrawlFrame /\ ~Quiet
    BY <1>1, CrawlStepDoes
  <2> QED BY <2>1 DEF PhaseInv, CrawlFrame, scanOptions, walkVars, hashVars
<1>2. CASE HashStep
  <2>1. HashFrame /\ hashing /\ toHash' \in {toHash, Nowhere}
    BY <1>2, HashStepDoes
  <2>2. Quiet' <=> Quiet
    BY <2>1 DEF Quiet, HashFrame, crawlVars
  <2> QED BY <2>1, <2>2 DEF PhaseInv, HashFrame, scanOptions, walkVars, crawlVars
<1>3. CASE StartWalk
  <2>1. /\ main = "next" /\ StartFrame /\ output' = <<>> /\ ~cancelled'
        /\ main' = "walking" \/ (main' = "next" /\ stopped')
    BY <1>3, StartWalkDoes
  <2>2. main' = "walking" => UNCHANGED stopped
    BY <1>3, StartWalkDoes, <2>1
  <2> QED BY <2>1, <2>2 DEF PhaseInv, StartFrame, scanOptions
<1>4. CASE TakeResult
  <2>1. /\ TakenFrame /\ HeldTyped' /\ main = "walking"
        /\ \/ UNCHANGED <<main, stopped, cancelled>>
           \/ main' = "next" /\ stopped' /\ cancelled' /\ UNCHANGED toHash
    BY <1>4, TakenIs
  <2>2. toHash = Nowhere
    BY <1>4, TakenIs
  <2> QED BY <2>1, <2>2 DEF PhaseInv, TakenFrame, HeldTyped, scanOptions
<1>5. CASE EndWalk \/ EndWalks \/ EndFlatListing \/ Finalize
  <2>1. EndFrame /\ toHash = Nowhere
    BY <1>5, EndsDo
  <2>2. Quiet' <=> Quiet
    BY <2>1 DEF Quiet, EndFrame, crawlVars
  <2>3. CASE main = "walking" /\ main' = "next" /\ output = <<>> /\ Quiet /\ UNCHANGED hashClosed
    <3>1. unstartedDirs = {}
      BY <2>3, ScanAssumption DEF LastWorkerInv, Quiet, Workers
    <3> QED BY <2>1, <2>2, <2>3, <3>1 DEF PhaseInv, EndFrame, scanOptions, crawlVars
  <2>4. CASE main = "next" /\ walkQueue = <<>> /\ main' = "finalizing" /\ hashClosed' = TRUE
    BY <2>1, <2>2, <2>4 DEF PhaseInv, EndFrame, scanOptions, crawlVars
  <2>5. CASE main = "flat" /\ main' = "finalizing" /\ hashClosed' = TRUE
    BY <2>1, <2>2, <2>5 DEF PhaseInv, EndFrame, scanOptions, crawlVars
  <2>6. CASE main = "finalizing" /\ main' = "done" /\ UNCHANGED hashClosed
    BY <2>1, <2>2, <2>6 DEF PhaseInv, EndFrame, scanOptions, crawlVars
  <2> QED BY <1>5, <2>3, <2>4, <2>5, <2>6, EndsDo
<1>6. CASE \E p \in toList : ListEntry(p)
  <2>1. PICK p \in toList : ListEntry(p)
    BY <1>6
  <2>2. /\ main = "flat" /\ ListFrame /\ HeldTyped'
        /\ \/ UNCHANGED <<main, hashClosed>>
           \/ main' = "finalizing" /\ hashClosed' = TRUE /\ toHash' = Nowhere
    BY <2>1, ListEntryDoes
  <2>3. Quiet' <=> Quiet
    BY <2>2 DEF Quiet, ListFrame, crawlVars
  <2> QED BY <2>2, <2>3 DEF PhaseInv, ListFrame, HeldTyped, scanOptions, crawlVars
<1> QED BY <1>1, <1>2, <1>3, <1>4, <1>5, <1>6, StepKinds

(* Every step keeps worker 0 at work while there is some. *)
LEMMA LastWorkerStep ==
    ASSUME ScanTypes, HashTypes, CountInv, WorkerInv, PhaseInv, LastWorkerInv, LSNext
    PROVE  LastWorkerInv'
<1>0. 0 \in Workers
  BY ScanAssumption DEF Workers
<1> SUFFICES ASSUME main' = "walking", worker'[0].at = "gone"
             PROVE  unstartedDirs' = {} /\ Busy' = {}
  BY DEF LastWorkerInv
<1>1. CASE \E w \in Workers : TakeDirectory(w)
  <2>1. PICK w \in Workers : TakeDirectory(w)
    BY <1>1
  <2>2. /\ CrawlFrame /\ worker[w].at = "idle" /\ Moved(w)
        /\ \/ \E d \in unstartedDirs : worker'[w].at = "reading"
           \/ /\ worker'[w].at = "gone" /\ UNCHANGED unstartedDirs
              /\ cancelled \/ (unstartedDirs = {} /\ dirInProgressCount = 0)
    BY <2>1, TakeDirectoryDoes
  <2>3. main = "walking" /\ ~cancelled
    BY <2>2 DEF CrawlFrame, walkVars, PhaseInv
  <2>4. unstartedDirs = {} /\ Busy = {}
    <3>1. CASE w = 0
      <4>1. unstartedDirs = {} /\ Cardinality(Busy) = 0
        BY <2>2, <2>3, <3>1 DEF CountInv
      <4>2. IsFiniteSet(Busy)
        <5>1. IsFiniteSet(Workers)
          BY FS_Interval, ScanAssumption DEF Workers
        <5> QED BY <5>1, FS_Subset DEF Busy
      <4> QED BY <4>1, <4>2, FS_EmptySet
    <3>2. CASE w # 0
      <4>1. worker[0].at = "gone"
        BY <1>0, <2>2, <3>2 DEF Moved
      <4> QED BY <2>3, <4>1 DEF LastWorkerInv
    <3> QED BY <3>1, <3>2
  <2>5. worker'[w].at = "gone" /\ UNCHANGED unstartedDirs
    BY <2>2, <2>4
  <2> QED BY <2>2, <2>4, <2>5 DEF Busy, Moved
<1>2. ASSUME NEW w \in Workers, CrawlFrame, Moved(w), w \in Busy, worker'[w].at # "gone" \/ w # 0
      PROVE  FALSE
  <2>1. main = "walking"
    BY <1>2 DEF CrawlFrame, walkVars
  <2>2. w # 0
    BY <1>2
  <2>3. worker[0].at = "gone"
    BY <1>0, <1>2, <2>2 DEF Moved
  <2> QED BY <1>2, <2>1, <2>3 DEF LastWorkerInv
<1>3. CASE \E w \in Workers : ReadDirectory(w)
  <2>1. PICK w \in Workers : ReadDirectory(w)
    BY <1>3
  <2>2. CrawlFrame /\ Moved(w) /\ worker[w].at = "reading" /\ worker'[w].at # "gone"
    BY <2>1, ReadDirectoryDoes
  <2> QED BY <1>2, <2>2 DEF Busy
<1>4. CASE \E w \in Workers : \E p \in worker[w].remaining : PutEntry(w, p)
  <2>1. PICK w \in Workers : \E p \in worker[w].remaining : PutEntry(w, p)
    BY <1>4
  <2>2. CrawlFrame /\ Moved(w) /\ worker[w].at = "listing" /\ worker'[w].at = "listing"
    BY <2>1, PutEntryDoes
  <2> QED BY <1>2, <2>2 DEF Busy
<1>5. CASE \E w \in Workers : FinishDirectory(w)
  <2>1. PICK w \in Workers : FinishDirectory(w)
    BY <1>5
  <2>2. /\ CrawlFrame /\ Moved(w) /\ worker[w].at = "listing"
        /\ worker'[w].at \in {"idle", "gone"} /\ (w = 0 => worker'[w].at = "idle")
    BY <2>1, FinishDirectoryDoes
  <2> QED BY <1>2, <2>2 DEF Busy
<1>6. CASE StartWalk
  <2>1. worker' = [w \in Workers |-> Waiting]
    BY <1>6, StartWalkDoes
  <2> QED BY <1>0, <2>1 DEF Waiting, Resting
<1>7. CASE TakeResult
  <2>1. TakenFrame /\ main = "walking"
    BY <1>7, TakenIs
  <2> QED BY <2>1 DEF LastWorkerInv, TakenFrame, Busy
<1>8. CASE EndWalk \/ EndWalks \/ EndFlatListing \/ Finalize
  BY <1>8, EndsDo
<1>9. CASE \E p \in toList : ListEntry(p)
  BY <1>9, ListEntryDoes
<1>10. CASE HashStep
  <2>1. HashFrame
    BY <1>10, HashStepDoes
  <2> QED BY <2>1 DEF LastWorkerInv, HashFrame, walkVars, crawlVars, Busy
<1> QED BY <1>1, <1>3, <1>4, <1>5, <1>6, <1>7, <1>8, <1>9, <1>10, StepCases DEF HashStep

(* One more of some workers or threads, or one less. *)
LEMMA Counted ==
    ASSUME NEW S, IsFiniteSet(S), NEW A \in SUBSET S, NEW x \in S
    PROVE  /\ Cardinality(A) \in Nat /\ IsFiniteSet(A)
           /\ x \notin A => Cardinality(A \cup {x}) = Cardinality(A) + 1
           /\ x \in A => Cardinality(A \ {x}) = Cardinality(A) - 1
<1>1. IsFiniteSet(A)
  BY FS_Subset
<1> QED BY <1>1, FS_CardinalityType, FS_AddElement, FS_RemoveElement

(* The hashing threads that have ended. *)
EndedThreads == {t \in Threads : thread[t].at = "gone"}

(* Every step keeps the counts. *)
LEMMA CountStep ==
    ASSUME ScanTypes, HashTypes, CountInv, WorkerInv, PhaseInv, LSNext, HashTypes'
    PROVE  CountInv'
<1>1. IsFiniteSet(Workers) /\ IsFiniteSet(Threads)
  BY FS_Interval, ScanAssumption DEF Workers, Threads
<1>2. /\ dirInProgressCount = Cardinality(Busy) /\ hashErrors \in Nat
      /\ hashErrors <= Cardinality(EndedThreads)
  BY DEF CountInv, EndedThreads
<1>3. /\ Busy \in SUBSET Workers /\ Busy' \in SUBSET Workers
      /\ EndedThreads \in SUBSET Threads /\ EndedThreads' \in SUBSET Threads
  BY DEF Busy, EndedThreads
<1> SUFFICES /\ dirInProgressCount' = Cardinality(Busy')
             /\ hashErrors' \in Nat /\ hashErrors' <= Cardinality(EndedThreads')
  BY DEF CountInv, EndedThreads
<1>4. ASSUME UNCHANGED <<thread, hashErrors>>
      PROVE  hashErrors' \in Nat /\ hashErrors' <= Cardinality(EndedThreads')
  BY <1>2, <1>4 DEF EndedThreads
<1>5. ASSUME UNCHANGED <<worker, dirInProgressCount>>
      PROVE  dirInProgressCount' = Cardinality(Busy')
  BY <1>2, <1>5 DEF Busy
<1>6. CASE CrawlStep
  <2>1. UNCHANGED <<thread, hashErrors>>
    BY <1>6, CrawlStepDoes DEF CrawlFrame, hashVars
  <2>2. PICK w \in Workers :
           TakeDirectory(w) \/ ReadDirectory(w) \/ FinishDirectory(w)
           \/ \E p \in worker[w].remaining : PutEntry(w, p)
    BY <1>6 DEF CrawlStep
  <2>3. \/ Busy' = Busy /\ UNCHANGED dirInProgressCount
        \/ w \notin Busy /\ Busy' = Busy \cup {w} /\ dirInProgressCount' = dirInProgressCount + 1
        \/ w \in Busy /\ Busy' = Busy \ {w} /\ dirInProgressCount' = dirInProgressCount - 1
    <3>1. CASE TakeDirectory(w)
      <4>1. /\ worker[w].at = "idle" /\ Moved(w)
            /\ \/ worker'[w].at = "reading" /\ dirInProgressCount' = dirInProgressCount + 1
               \/ worker'[w].at = "gone" /\ UNCHANGED dirInProgressCount
        BY <3>1, TakeDirectoryDoes
      <4> QED BY <4>1 DEF Moved, Busy
    <3>2. CASE ReadDirectory(w)
      <4>1. /\ worker[w].at = "reading" /\ Moved(w) /\ UNCHANGED dirInProgressCount
            /\ worker'[w].at = "listing" \/ UNCHANGED worker
        BY <3>2, ReadDirectoryDoes
      <4> QED BY <4>1 DEF Moved, Busy
    <3>3. CASE FinishDirectory(w)
      <4>1. /\ worker[w].at = "listing" /\ Moved(w) /\ dirInProgressCount' = dirInProgressCount - 1
            /\ worker'[w].at \in {"idle", "gone"}
        BY <3>3, FinishDirectoryDoes
      <4> QED BY <4>1 DEF Moved, Busy
    <3>4. CASE \E p \in worker[w].remaining : PutEntry(w, p)
      <4>1. /\ worker[w].at = "listing" /\ Moved(w) /\ UNCHANGED dirInProgressCount
            /\ worker'[w].at = "listing"
        BY <3>4, PutEntryDoes
      <4> QED BY <4>1 DEF Moved, Busy
    <3> QED BY <2>2, <3>1, <3>2, <3>3, <3>4
  <2>4. dirInProgressCount' = Cardinality(Busy')
    BY <1>1, <1>2, <1>3, <2>3, Counted
  <2> QED BY <1>4, <2>1, <2>4
<1>7. CASE HashStep
  <2>1. UNCHANGED <<worker, dirInProgressCount>>
    BY <1>7, HashStepDoes DEF HashFrame, crawlVars
  <2>2. hashErrors' \in Nat /\ hashErrors' <= Cardinality(EndedThreads')
    <3>1. CASE Defer
      BY <1>4, <3>1, DeferDoes
    <3>2. ASSUME NEW t \in Threads, thread[t].at # "gone",
                 \A u \in Threads \ {t} : thread'[u] = thread[u]
          PROVE  /\ thread'[t].at = "gone" =>
                      Cardinality(EndedThreads') = Cardinality(EndedThreads) + 1
                 /\ thread'[t].at # "gone" => EndedThreads' = EndedThreads
                 /\ Cardinality(EndedThreads) \in Nat
      <4>1. thread'[t].at = "gone" => t \notin EndedThreads /\ EndedThreads' = EndedThreads \cup {t}
        BY <3>2 DEF EndedThreads
      <4>2. thread'[t].at # "gone" => EndedThreads' = EndedThreads
        BY <3>2 DEF EndedThreads
      <4>3. Cardinality(EndedThreads) \in Nat
        BY <1>1, <1>3, <3>2, Counted
      <4>4. t \notin EndedThreads =>
              Cardinality(EndedThreads \cup {t}) = Cardinality(EndedThreads) + 1
        BY <1>1, <1>3, Counted
      <4> QED BY <4>1, <4>2, <4>3, <4>4
    <3>3. CASE \E t \in Threads : TakeFile(t)
      <4>1. PICK t \in Threads : TakeFile(t)
        BY <3>3
      <4>2. /\ thread[t].at = "idle" /\ \A u \in Threads \ {t} : thread'[u] = thread[u]
            /\ UNCHANGED hashErrors
        BY <4>1, TakeFileDoes
      <4> QED BY <1>2, <3>2, <4>2
    <3>4. CASE \E t \in Threads : HashFile(t)
      <4>1. PICK t \in Threads : HashFile(t)
        BY <3>4
      <4>2. /\ thread[t].at = "hashing" /\ \A u \in Threads \ {t} : thread'[u] = thread[u]
            /\ \/ thread'[t].at = "idle" /\ hashErrors' = hashErrors
               \/ thread'[t].at = "gone" /\ hashErrors' = hashErrors + 1
        BY <4>1, HashFileDoes
      <4> QED BY <1>2, <3>2, <4>2
    <3> QED BY <1>7, <3>1, <3>3, <3>4 DEF HashStep
  <2> QED BY <1>5, <2>1, <2>2
<1>8. CASE StartWalk
  <2>1. /\ StartFrame /\ Quiet
        /\ worker' = [w \in Workers |-> Waiting] \/ UNCHANGED worker
    BY <1>8, StartWalkDoes
  <2>2. Busy = {} /\ Busy' = {}
    BY <2>1 DEF Quiet, Busy, Waiting, Resting
  <2> QED BY <1>2, <1>4, <2>1, <2>2 DEF StartFrame
<1>9. CASE TakeResult
  BY <1>4, <1>5, <1>9, TakenIs DEF TakenFrame
<1>10. CASE EndWalk \/ EndWalks \/ EndFlatListing \/ Finalize
  BY <1>4, <1>5, <1>10, EndsDo DEF EndFrame, crawlVars
<1>11. CASE \E p \in toList : ListEntry(p)
  BY <1>4, <1>5, <1>11, ListEntryDoes DEF ListFrame, crawlVars
<1> QED BY <1>6, <1>7, <1>8, <1>9, <1>10, <1>11, StepKinds

(* Every step keeps what Traverse returns. *)
LEMMA ErrorStep ==
    ASSUME ScanTypes, HashTypes, CountInv, WorkerInv, PhaseInv, ErrorInv, LSNext
    PROVE  ErrorInv'
<1>1. CASE CrawlStep
  <2>1. CrawlFrame
    BY <1>1, CrawlStepDoes
  <2> QED BY <2>1 DEF ErrorInv, CrawlFrame, scanOptions, walkVars, hashVars
<1>2. CASE Defer
  <2>1. /\ HashFrame /\ toHash # Nowhere /\ UNCHANGED <<thread, hashErrors>>
    BY <1>2, DeferDoes
  <2>2. ~hashClosed
    BY <2>1 DEF PhaseInv
  <2> QED BY <2>1, <2>2 DEF ErrorInv, HashFrame, scanOptions, walkVars
<1>3. CASE \E t \in Threads : TakeFile(t)
  <2>1. PICK t \in Threads : TakeFile(t)
    BY <1>3
  <2>2. /\ HashFrame /\ thread[t].at = "idle" /\ UNCHANGED hashErrors
        /\ \A u \in Threads \ {t} : thread'[u] = thread[u]
        /\ thread'[t].at = "gone" =>
             immediateStopHashing \/ (hashClosed /\ hashTargetChannel' = <<>>)
        /\ hashTargetChannel = <<>> => hashTargetChannel' = <<>>
    BY <2>1, TakeFileDoes
  <2> QED BY <2>2 DEF ErrorInv, HashFrame, scanOptions, walkVars
<1>4. CASE \E t \in Threads : HashFile(t)
  <2>1. PICK t \in Threads : HashFile(t)
    BY <1>4
  <2>2. /\ HashFrame /\ thread[t].at = "hashing" /\ UNCHANGED hashTargetChannel
        /\ \A u \in Threads \ {t} : thread'[u] = thread[u]
        /\ \/ thread'[t].at = "idle" /\ hashErrors' = hashErrors
           \/ thread'[t].at = "gone" /\ hashErrors' = hashErrors + 1
    BY <2>1, HashFileDoes
  <2>3. main # "done"
    BY <2>2 DEF ErrorInv
  <2>4. hashErrors + 1 # 0
    BY DEF CountInv
  <2> QED BY <2>2, <2>3, <2>4 DEF ErrorInv, HashFrame, scanOptions, walkVars
<1>5. CASE StartWalk
  <2>1. main = "next" /\ StartFrame /\ main' \in {"next", "walking"}
    BY <1>5, StartWalkDoes
  <2> QED BY <2>1 DEF ErrorInv, StartFrame, scanOptions
<1>6. CASE TakeResult
  <2>1. TakenFrame /\ main = "walking" /\ main' \in {"walking", "next"}
    BY <1>6, TakenIs
  <2> QED BY <2>1 DEF ErrorInv, TakenFrame, scanOptions
<1>7. CASE EndWalk \/ EndWalks \/ EndFlatListing \/ Finalize
  <2>1. EndFrame
    BY <1>7, EndsDo
  <2>2. CASE main = "walking" /\ main' = "next" /\ UNCHANGED <<hashClosed, immediateStopHashing, result>>
    BY <2>1, <2>2 DEF ErrorInv, EndFrame, scanOptions
  <2>3. CASE main = "next" /\ main' = "finalizing" /\ hashClosed' = TRUE
             /\ UNCHANGED <<immediateStopHashing, result>>
    <3>1. recursive /\ ~hashClosed
      BY <2>3 DEF PhaseInv
    <3> QED BY <2>1, <2>3, <3>1 DEF ErrorInv, EndFrame, scanOptions
  <2>4. CASE main = "flat" /\ toList = {} /\ main' = "finalizing" /\ hashClosed' = TRUE
             /\ immediateStopHashing' = FALSE /\ result' = "none"
    <3>1. ~hashClosed /\ ~immediateStopHashing
      BY <2>4 DEF PhaseInv, ErrorInv
    <3> QED BY <2>1, <2>4, <3>1 DEF ErrorInv, EndFrame, scanOptions
  <2>5. CASE main = "finalizing" /\ main' = "done" /\ (\A t \in Threads : thread[t].at = "gone")
             /\ result' = (IF result = "error" \/ hashErrors > 0 THEN "error" ELSE "ok")
             /\ UNCHANGED <<hashClosed, immediateStopHashing>>
    <3>1. hashErrors = 0 \/ hashErrors > 0
      BY DEF CountInv
    <3> QED BY <2>1, <2>5, <3>1 DEF ErrorInv, EndFrame, scanOptions
  <2> QED BY <1>7, <2>2, <2>3, <2>4, <2>5, EndsDo
<1>8. CASE \E p \in toList : ListEntry(p)
  <2>1. PICK p \in toList : ListEntry(p)
    BY <1>8
  <2>2. /\ main = "flat" /\ ListFrame /\ toList' = toList \ {p}
        /\ \/ UNCHANGED <<main, hashClosed, immediateStopHashing, result>>
           \/ /\ main' = "finalizing" /\ hashClosed' = TRUE /\ immediateStopHashing' = TRUE
              /\ result' = "error"
    BY <2>1, ListEntryDoes
  <2> QED BY <2>2 DEF ErrorInv, ListFrame, scanOptions
<1> QED BY <1>1, <1>2, <1>3, <1>4, <1>5, <1>6, <1>7, <1>8, StepKinds DEF HashStep

(* A folder is no link, so that its path is held in one place. *)
LEMMA KindsApart ==
    /\ ScanDirs \subseteq ScanPaths
    /\ \A d \in ScanDirs : d \notin ScanLinks /\ d \notin FileLinks /\ d # Nowhere /\ d \notin ScanFiles
    /\ FileLinks \subseteq ScanLinks
BY ScanAssumption DEF ScanPaths, FileLinks

(* What is handed on by the walk function is not held yet, unless it is a  *)
(* link to a file.                                                         *)
LEMMA RootIsNew ==
    ASSUME ScanTypes, HashTypes, PhaseInv, SeenInv, OnceInv, main = "next", Len(walkQueue) > 0,
           walkQueue[1] \in ScanDirs, IsNewRoot(walkQueue[1])
    PROVE  ~Held(walkQueue[1])
<1>1. recursive
  BY DEF PhaseInv
<1>2. walkQueue[1] \in ScanPaths /\ walkQueue[1] \notin FileLinks
  BY KindsApart
<1>3. CASE handling = "follow"
  <2>1. walkQueue[1] \notin seenPaths
    BY <1>3 DEF IsNewRoot, HasSeen
  <2> QED BY <1>1, <1>2, <1>3, <2>1 DEF SeenInv
<1>4. CASE handling # "follow"
  <2>1. walkQueue # <<>>
    OBVIOUS
  <2>2. BeforeWalk
    BY <1>1, <1>4, <2>1 DEF OnceInv
  <2> QED BY <1>2, <2>2 DEF BeforeWalk
<1> QED BY <1>3, <1>4

(* Nor is an entry that the walk function hands on. *)
LEMMA EntryIsNew ==
    ASSUME ScanTypes, HashTypes, PhaseInv, SeenInv, OnceInv, main = "walking", Len(output) > 0,
           output[1].ok, output[1].path \in ScanPaths,
           NEW visit, visit = Visit(output[1].path), IsWanted(output[1].path, visit.offered)
    PROVE  output[1].path \in FileLinks \/ ~Held(output[1].path)
<1>1. recursive
  BY DEF PhaseInv
<1>2. PICK p : p = output[1].path
  OBVIOUS
<1>3. p \in ScanPaths /\ IsWanted(p, Visit(p).offered)
  BY <1>2
<1>4. CASE handling = "follow"
  <2> SUFFICES ASSUME p \notin FileLinks, Held(p)
               PROVE  FALSE
    BY <1>2
  <2>1. p \in seenPaths /\ (p \in ScanLinks => LinkTo[p] \in seenPaths)
    BY <1>1, <1>3, <1>4 DEF SeenInv
  <2>2. Visit(p).offered # "none"
    BY <1>3 DEF IsWanted
  <2>3. ~IsVisit(Visit(p), "none", {}, <<>>)
    BY <2>2 DEF IsVisit
  <2> QED BY <1>3, <1>4, <2>1, <2>3, VisitIs DEF HasSeen
<1>5. CASE handling # "follow"
  <2>1. ~BeforeWalk
    BY DEF BeforeWalk
  <2>2. PICK ahead \in SUBSET ScanPaths : AheadInv(ahead)
    BY <1>1, <1>5, <2>1 DEF OnceInv
  <2>3. Coming(p)
    <3>1. 1 \in 1 .. Len(output)
      BY DEF ScanTypes
    <3> QED BY <1>2, <3>1 DEF Coming
  <2> QED BY <1>2, <1>3, <2>2, <2>3 DEF AheadInv, EntriesBehind
<1> QED BY <1>4, <1>5

(* Every step keeps a path in one place. *)
LEMMA OneStep ==
    ASSUME ScanTypes, HashTypes, WorkerInv, PhaseInv, OneInv, SeenInv, FlatInv, OnceInv, LSNext
    PROVE  OneInv'
<1>1. CASE CrawlStep
  BY <1>1, CrawlStepDoes
<1>2. CASE HashStep
  BY <1>2, HashStepDoes DEF PassedOn
<1>3. CASE StartWalk
  <2>1. /\ main = "next" /\ Len(walkQueue) > 0 /\ walkQueue[1] \in ScanDirs
        /\ \/ OneInv /\ (IsNewRoot(walkQueue[1]) => ~Held(walkQueue[1])) => OneInv'
           \/ OneInv => OneInv'
    BY <1>3, StartWalkDoes
  <2> QED BY <2>1, RootIsNew
<1>4. CASE TakeResult
  <2>1. /\ main = "walking" /\ Len(output) > 0 /\ output[1].path \in ScanPaths
        /\ \/ ~output[1].ok /\ Taken(output[1].path, "none", {}, <<>>)
           \/ /\ output[1].ok
              /\ \E visit : visit = Visit(output[1].path)
                     /\ Taken(output[1].path, visit.offered, visit.recorded, visit.queued)
    BY <1>4, TakeResultDoes
  <2>2. CASE ~output[1].ok /\ Taken(output[1].path, "none", {}, <<>>)
    BY <2>2 DEF Taken, IsWanted
  <2>3. CASE /\ output[1].ok
             /\ \E visit : visit = Visit(output[1].path)
                    /\ Taken(output[1].path, visit.offered, visit.recorded, visit.queued)
    <3>1. PICK visit : visit = Visit(output[1].path)
                    /\ Taken(output[1].path, visit.offered, visit.recorded, visit.queued)
      BY <2>3
    <3>2. IsWanted(output[1].path, visit.offered) =>
             output[1].path \in FileLinks \/ ~Held(output[1].path)
      BY <2>1, <2>3, <3>1, EntryIsNew
    <3> QED BY <3>1, <3>2 DEF Taken
  <2> QED BY <2>1, <2>2, <2>3
<1>5. CASE EndWalk \/ EndWalks \/ EndFlatListing \/ Finalize
  BY <1>5, EndsDo
<1>6. CASE \E p \in toList : ListEntry(p)
  <2>1. PICK p \in toList : ListEntry(p)
    BY <1>6
  <2>2. /\ main = "flat"
        /\ \/ OneInv /\ (IsListed1(p) => ~Held(p)) => OneInv'
           \/ OneInv => OneInv'
    BY <2>1, ListEntryDoes
  <2>3. ~Held(p)
    BY <2>2 DEF PhaseInv, FlatInv
  <2> QED BY <2>2, <2>3
<1> QED BY <1>1, <1>2, <1>3, <1>4, <1>5, <1>6, StepKinds

(* Every step that hands a path on remembers it, when links are followed.  *)
LEMMA SeenStep ==
    ASSUME ScanTypes, HashTypes, WorkerInv, PhaseInv, SeenInv, LSNext
    PROVE  SeenInv'
<1>1. ASSUME UNCHANGED <<scanOptions, seenPaths>>, \A q \in ScanPaths : Held(q)' => Held(q)
      PROVE  SeenInv'
  BY <1>1 DEF SeenInv, scanOptions, FileLinks
<1>2. CASE CrawlStep
  BY <1>1, <1>2, CrawlStepDoes DEF CrawlFrame, walkVars
<1>3. CASE HashStep
  BY <1>1, <1>3, HashStepDoes DEF HashFrame, PassedOn, walkVars
<1>4. CASE StartWalk
  <2>1. /\ StartFrame /\ walkQueue[1] \in ScanDirs
        /\ seenPaths' = IF IsNewRoot(walkQueue[1]) THEN seenPaths \cup {walkQueue[1]} ELSE seenPaths
        /\ \A q \in ScanPaths : Held(q)' => Held(q) \/ (q = walkQueue[1] /\ IsNewRoot(walkQueue[1]))
    BY <1>4, StartWalkDoes
  <2> QED BY <2>1, KindsApart DEF SeenInv, StartFrame, scanOptions, FileLinks
<1>5. CASE TakeResult
  <2>1. /\ TakenFrame /\ output[1].path \in ScanPaths
        /\ \/ ~output[1].ok /\ Taken(output[1].path, "none", {}, <<>>)
           \/ /\ output[1].ok
              /\ \E visit : visit = Visit(output[1].path)
                     /\ Taken(output[1].path, visit.offered, visit.recorded, visit.queued)
    BY <1>5, TakeResultDoes
  <2>2. PICK p : p = output[1].path
    OBVIOUS
  <2>3. CASE Taken(p, "none", {}, <<>>)
    <3>1. UNCHANGED <<scanOptions, seenPaths>> /\ \A q \in ScanPaths : Held(q)' => Held(q)
      BY <2>1, <2>3 DEF Taken, IsWanted, TakenFrame
    <3> QED BY <1>1, <3>1
  <2>4. CASE \E visit : visit = Visit(p) /\ Taken(p, visit.offered, visit.recorded, visit.queued)
    <3>1. PICK o, r, k : o = Visit(p).offered /\ r = Visit(p).recorded /\ k = Visit(p).queued
      OBVIOUS
    <3>2. Taken(p, o, r, k) /\ p \in ScanPaths
      BY <2>1, <2>2, <2>4, <3>1
    <3>3. /\ seenPaths' = IF IsWanted(p, o) THEN seenPaths \cup r ELSE seenPaths
          /\ \A q \in ScanPaths : Held(q)' => Held(q) \/ (q = p /\ IsWanted(p, o))
      BY <3>2 DEF Taken
    <3>4. IsWanted(p, o) /\ handling = "follow" /\ p \notin FileLinks =>
             p \in r /\ (p \in ScanLinks => LinkTo[p] \in r)
      <4>1. \/ o = "none" \/ (p \notin ScanLinks /\ r = {p})
            \/ (p \in ScanLinks /\ handling = "preserve") \/ p \in FileLinks
            \/ r = {LinkTo[p], p}
        BY <3>1, <3>2, VisitIs DEF IsVisit
      <4> QED BY <4>1 DEF IsWanted
    <3>5. recursive' = recursive /\ handling' = handling /\ FileLinks' = FileLinks
      BY <2>1 DEF TakenFrame, scanOptions, FileLinks
    <3> SUFFICES ASSUME handling = "follow", recursive, NEW q \in ScanPaths \ FileLinks, Held(q)'
                 PROVE  q \in seenPaths' /\ (q \in ScanLinks => LinkTo[q] \in seenPaths')
      BY <3>5 DEF SeenInv
    <3>6. CASE Held(q)
      <4>1. q \in seenPaths /\ (q \in ScanLinks => LinkTo[q] \in seenPaths)
        BY <3>6 DEF SeenInv
      <4> QED BY <3>3, <4>1
    <3>7. CASE q = p /\ IsWanted(p, o)
      BY <3>3, <3>4, <3>7
    <3> QED BY <3>3, <3>6, <3>7
  <2> QED BY <2>1, <2>2, <2>3, <2>4
<1>6. CASE EndWalk \/ EndWalks \/ EndFlatListing \/ Finalize
  BY <1>1, <1>6, EndsDo DEF EndFrame
<1>7. CASE \E p \in toList : ListEntry(p)
  <2>1. ~recursive' 
    BY <1>7, ListEntryDoes DEF ListFrame, scanOptions, PhaseInv
  <2> QED BY <2>1 DEF SeenInv
<1> QED BY <1>2, <1>3, <1>4, <1>5, <1>6, <1>7, StepKinds

(* The flat listing comes to a path once. *)
LEMMA FlatStep ==
    ASSUME ScanTypes, HashTypes, WorkerInv, PhaseInv, FlatInv, LSNext
    PROVE  FlatInv'
<1>0. toList \subseteq ScanPaths
  BY DEF ScanTypes, Children
<1>1. ASSUME UNCHANGED <<scanOptions, toList>>, \A q \in ScanPaths : Held(q)' => Held(q)
      PROVE  FlatInv'
  BY <1>0, <1>1 DEF FlatInv, scanOptions
<1>2. CASE CrawlStep
  BY <1>1, <1>2, CrawlStepDoes DEF CrawlFrame, walkVars
<1>3. CASE HashStep
  BY <1>1, <1>3, HashStepDoes DEF HashFrame, PassedOn, walkVars
<1>4. CASE StartWalk
  <2>1. recursive'
    BY <1>4, StartWalkDoes DEF StartFrame, scanOptions, PhaseInv
  <2> QED BY <2>1 DEF FlatInv
<1>5. CASE TakeResult
  <2>1. recursive'
    BY <1>5, TakenIs DEF TakenFrame, scanOptions, PhaseInv
  <2> QED BY <2>1 DEF FlatInv
<1>6. CASE EndWalk \/ EndWalks \/ EndFlatListing \/ Finalize
  BY <1>1, <1>6, EndsDo DEF EndFrame
<1>7. CASE \E p \in toList : ListEntry(p)
  <2>1. PICK p \in toList : ListEntry(p)
    BY <1>7
  <2>2. /\ ListFrame /\ toList' = toList \ {p}
        /\ \A q \in ScanPaths : Held(q)' => Held(q) \/ q = p
    BY <2>1, ListEntryDoes
  <2> QED BY <1>0, <2>2 DEF FlatInv, ListFrame, scanOptions
<1> QED BY <1>2, <1>3, <1>4, <1>5, <1>6, <1>7, StepKinds

(* No folder is its own entry. *)
LEMMA NotWithinItself == \A d \in ScanDirs : d \notin Children(d)
<1> SUFFICES ASSUME NEW d \in ScanDirs, d \in Children(d)
             PROVE  FALSE
  OBVIOUS
<1>1. {d} \in SUBSET ScanDirs /\ {d} # {}
  OBVIOUS
<1>2. \E e \in {d} : Children(e) \cap {d} = {}
  BY <1>1, ScanAssumption
<1> QED BY <1>2

(* What is below a folder, without the folder. *)
LEMMA WhatIsBelow ==
    ASSUME NEW root \in ScanDirs
    PROVE  \E ahead \in SUBSET ScanPaths :
              /\ root \notin ahead /\ Children(root) \subseteq ahead
              /\ \A d \in ahead \cap ScanDirs : Children(d) \subseteq ahead
<1> DEFINE IsDown(paths) == \A d \in paths \cap ScanDirs : Children(d) \subseteq paths
           ahead == UNION {paths \in SUBSET ScanPaths : root \notin paths /\ IsDown(paths)}
           above == {d \in ScanDirs : ~(Children(d) \subseteq ahead)}
<1>1. ahead \in SUBSET ScanPaths /\ root \notin ahead
  OBVIOUS
<1>2. IsDown(ahead)
  <2> SUFFICES ASSUME NEW d \in ahead \cap ScanDirs
               PROVE  Children(d) \subseteq ahead
    OBVIOUS
  <2>1. PICK paths \in SUBSET ScanPaths : root \notin paths /\ IsDown(paths) /\ d \in paths
    OBVIOUS
  <2>2. Children(d) \subseteq paths
    BY <2>1
  <2> QED BY <2>1, <2>2
<1>3. ASSUME NEW paths \in SUBSET ScanPaths, root \notin paths, IsDown(paths)
      PROVE  paths \subseteq ahead
  BY <1>3
<1> HIDE DEF ahead
<1>4. ASSUME root \in above
      PROVE  FALSE
  <2>1. ASSUME NEW d \in above, Children(d) \cap above = {}
        PROVE  FALSE
    <3> DEFINE more == ahead \cup Children(d)
    <3>1. more \in SUBSET ScanPaths /\ root \notin more
      BY <1>1, <1>4, <2>1 DEF Children
    <3>2. IsDown(more)
      <4> SUFFICES ASSUME NEW e \in more \cap ScanDirs
                   PROVE  Children(e) \subseteq ahead
        OBVIOUS
      <4>1. CASE e \in ahead
        BY <1>2, <4>1
      <4>2. CASE e \in Children(d)
        BY <2>1, <4>2
      <4> QED BY <4>1, <4>2
    <3>3. more \subseteq ahead
      BY <1>3, <3>1, <3>2
    <3> QED BY <2>1, <3>3
  <2>2. above \in SUBSET ScanDirs /\ above # {}
    BY <1>4
  <2>3. \E d \in above : Children(d) \cap above = {}
    BY <2>2, ScanAssumption
  <2> QED BY <2>1, <2>3
<1>5. Children(root) \subseteq ahead
  BY <1>4
<1> QED BY <1>1, <1>2, <1>5

(* The only walk begins. *)
LEMMA OnlyWalkBegins ==
    ASSUME ScanTypes, HashTypes, PhaseInv, BeforeWalk, StartWalk
    PROVE  walkQueue' = <<>> /\ \E ahead \in SUBSET ScanPaths : AheadInv(ahead)'
<1>1. /\ walkQueue[1] = ScanRoot /\ walkQueue' = <<>> /\ ScanRoot \in ScanDirs
      /\ \A p \in ScanPaths : ~Held(p)
  BY StartWalkDoes, ScanAssumption DEF BeforeWalk
<1>2. output' = <<>>
  BY StartWalkDoes
<1>3. PICK ahead \in SUBSET ScanPaths :
              /\ ScanRoot \notin ahead /\ Children(ScanRoot) \subseteq ahead
              /\ \A d \in ahead \cap ScanDirs : Children(d) \subseteq ahead
  BY <1>1, WhatIsBelow
<1>4. ComesOnce' /\ \A p : ~Coming(p)'
  BY <1>2 DEF ComesOnce, Coming
<1>5. CASE main' = "walking"
  <2>1. /\ \A q \in ScanPaths : Held(q)' => Held(q) \/ q = ScanRoot
        /\ unstartedDirs' = {ScanRoot} /\ worker' = [w \in Workers |-> Waiting]
    BY <1>1, <1>5, StartWalkDoes
  <2>2. Busy' = {}
    BY <2>1 DEF Busy, Waiting, Resting
  <2>3. \A p \in ahead : ~Held(p)'
    BY <1>1, <1>3, <2>1
  <2>4. AheadInv(ahead)'
    BY <1>3, <1>4, <2>1, <2>2, <2>3 DEF AheadInv, FoldersAhead, WorkersAhead, EntriesBehind
  <2> QED BY <1>1, <2>4
<1>6. CASE main' # "walking"
  <2>1. UNCHANGED <<unstartedDirs, worker>>
    BY <1>6, StartWalkDoes
  <2>2. Busy' = {} /\ unstartedDirs' = {}
    BY <2>1 DEF BeforeWalk, Quiet, Busy
  <2>3. AheadInv({})'
    BY <1>4, <1>6, <2>2 DEF AheadInv, FoldersAhead, WorkersAhead, EntriesBehind
  <2> QED BY <1>1, <2>3
<1> QED BY <1>5, <1>6

(* What a sequence has is of its set. *)
LEMMA SeqElements ==
    ASSUME NEW S, NEW s \in Seq(S)
    PROVE  Len(s) \in Nat /\ \A i \in 1 .. Len(s) : s[i] \in S
OBVIOUS

(* What the channel has are entries. *)
LEMMA EntriesTyped ==
    ASSUME ScanTypes
    PROVE  /\ Len(output) \in Nat
           /\ \A i \in 1 .. Len(output) : output[i].path \in ScanPaths /\ output[i].ok \in BOOLEAN
<1> DEFINE E == [path : ScanPaths, ok : BOOLEAN]
<1>1. output \in Seq(E)
  BY DEF ScanTypes
<1> HIDE DEF E
<1>2. Len(output) \in Nat /\ \A i \in 1 .. Len(output) : output[i] \in E
  BY ONLY <1>1, SeqElements
<1>3. \A i \in 1 .. Len(output) : output[i].path \in ScanPaths /\ output[i].ok \in BOOLEAN
  BY ONLY <1>2 DEF E
<1> QED BY <1>2, <1>3

(* What is coming. *)
LEMMA ComingAtPut ==
    ASSUME ScanTypes, NEW path \in ScanPaths, NEW ok \in BOOLEAN, Put([path |-> path, ok |-> ok])
    PROVE  /\ \A q : Coming(q)' => Coming(q) \/ (ok /\ q = path)
           /\ \A q : Coming(q) => Coming(q)'
           /\ ComesOnce /\ ~Coming(path) => ComesOnce'
           /\ ~cancelled => \/ ok /\ Coming(path)'
                            \/ ~ok /\ \E i \in 1 .. Len(output') : ~output'[i].ok
           /\ \A i \in 1 .. Len(output') : output'[i].path = path
                 \/ \E j \in 1 .. Len(output) : output'[i].path = output[j].path
           /\ \A i \in 1 .. Len(output) : i \in 1 .. Len(output') /\ output'[i] = output[i]
<1>1. CASE UNCHANGED output /\ cancelled
  BY <1>1 DEF Coming, ComesOnce
<1>2. CASE /\ Len(output') = Len(output) + 1 /\ Len(output) \in Nat
           /\ \A i \in 1 .. Len(output) : output'[i] = output[i]
           /\ output'[Len(output) + 1] = [path |-> path, ok |-> ok]
           /\ \A i \in 1 .. Len(output') : i \in 1 .. Len(output) \/ i = Len(output) + 1
  <2> DEFINE last == Len(output) + 1
  <2>1. output'[last].path = path /\ output'[last].ok = ok /\ last \in 1 .. Len(output')
    BY <1>2
  <2>2. \A i \in 1 .. Len(output) : i \in 1 .. Len(output') /\ output'[i] = output[i]
    BY <1>2
  <2>3. \A i \in 1 .. Len(output') : i = last \/ i \in 1 .. Len(output)
    BY <1>2
  <2> HIDE DEF last
  <2>4. \A q : Coming(q)' => Coming(q) \/ (ok /\ q = path)
    BY <2>1, <2>2, <2>3 DEF Coming
  <2>5. \A q : Coming(q) => Coming(q)'
    BY <2>2 DEF Coming
  <2>6. ok => Coming(path)'
    BY <2>1 DEF Coming
  <2>7. ASSUME ComesOnce, ~Coming(path)
        PROVE  ComesOnce'
    <3> SUFFICES ASSUME NEW i \in 1 .. Len(output'), NEW j \in 1 .. Len(output'),
                        output'[i].ok, output'[j].ok, output'[i].path = output'[j].path
                 PROVE  i = j
      BY DEF ComesOnce
    <3>1. CASE i \in 1 .. Len(output) /\ j \in 1 .. Len(output)
      BY <2>2, <2>7, <3>1 DEF ComesOnce
    <3>2. CASE i \in 1 .. Len(output) /\ j = last
      BY <2>1, <2>2, <2>7, <3>2 DEF Coming
    <3>3. CASE i = last /\ j \in 1 .. Len(output)
      BY <2>1, <2>2, <2>7, <3>3 DEF Coming
    <3> QED BY <2>3, <3>1, <3>2, <3>3
  <2>8. \A i \in 1 .. Len(output') : output'[i].path = path
                 \/ \E j \in 1 .. Len(output) : output'[i].path = output[j].path
    BY <2>1, <2>2, <2>3
  <2>9. ~ok => \E i \in 1 .. Len(output') : ~output'[i].ok
    BY <2>1
  <2> QED BY <2>2, <2>4, <2>5, <2>6, <2>7, <2>8, <2>9
<1> QED BY <1>1, <1>2, PutIs

(* What is coming when an entry is taken. *)
LEMMA ComingAtTail ==
    ASSUME ScanTypes, Len(output) > 0, output' = Tail(output)
    PROVE  /\ \A q : Coming(q)' => Coming(q)
           /\ \A q : Coming(q) => Coming(q)' \/ (output[1].ok /\ q = output[1].path)
           /\ output[1].ok => Coming(output[1].path)
           /\ ComesOnce => ComesOnce' /\ \A q : output[1].ok /\ q = output[1].path => ~Coming(q)'
           /\ \A i \in 1 .. Len(output') : i + 1 \in 1 .. Len(output) /\ output'[i] = output[i + 1]
           /\ \A i \in 1 .. Len(output) : i = 1 \/ (i - 1 \in 1 .. Len(output') /\ output'[i - 1] = output[i])
<1>1. output \in Seq([path : ScanPaths, ok : BOOLEAN]) /\ output # <<>>
  BY DEF ScanTypes
<1>2. /\ Len(output) \in Nat /\ Len(output) > 0 /\ Len(output') = Len(output) - 1
      /\ \A i \in 1 .. Len(output') : output'[i] = output[i + 1] /\ i + 1 \in 1 .. Len(output)
  BY <1>1, HeadAndTail
<1>3. \A i \in 1 .. Len(output) : i = 1 \/ (i - 1 \in 1 .. Len(output') /\ output'[i - 1] = output[i])
  <2> SUFFICES ASSUME NEW i \in 1 .. Len(output), i # 1
               PROVE  i - 1 \in 1 .. Len(output') /\ output'[i - 1] = output[i]
    OBVIOUS
  <2>1. i - 1 \in 1 .. Len(output') /\ (i - 1) + 1 = i
    BY <1>2
  <2> QED BY <1>2, <2>1
<1>4. \A q : Coming(q)' => Coming(q)
  BY <1>2 DEF Coming
<1>5. \A q : Coming(q) => Coming(q)' \/ (output[1].ok /\ q = output[1].path)
  BY <1>3 DEF Coming
<1>6. 1 \in 1 .. Len(output)
  BY <1>2
<1>7. ASSUME ComesOnce
      PROVE  ComesOnce' /\ \A q : output[1].ok /\ q = output[1].path => ~Coming(q)'
  <2>1. \A i \in 1 .. Len(output') : i + 1 # 1
    BY <1>2
  <2>2. ASSUME NEW q, output[1].ok, q = output[1].path
        PROVE  ~Coming(q)'
    <3> SUFFICES ASSUME NEW i \in 1 .. Len(output'), output'[i].ok, output'[i].path = q
                 PROVE  FALSE
      BY DEF Coming
    <3>1. PICK k : k = i + 1
      OBVIOUS
    <3>2. k \in 1 .. Len(output) /\ output[k] = output'[i] /\ k # 1
      BY <1>2, <2>1, <3>1
    <3> QED BY <1>6, <1>7, <2>2, <3>2 DEF ComesOnce
  <2>3. ASSUME NEW i \in 1 .. Len(output'), NEW j \in 1 .. Len(output'),
               output'[i].ok, output'[j].ok, output'[i].path = output'[j].path
        PROVE  i = j
    <3>0. PICK k, l : k = i + 1 /\ l = j + 1
      OBVIOUS
    <3>2. /\ k \in 1 .. Len(output) /\ l \in 1 .. Len(output)
          /\ output[k] = output'[i] /\ output[l] = output'[j]
      BY <1>2, <3>0
    <3>3. k = l
      BY <1>7, <2>3, <3>2 DEF ComesOnce
    <3>1. i + 1 = j + 1
      BY <3>0, <3>3
    <3> QED BY <1>2, <3>1
  <2> QED BY <2>2, <2>3 DEF ComesOnce
<1> QED BY <1>2, <1>3, <1>4, <1>5, <1>6, <1>7 DEF Coming

(* What a walk has yet to come to, while nothing but the hashing goes on,  *)
(* or another walk ends.                                                   *)
LEMMA AheadStays ==
    ASSUME NEW ahead \in SUBSET ScanPaths, AheadInv(ahead),
           UNCHANGED <<worker, unstartedDirs, output>>,
           main' = "walking" => main = "walking",
           \A q \in ScanPaths : Held(q)' => Held(q)
    PROVE  AheadInv(ahead)'
<1>1. Busy' = Busy
  BY DEF Busy
<1>2. ComesOnce' = ComesOnce /\ \A q : Coming(q)' <=> Coming(q)
  BY DEF ComesOnce, Coming
<1>3. FoldersAhead(ahead)'
  BY DEF AheadInv, FoldersAhead
<1>4. WorkersAhead(ahead)'
  BY <1>1 DEF AheadInv, WorkersAhead
<1>5. EntriesBehind(ahead)'
  BY <1>2 DEF AheadInv, EntriesBehind
<1> QED BY <1>3, <1>4, <1>5 DEF AheadInv

(* Nothing ahead is lost when a worker takes a folder, ... *)
LEMMA AheadAtTake ==
    ASSUME ScanTypes, WorkerInv, NEW ahead \in SUBSET ScanPaths, AheadInv(ahead),
           NEW w \in Workers, TakeDirectory(w)
    PROVE  AheadInv(ahead)'
<1>1. /\ CrawlFrame /\ UNCHANGED output /\ worker[w].at = "idle" /\ Moved(w)
      /\ worker'[w].remaining = {} /\ worker'[w].found = {}
      /\ \/ \E d \in unstartedDirs :
              /\ worker'[w].at = "reading" /\ worker'[w].dir = d
              /\ unstartedDirs' = unstartedDirs \ {d}
         \/ worker'[w].at = "gone" /\ UNCHANGED unstartedDirs
  BY TakeDirectoryDoes
<1>2. EntriesBehind(ahead)'
  <2>1. UNCHANGED main /\ \A q \in ScanPaths : Held(q)' <=> Held(q)
    BY CrawlStepDoes DEF CrawlStep, CrawlFrame, walkVars
  <2>2. ComesOnce' = ComesOnce /\ \A q : Coming(q)' <=> Coming(q)
    BY <1>1 DEF ComesOnce, Coming
  <2> QED BY <2>1, <2>2 DEF AheadInv, EntriesBehind
<1>3. FoldersAhead(ahead)'
  BY <1>1 DEF AheadInv, FoldersAhead
<1>4. CASE worker'[w].at = "gone" /\ UNCHANGED unstartedDirs
  <2>1. Busy' = Busy /\ \A v \in Busy : worker'[v] = worker[v]
    BY <1>1, <1>4 DEF Busy, Moved
  <2>2. WorkersAhead(ahead)'
    BY <1>4, <2>1 DEF AheadInv, WorkersAhead
  <2> QED BY <1>2, <1>3, <2>2 DEF AheadInv
<1>5. CASE \E d \in unstartedDirs :
              /\ worker'[w].at = "reading" /\ worker'[w].dir = d
              /\ unstartedDirs' = unstartedDirs \ {d}
  <2>1. PICK d \in unstartedDirs :
              /\ worker'[w].at = "reading" /\ worker'[w].dir = d
              /\ unstartedDirs' = unstartedDirs \ {d}
    BY <1>5
  <2>2. Busy' = Busy \cup {w} /\ w \notin Busy /\ \A v \in Busy : worker'[v] = worker[v]
    BY <1>1, <2>1 DEF Busy, Moved
  <2>3. d \notin ahead /\ Children(d) \subseteq ahead
    BY <2>1 DEF AheadInv, FoldersAhead
  <2>4. \A v \in Busy : worker[v].dir # d /\ d \notin worker[v].found
    BY <2>1 DEF AheadInv, WorkersAhead
  <2>5. WorkersAhead(ahead)'
    BY <1>1, <2>1, <2>2, <2>3, <2>4 DEF AheadInv, WorkersAhead
  <2> QED BY <1>2, <1>3, <2>5 DEF AheadInv
<1> QED BY <1>1, <1>4, <1>5

(* ... reads it, ... *)
LEMMA AheadAtRead ==
    ASSUME ScanTypes, WorkerInv, NEW ahead \in SUBSET ScanPaths, AheadInv(ahead),
           NEW w \in Workers, ReadDirectory(w)
    PROVE  AheadInv(ahead)'
<1>1. /\ UNCHANGED unstartedDirs
      /\ worker[w].at = "reading" /\ worker[w].dir \in ScanDirs /\ Moved(w)
      /\ worker[w].remaining = {} /\ worker[w].found = {}
      /\ worker'[w].found = {} /\ worker'[w].dir = worker[w].dir
      /\ worker'[w].remaining \subseteq Children(worker[w].dir)
      /\ worker'[w].at \in {"reading", "listing"}
      /\ UNCHANGED output \/ Put([path |-> worker[w].dir, ok |-> FALSE])
  BY ReadDirectoryDoes
<1>2. EntriesBehind(ahead)'
  <2>1. UNCHANGED main /\ \A q \in ScanPaths : Held(q)' <=> Held(q)
    BY CrawlStepDoes DEF CrawlStep, CrawlFrame, walkVars
  <2>2. (ComesOnce => ComesOnce') /\ \A q : Coming(q)' => Coming(q)
    <3>1. CASE UNCHANGED output
      BY <3>1 DEF ComesOnce, Coming
    <3>2. CASE ~UNCHANGED output
      <4>1. worker[w].dir \in ScanPaths
        BY <1>1, KindsApart
      <4>2. \A i \in 1 .. Len(output') : output'[i].ok =>
               i \in 1 .. Len(output) /\ output'[i] = output[i]
        <5>1. /\ \A i \in 1 .. Len(output) : output'[i] = output[i]
              /\ output'[Len(output) + 1] = [path |-> worker[w].dir, ok |-> FALSE]
              /\ \A i \in 1 .. Len(output') : i \in 1 .. Len(output) \/ i = Len(output) + 1
          BY <1>1, <3>2, <4>1, PutIs
        <5> QED BY <5>1
      <4> QED BY <4>2 DEF ComesOnce, Coming
    <3> QED BY <3>1, <3>2
  <2> QED BY <2>1, <2>2 DEF AheadInv, EntriesBehind
<1>3. FoldersAhead(ahead)'
  BY <1>1 DEF AheadInv, FoldersAhead
<1>4. w \in Busy /\ Busy' = Busy /\ \A v \in Busy : v # w => worker'[v] = worker[v]
  BY <1>1 DEF Busy, Moved
<1>5. Children(worker[w].dir) \subseteq ahead
  BY <1>1, <1>4 DEF AheadInv, WorkersAhead
<1>6. WorkersAhead(ahead)'
  <2>1. \A v \in Busy : worker'[v].dir = worker[v].dir /\ worker'[v].found = worker[v].found
    BY <1>1, <1>4
  <2>2. \A v \in Busy : worker'[v].remaining \subseteq ahead
    BY <1>1, <1>4, <1>5 DEF AheadInv, WorkersAhead
  <2>3. \A v \in Busy : worker'[v].at = "reading" => Children(worker'[v].dir) \subseteq ahead
    BY <1>1, <1>4, <1>5 DEF AheadInv, WorkersAhead
  <2> QED BY <1>1, <1>4, <2>1, <2>2, <2>3 DEF AheadInv, WorkersAhead
<1> QED BY <1>2, <1>3, <1>6 DEF AheadInv

(* ... sends an entry, which is then ahead no more, ... *)
LEMMA AheadAtPut ==
    ASSUME ScanTypes, WorkerInv, NEW ahead \in SUBSET ScanPaths, AheadInv(ahead),
           NEW w \in Workers, NEW p \in worker[w].remaining, PutEntry(w, p)
    PROVE  AheadInv(ahead \ {p})'
<1>1. /\ UNCHANGED unstartedDirs
      /\ worker[w].at = "listing" /\ worker'[w].at = "listing" /\ Moved(w)
      /\ worker'[w].dir = worker[w].dir /\ worker[w].dir \in ScanDirs
      /\ worker'[w].remaining = worker[w].remaining \ {p}
      /\ worker'[w].found = worker[w].found \cup ({p} \cap ScanDirs)
      /\ p \in ScanPaths /\ InDir[p] = worker[w].dir
      /\ Put([path |-> p, ok |-> TRUE])
  BY PutEntryDoes
<1>2. UNCHANGED main /\ \A q \in ScanPaths : Held(q)' <=> Held(q)
  BY CrawlStepDoes DEF CrawlStep, CrawlFrame, walkVars
<1>3. w \in Busy /\ Busy' = Busy /\ \A v \in Busy : v # w => worker'[v] = worker[v]
  BY <1>1 DEF Busy, Moved
<1>4. /\ worker[w].dir \notin ahead /\ p \in ahead /\ worker[w].dir \notin unstartedDirs
      /\ p \notin unstartedDirs /\ ~Held(p) /\ ~Coming(p)
  BY <1>1, <1>3 DEF AheadInv, FoldersAhead, WorkersAhead, EntriesBehind
<1> DEFINE less == ahead \ {p}
<1>5. ASSUME NEW d \in ScanDirs, Children(d) \subseteq ahead, d # worker[w].dir
      PROVE  Children(d) \subseteq less
  BY <1>1, <1>5 DEF Children
<1>6. FoldersAhead(less)'
  <2>1. \A d \in less \cap ScanDirs : Children(d) \subseteq less
    BY <1>4, <1>5 DEF AheadInv, FoldersAhead
  <2>2. ASSUME NEW d \in unstartedDirs
        PROVE  d \notin less /\ Children(d) \subseteq less
    <3>1. d \in ScanDirs /\ d # worker[w].dir
      BY <1>4 DEF ScanTypes
    <3> QED BY <1>5, <3>1 DEF AheadInv, FoldersAhead
  <2>3. UNCHANGED unstartedDirs
    BY <1>1
  <2> HIDE DEF less
  <2>4. FoldersAhead(less)'
    BY ONLY <2>1, <2>2, <2>3 DEF FoldersAhead
  <2> QED BY <2>4
<1>7. \A v \in Busy : worker'[v].dir = worker[v].dir
  BY <1>1, <1>3
<1>8. \A v \in Busy : v # w => worker[v].dir # worker[w].dir /\ worker[v].dir \in ScanDirs
  <2>1. \A v \in Busy : worker[v].dir \in ScanDirs
    BY DEF WorkerInv, Busy
  <2> QED BY <1>3, <2>1 DEF AheadInv, WorkersAhead
<1>9. \A v \in Busy' : worker'[v].dir \notin less /\ worker'[v].remaining \subseteq less
  <2>1. \A v \in Busy : v # w => worker[v].remaining \subseteq less
    <3> SUFFICES ASSUME NEW v \in Busy, v # w
                 PROVE  worker[v].remaining \subseteq less
      OBVIOUS
    <3>1. /\ worker[v].remaining \subseteq ahead
          /\ worker[v].remaining \subseteq Children(worker[v].dir)
      BY DEF AheadInv, WorkersAhead, WorkerInv, Busy
    <3>2. p \notin Children(worker[v].dir)
      BY <1>1, <1>8 DEF Children
    <3> QED BY <3>1, <3>2
  <2>2. worker'[w].remaining \subseteq less
    BY <1>1, <1>3 DEF AheadInv, WorkersAhead
  <2> QED BY <1>3, <1>7, <2>1, <2>2 DEF AheadInv, WorkersAhead
<1>10. \A v \in Busy' : worker'[v].dir \notin unstartedDirs'
  BY <1>1, <1>3, <1>7 DEF AheadInv, WorkersAhead
<1>11. \A v \in Busy' : worker'[v].at = "reading" => Children(worker'[v].dir) \subseteq less
  BY <1>1, <1>3, <1>5, <1>7, <1>8 DEF AheadInv, WorkersAhead
<1>12. \A v, u \in Busy' : worker'[v].dir = worker'[u].dir => v = u
  BY <1>3, <1>7 DEF AheadInv, WorkersAhead
<1>13. \A v \in Busy' : worker'[v].found \subseteq worker[v].found \cup {p}
  BY <1>1, <1>3
<1>14. \A v \in Busy' : worker'[v].found \cap (less \cup unstartedDirs') = {}
  BY <1>1, <1>3, <1>4, <1>13 DEF AheadInv, WorkersAhead
<1>15. \A v, u \in Busy' : worker'[v].dir \notin worker'[u].found
  BY <1>3, <1>4, <1>7, <1>13 DEF AheadInv, WorkersAhead
<1>16. \A v \in Busy' : \A d \in worker'[v].found : Children(d) \subseteq less
  <2> SUFFICES ASSUME NEW v \in Busy, NEW d \in worker'[v].found
               PROVE  Children(d) \subseteq less
    BY <1>3
  <2>1. CASE d \in worker[v].found
    <3>1. d \in ScanDirs /\ Children(d) \subseteq ahead
      BY <2>1 DEF AheadInv, WorkersAhead, ScanTypes, Busy, WorkerStates
    <3>2. d # worker[w].dir
      BY <1>3, <2>1 DEF AheadInv, WorkersAhead
    <3> QED BY <1>5, <3>1, <3>2
  <2>2. CASE d \notin worker[v].found
    <3>1. d = p /\ p \in ScanDirs
      BY <1>1, <1>3, <2>2
    <3>2. Children(p) \subseteq ahead /\ p # worker[w].dir
      BY <1>4, <3>1 DEF AheadInv, FoldersAhead
    <3> QED BY <1>5, <3>1, <3>2
  <2> QED BY <2>1, <2>2
<1>17. EntriesBehind(less)'
  <2>1. /\ \A q : Coming(q)' => Coming(q) \/ q = p
        /\ ComesOnce'
    BY <1>1, <1>4, ComingAtPut DEF AheadInv, EntriesBehind
  <2> QED BY <1>1, <1>2, <1>4, <2>1 DEF AheadInv, EntriesBehind
<1> HIDE DEF less
<1>18. WorkersAhead(less)'
  BY <1>9, <1>10, <1>11, <1>12, <1>14, <1>15, <1>16 DEF WorkersAhead
<1>19. AheadInv(less)'
  BY <1>6, <1>17, <1>18 DEF AheadInv
<1> QED BY <1>19 DEF less

(* ... or is done with the folder, ... *)
LEMMA AheadAtFinish ==
    ASSUME ScanTypes, WorkerInv, NEW ahead \in SUBSET ScanPaths, AheadInv(ahead),
           NEW w \in Workers, FinishDirectory(w)
    PROVE  AheadInv(ahead)'
<1>1. /\ UNCHANGED output
      /\ worker[w].at = "listing" /\ Moved(w)
      /\ worker[w].dir \in ScanDirs /\ worker[w].found \subseteq Children(worker[w].dir)
      /\ worker'[w].at \in {"idle", "gone"}
      /\ unstartedDirs' = unstartedDirs \cup worker[w].found
  BY FinishDirectoryDoes
<1>2. EntriesBehind(ahead)'
  <2>1. UNCHANGED main /\ \A q \in ScanPaths : Held(q)' <=> Held(q)
    BY CrawlStepDoes DEF CrawlStep, CrawlFrame, walkVars
  <2>2. ComesOnce' = ComesOnce /\ \A q : Coming(q)' <=> Coming(q)
    BY <1>1 DEF ComesOnce, Coming
  <2> QED BY <2>1, <2>2 DEF AheadInv, EntriesBehind
<1>3. w \in Busy /\ Busy' = Busy \ {w} /\ \A v \in Busy' : worker'[v] = worker[v]
  BY <1>1 DEF Busy, Moved
<1>4. FoldersAhead(ahead)'
  <2>1. \A d \in worker[w].found : d \notin ahead /\ Children(d) \subseteq ahead
    BY <1>3 DEF AheadInv, WorkersAhead
  <2> QED BY <1>1, <2>1 DEF AheadInv, FoldersAhead
<1>5. \A v \in Busy' : worker[v].found \cap worker[w].found = {}
  <2> SUFFICES ASSUME NEW v \in Busy', NEW d \in worker[v].found \cap worker[w].found
               PROVE  FALSE
    OBVIOUS
  <2>1. v \in Busy /\ v \in Workers /\ v # w
    BY <1>3 DEF Busy
  <2>2. worker[v].dir # worker[w].dir
    BY <1>3, <2>1 DEF AheadInv, WorkersAhead
  <2>3. d \in Children(worker[v].dir) /\ d \in Children(worker[w].dir)
    BY <1>1, <2>1 DEF WorkerInv
  <2> QED BY <2>2, <2>3 DEF Children
<1>6. \A v \in Busy' : worker[v].dir \notin worker[w].found
  BY <1>3 DEF AheadInv, WorkersAhead
<1>7. WorkersAhead(ahead)'
  BY <1>1, <1>3, <1>5, <1>6 DEF AheadInv, WorkersAhead
<1> QED BY <1>2, <1>4, <1>7 DEF AheadInv

(* ... nor when the walk takes an entry. *)
LEMMA AheadAtResult ==
    ASSUME ScanTypes, HashTypes, PhaseInv, handling # "follow", TakeResult, walkQueue = <<>>,
           NEW ahead \in SUBSET ScanPaths, AheadInv(ahead)
    PROVE  walkQueue' = <<>> /\ AheadInv(ahead)'
<1>1. /\ main = "walking" /\ TakenFrame /\ Len(output) > 0 /\ output' = Tail(output)
      /\ output[1].path \in ScanPaths
      /\ \/ ~output[1].ok /\ Taken(output[1].path, "none", {}, <<>>)
         \/ /\ output[1].ok
            /\ \E visit : visit = Visit(output[1].path)
                   /\ Taken(output[1].path, visit.offered, visit.recorded, visit.queued)
  BY TakeResultDoes
<1>2. PICK p : p = output[1].path
  OBVIOUS
<1>3. /\ walkQueue' = walkQueue \/ walkQueue' = walkQueue \o <<>>
      /\ \A q \in ScanPaths : Held(q)' => Held(q) \/ (q = p /\ output[1].ok)
  <2>1. CASE ~output[1].ok /\ Taken(p, "none", {}, <<>>)
    BY <2>1 DEF Taken, IsWanted
  <2>2. CASE /\ output[1].ok
             /\ \E visit : visit = Visit(p) /\ Taken(p, visit.offered, visit.recorded, visit.queued)
    <3>1. PICK o, r, k : o = Visit(p).offered /\ r = Visit(p).recorded /\ k = Visit(p).queued
      OBVIOUS
    <3>2. Taken(p, o, r, k) /\ p \in ScanPaths
      BY <1>1, <1>2, <2>2, <3>1
    <3>3. k = <<>> \/ p \in FileLinks
      BY <3>1, <3>2, VisitIs DEF IsVisit
    <3>4. k = <<>>
      BY <3>3 DEF FileLinks
    <3> QED BY <2>2, <3>2, <3>4 DEF Taken
  <2> QED BY <1>1, <1>2, <2>1, <2>2
<1>4. walkQueue' = <<>>
  BY <1>3
<1>5. Busy' = Busy /\ UNCHANGED <<worker, unstartedDirs>>
  BY <1>1 DEF TakenFrame, Busy
<1>6. FoldersAhead(ahead)' /\ WorkersAhead(ahead)'
  BY <1>5 DEF AheadInv, FoldersAhead, WorkersAhead
<1>7. EntriesBehind(ahead)'
  <2>1. /\ \A q : Coming(q)' => Coming(q)
        /\ output[1].ok => Coming(p)
        /\ ComesOnce'
        /\ \A q : output[1].ok /\ q = p => ~Coming(q)'
    BY <1>1, <1>2, ComingAtTail DEF AheadInv, EntriesBehind
  <2> QED BY <1>1, <1>2, <1>3, <2>1 DEF AheadInv, EntriesBehind
<1> QED BY <1>4, <1>6, <1>7 DEF AheadInv

(* Every step of a scan that follows no links keeps it to one walk.        *)
LEMMA OnceStep ==
    ASSUME ScanTypes, HashTypes, WorkerInv, PhaseInv, OnceInv, LSNext
    PROVE  OnceInv'
<1> SUFFICES ASSUME recursive', handling' # "follow"
             PROVE  BeforeWalk' \/ (walkQueue' = <<>> /\ \E ahead \in SUBSET ScanPaths : AheadInv(ahead)')
  BY DEF OnceInv
<1>1. UNCHANGED scanOptions
  BY StepKinds, CrawlStepDoes, HashStepDoes, StartWalkDoes, TakenIs, EndsDo, ListEntryDoes
     DEF CrawlFrame, HashFrame, StartFrame, TakenFrame, EndFrame, ListFrame
<1>2. recursive /\ handling # "follow"
  BY <1>1 DEF scanOptions
<1>3. BeforeWalk \/ (walkQueue = <<>> /\ \E ahead \in SUBSET ScanPaths : AheadInv(ahead))
  BY <1>2 DEF OnceInv
<1>4. CASE BeforeWalk
  <2>1. ~CrawlStep /\ main = "next" /\ walkQueue # <<>>
    BY <1>4, CrawlStepDoes DEF BeforeWalk
  <2>2. CASE HashStep
    <3>1. HashFrame /\ \A q \in ScanPaths : Held(q)' => Held(q)
      BY <2>2, HashStepDoes DEF PassedOn
    <3>2. Quiet' <=> Quiet
      BY <3>1 DEF Quiet, HashFrame, crawlVars
    <3> QED BY <1>4, <3>1, <3>2 DEF BeforeWalk, HashFrame, walkVars, crawlVars
  <2>3. CASE StartWalk
    BY <1>4, <2>3, OnlyWalkBegins
  <2>4. ~TakeResult
    BY <2>1, TakenIs
  <2>5. ~(EndWalk \/ EndWalks \/ EndFlatListing \/ Finalize)
    BY <2>1, EndsDo
  <2>6. ~\E p \in toList : ListEntry(p)
    BY <2>1, ListEntryDoes
  <2> QED BY <2>1, <2>2, <2>3, <2>4, <2>5, <2>6, StepKinds
<1>5. CASE walkQueue = <<>> /\ \E ahead \in SUBSET ScanPaths : AheadInv(ahead)
  <2>1. PICK ahead \in SUBSET ScanPaths : AheadInv(ahead)
    BY <1>5
  <2>2. CASE CrawlStep
    <3>1. UNCHANGED walkQueue
      BY <2>2, CrawlStepDoes DEF CrawlFrame, walkVars
    <3>2. PICK w \in Workers :
             TakeDirectory(w) \/ ReadDirectory(w) \/ FinishDirectory(w)
             \/ \E p \in worker[w].remaining : PutEntry(w, p)
      BY <2>2 DEF CrawlStep
    <3>3. AheadInv(ahead)' \/ \E p \in worker[w].remaining : AheadInv(ahead \ {p})'
      BY <2>1, <3>2, AheadAtTake, AheadAtRead, AheadAtPut, AheadAtFinish
    <3>4. \A p : ahead \ {p} \in SUBSET ScanPaths
      OBVIOUS
    <3> QED BY <1>5, <3>1, <3>3, <3>4
  <2>3. CASE HashStep
    <3>1. HashFrame /\ \A q \in ScanPaths : Held(q)' => Held(q)
      BY <2>3, HashStepDoes DEF PassedOn
    <3>2. AheadInv(ahead)' /\ UNCHANGED walkQueue
      BY <2>1, <3>1, AheadStays DEF HashFrame, walkVars, crawlVars
    <3> QED BY <1>5, <3>2
  <2>4. ~StartWalk
    BY <1>5, StartWalkDoes
  <2>5. CASE TakeResult
    BY <1>2, <1>5, <2>1, <2>5, AheadAtResult
  <2>6. CASE EndWalk \/ EndWalks \/ EndFlatListing \/ Finalize
    <3>1. /\ EndFrame /\ main' # "walking"
          /\ \A q \in ScanPaths : Held(q)' => Held(q)
      BY <2>6, EndsDo
    <3>2. AheadInv(ahead)' /\ UNCHANGED walkQueue
      BY <2>1, <3>1, AheadStays DEF EndFrame, crawlVars
    <3> QED BY <1>5, <3>2
  <2>7. ~\E p \in toList : ListEntry(p)
    BY <1>2, ListEntryDoes DEF PhaseInv
  <2> QED BY <2>2, <2>3, <2>4, <2>5, <2>6, <2>7, StepKinds
<1> QED BY <1>3, <1>4, <1>5

(* A scan in which nothing has gone wrong was so before. *)
LEMMA FineBefore ==
    ASSUME ScanTypes, HashTypes, WorkerInv, CountInv, PhaseInv, ErrorInv, LSNext, Fine'
    PROVE  Fine
<1>1. CASE CrawlStep
  BY <1>1, CrawlStepDoes DEF Fine, CrawlFrame, walkVars, hashVars
<1>2. CASE HashStep
  BY <1>2, HashStepDoes DEF Fine, HashFrame, walkVars, CountInv
<1>3. CASE StartWalk
  <2>1. StartFrame /\ (stopped' = stopped \/ stopped')
    BY <1>3, StartWalkDoes
  <2> QED BY <2>1 DEF Fine, StartFrame
<1>4. CASE TakeResult
  BY <1>4, TakenIs DEF Fine, TakenFrame
<1>5. CASE EndWalk \/ EndWalks \/ EndFlatListing \/ Finalize
  <2>1. /\ EndFrame
        /\ immediateStopHashing' = immediateStopHashing \/ main = "flat"
    BY <1>5, EndsDo
  <2> QED BY <2>1 DEF Fine, EndFrame, ErrorInv, outcomeVars
<1>6. CASE \E p \in toList : ListEntry(p)
  <2>1. ListFrame /\ (immediateStopHashing' = immediateStopHashing \/ immediateStopHashing' = TRUE)
    BY <1>6, ListEntryDoes
  <2> QED BY <2>1 DEF Fine, ListFrame
<1> QED BY <1>1, <1>2, <1>3, <1>4, <1>5, <1>6, StepKinds

(* What a step leaves accounted for: what is held and what is coming, ...   *)
HoldsOn(after) ==
    /\ UNCHANGED scanOptions
    /\ \A q \in ScanPaths : Held(q) => Held(q)'
    /\ \A q \in ScanPaths \ ScanDirs : Coming(q) => Coming(q)' \/ IsHandled(q, after)'

(* ... what the workers have listed, ...                                   *)
ListsOn(after) ==
    \A w \in Workers : worker'[w].at = "listing" =>
       \A p \in Children(worker'[w].dir) \ worker'[w].remaining :
          \/ worker[w].at = "listing" /\ p \in Children(worker[w].dir) \ worker[w].remaining
          \/ IsCared(p, after)'

(* ... the folders that were read ...                                      *)
ReadOn(more, read) ==
    \A d \in more : d \in read \/ \E w \in Workers :
       worker[w].at = "listing" /\ worker[w].remaining = {} /\ worker[w].dir = d

(* ... and the folders that are known.                                     *)
KnownIn(after) ==
    /\ \A i \in 1 .. Len(output) : output[i].path \in ScanDirs => output[i].path \in after
    /\ seenPaths \cap ScanDirs \subseteq after
    /\ \A p \in seenPaths \cap ScanFiles : Held(p)

(* What is accounted for stays so. *)
LEMMA AccountKept ==
    ASSUME NEW read \in SUBSET ScanDirs, NEW known, Accounted(read, known),
           NEW more \in SUBSET ScanDirs, NEW after, known \subseteq after,
           HoldsOn(after), ListsOn(after), ReadOn(more, read), KnownIn(after)'
    PROVE  Accounted(more, after)'
<1>1. ASSUME NEW p \in ScanPaths, IsHandled(p, known)
      PROVE  IsHandled(p, after)'
  BY <1>1 DEF IsHandled, scanOptions, FileLinks, HoldsOn
<1>2. ASSUME NEW p \in ScanPaths, IsCared(p, known)
      PROVE  IsCared(p, after)'
  BY <1>1, <1>2 DEF IsCared, HoldsOn
<1>3. \A d : \A p \in Children(d) : p \in ScanPaths
  BY DEF Children
<1>4. \A d \in more : \A p \in Children(d) : IsCared(p, after)'
  <2> SUFFICES ASSUME NEW d \in more, NEW p \in Children(d)
               PROVE  IsCared(p, after)'
    OBVIOUS
  <2>1. IsCared(p, known)
    BY DEF Accounted, ReadOn
  <2> QED BY <1>2, <1>3, <2>1
<1>5. \A w \in Workers : worker'[w].at = "listing" =>
          \A p \in Children(worker'[w].dir) \ worker'[w].remaining : IsCared(p, after)'
  <2> SUFFICES ASSUME NEW w \in Workers, worker'[w].at = "listing",
                      NEW p \in Children(worker'[w].dir) \ worker'[w].remaining
               PROVE  IsCared(p, after)'
    OBVIOUS
  <2>1. CASE worker[w].at = "listing" /\ p \in Children(worker[w].dir) \ worker[w].remaining
    <3>1. IsCared(p, known) /\ p \in ScanPaths
      BY <1>3, <2>1 DEF Accounted
    <3> QED BY <1>2, <3>1
  <2> QED BY <2>1 DEF ListsOn
<1>6. ScanRoot \in after
  BY DEF Accounted
<1> QED BY <1>4, <1>5, <1>6 DEF Accounted, KnownIn

(* The folders that are in hand. *)
LEMMA InHandFrom ==
    ASSUME NEW known, unstartedDirs \subseteq known,
           \A w \in Workers : worker[w].at \in {"reading", "listing"} => worker[w].dir \in known,
           \A w \in Workers : worker[w].found \subseteq known
    PROVE  InHand \subseteq known
BY DEF InHand, Busy

(* What is in hand, ... *)
LEMMA InHandHas ==
    /\ unstartedDirs \subseteq InHand
    /\ \A w \in Workers : worker[w].at \in {"reading", "listing"} => worker[w].dir \in InHand
    /\ \A w \in Workers : worker[w].found \subseteq InHand
BY DEF InHand, Busy

(* ... and what is after a step. *)
LEMMA InHandHasAfter ==
    /\ unstartedDirs' \subseteq InHand'
    /\ \A w \in Workers : worker'[w].at \in {"reading", "listing"} => worker'[w].dir \in InHand'
    /\ \A w \in Workers : worker'[w].found \subseteq InHand'
BY DEF InHand, Busy

(* A step that keeps these keeps the walk accounted for. *)
LEMMA AccountGoesOn ==
    ASSUME NEW read \in SUBSET ScanDirs, NEW known, Accounted(read, known),
           NEW more \in SUBSET ScanDirs, NEW after, after = Known(more)', known \subseteq after,
           HoldsOn(after), ListsOn(after), ReadOn(more, read), KnownIn(after)'
    PROVE  WalkAccounted'
<1>1. Accounted(more, after)'
  BY AccountKept
<1>2. Accounted(more, Known(more))'
  BY <1>1 DEF Accounted
<1> QED BY <1>2 DEF WalkAccounted

(* A crawl worker leaves what is held and what was seen as it is. *)
LEMMA CrawlGoesOn ==
    ASSUME ScanTypes, WorkerInv, CrawlStep,
           NEW read \in SUBSET ScanDirs, NEW known, known = Known(read), Accounted(read, known),
           NEW more \in SUBSET ScanDirs, read \subseteq more,
           NEW after, after = Known(more)', InHand \subseteq after,
           \A q \in ScanPaths \ ScanDirs : Coming(q) => Coming(q)',
           ListsOn(after), ReadOn(more, read),
           \A i \in 1 .. Len(output') : output'[i].path \in ScanDirs =>
              \/ \E j \in 1 .. Len(output) : output'[i].path = output[j].path
              \/ output'[i].path \in after
    PROVE  WalkAccounted'
<1>1. /\ UNCHANGED <<scanOptions, walkQueue, seenPaths>>
      /\ \A q \in ScanPaths : Held(q)' <=> Held(q)
  BY CrawlStepDoes DEF CrawlFrame, walkVars
<1>2. known \subseteq after
  BY <1>1 DEF Known, InQueue
<1>3. HoldsOn(after)
  BY <1>1 DEF HoldsOn, scanOptions
<1>4. KnownIn(after)'
  <2>1. ScanFiles \subseteq ScanPaths
    BY DEF ScanPaths
  <2>2. \A p \in seenPaths' \cap ScanFiles : Held(p)'
    BY <1>1, <2>1 DEF Accounted
  <2>3. seenPaths' \cap ScanDirs \subseteq after
    BY <1>1, <1>2 DEF Accounted
  <2>4. \A i \in 1 .. Len(output') : output'[i].path \in ScanDirs => output'[i].path \in after
    BY <1>2 DEF Accounted
  <2> QED BY <2>2, <2>3, <2>4 DEF KnownIn
<1> QED BY <1>2, <1>3, <1>4, AccountGoesOn

(* A crawl worker keeps the walk accounted for: what it drops it has reported. *)
LEMMA AccountAtCrawl ==
    ASSUME ScanTypes, HashTypes, WorkerInv, PhaseInv, CrawlStep, Fine, Fine', AllRead',
           WalkAccounted
    PROVE  WalkAccounted'
<1>1. PICK read \in SUBSET ScanDirs : Accounted(read, Known(read))
  BY DEF WalkAccounted
<1>2. PICK w \in Workers :
           TakeDirectory(w) \/ ReadDirectory(w) \/ FinishDirectory(w)
           \/ \E p \in worker[w].remaining : PutEntry(w, p)
  BY DEF CrawlStep
<1>3. ~cancelled
  BY DEF Fine, PhaseInv
<1>4. PICK known : known = Known(read)
  OBVIOUS
<1>5. Accounted(read, known)
  BY <1>1, <1>4
<1>6. worker \in [Workers -> WorkerStates]
  BY DEF ScanTypes
<1>7. PICK hand : hand = InHand'
  OBVIOUS
<1>8. /\ unstartedDirs' \subseteq hand
      /\ \A v \in Workers : worker'[v].at \in {"reading", "listing"} => worker'[v].dir \in hand
      /\ \A v \in Workers : worker'[v].found \subseteq hand
  BY <1>7, InHandHasAfter
<1>9. ReadOn(read, read)
  BY DEF ReadOn
<1>a. PICK after : after = Known(read)'
  OBVIOUS
<1>b. hand \subseteq after
  BY <1>7, <1>a DEF Known
<1>11. CASE TakeDirectory(w)
  <2>1. /\ Moved(w) /\ worker[w].at = "idle" /\ UNCHANGED output /\ worker[w].found = {}
        /\ worker'[w].at # "listing"
        /\ \A d \in unstartedDirs : d \in unstartedDirs'
              \/ (worker'[w].at = "reading" /\ worker'[w].dir = d)
    BY <1>11, TakeDirectoryDoes DEF WorkerInv
  <2>2. InHand \subseteq hand
    <3>1. unstartedDirs \subseteq hand
      BY <1>8, <2>1
    <3>2. \A v \in Workers : worker[v].at \in {"reading", "listing"} => worker[v].dir \in hand
      BY <1>8, <2>1 DEF Moved
    <3>3. \A v \in Workers : worker[v].found \subseteq hand
      BY <1>8, <2>1 DEF Moved
    <3> QED BY <3>1, <3>2, <3>3, InHandFrom
  <2>3. ListsOn(after)
    BY <2>1 DEF ListsOn, Moved
  <2>4. \A q : Coming(q) => Coming(q)'
    BY <2>1 DEF Coming
  <2> QED BY <1>4, <1>5, <1>9, <1>a, <1>b, <2>1, <2>2, <2>3, <2>4, CrawlGoesOn
<1>12. CASE ReadDirectory(w)
  <2>1. /\ Moved(w) /\ worker[w].at = "reading" /\ worker[w].dir \in ScanDirs
        /\ UNCHANGED unstartedDirs /\ worker[w].found = {} /\ worker'[w].dir = worker[w].dir
    BY <1>12, ReadDirectoryDoes
  <2>2. /\ UNCHANGED output
        /\ worker'[w].at = "listing" => worker'[w].remaining = Children(worker'[w].dir)
        /\ worker'[w].at \in {"reading", "listing"}
    <3>1. ~Put([path |-> worker[w].dir, ok |-> FALSE])
      <4>1. worker[w].dir \in ScanPaths /\ FALSE \in BOOLEAN
        BY <2>1 DEF ScanPaths
      <4> SUFFICES ASSUME Put([path |-> worker[w].dir, ok |-> FALSE])
                   PROVE  FALSE
        OBVIOUS
      <4>2. \E i \in 1 .. Len(output') : ~output'[i].ok
        BY <1>3, <4>1, ComingAtPut
      <4> QED BY <4>2 DEF AllRead
    <3>2. unlisted' = {}
      BY DEF Fine
    <3> QED BY <1>12, <2>1, <3>1, <3>2, ReadDirectoryDoes
  <2>3. InHand \subseteq hand
    <3>1. unstartedDirs \subseteq hand
      BY <1>8, <2>1
    <3>2. \A v \in Workers : worker[v].at \in {"reading", "listing"} => worker[v].dir \in hand
      BY <1>8, <2>1, <2>2 DEF Moved
    <3>3. \A v \in Workers : worker[v].found \subseteq hand
      BY <1>8, <2>1 DEF Moved
    <3> QED BY <3>1, <3>2, <3>3, InHandFrom
  <2>4. ListsOn(after)
    BY <2>1, <2>2 DEF ListsOn, Moved
  <2>5. \A q : Coming(q) => Coming(q)'
    BY <2>2 DEF Coming
  <2> QED BY <1>4, <1>5, <1>9, <1>a, <1>b, <2>2, <2>3, <2>4, <2>5, CrawlGoesOn
<1>13. CASE \E p \in worker[w].remaining : PutEntry(w, p)
  <2>0. PICK p \in worker[w].remaining : PutEntry(w, p)
    BY <1>13
  <2>1. /\ Moved(w) /\ worker[w].at = "listing" /\ worker'[w].at = "listing"
        /\ UNCHANGED unstartedDirs /\ worker'[w].dir = worker[w].dir
        /\ worker'[w].remaining = worker[w].remaining \ {p}
        /\ worker'[w].found = worker[w].found \cup ({p} \cap ScanDirs)
        /\ p \in ScanPaths /\ Put([path |-> p, ok |-> TRUE])
    BY <2>0, PutEntryDoes
  <2>2. /\ \A q : Coming(q) => Coming(q)'
        /\ Coming(p)'
        /\ \A i \in 1 .. Len(output') : output'[i].path = p
                 \/ \E j \in 1 .. Len(output) : output'[i].path = output[j].path
    <3>1. TRUE \in BOOLEAN
      OBVIOUS
    <3> QED BY <1>3, <2>1, <3>1, ComingAtPut
  <2>3. InHand \subseteq hand
    <3>1. unstartedDirs \subseteq hand
      BY <1>8, <2>1
    <3>2. \A v \in Workers : worker[v].at \in {"reading", "listing"} => worker[v].dir \in hand
      BY <1>8, <2>1 DEF Moved
    <3>3. \A v \in Workers : worker[v].found \subseteq hand
      BY <1>8, <2>1 DEF Moved
    <3> QED BY <3>1, <3>2, <3>3, InHandFrom
  <2>4. p \in ScanDirs => p \in after
    BY <1>8, <1>b, <2>1
  <2>5. IsCared(p, after)'
    BY <2>2, <2>4 DEF IsCared
  <2>6. ListsOn(after)
    BY <2>1, <2>5 DEF ListsOn, Moved
  <2> QED BY <1>4, <1>5, <1>9, <1>a, <1>b, <2>2, <2>3, <2>4, <2>6, CrawlGoesOn
<1>14. CASE FinishDirectory(w)
  <2>1. /\ Moved(w) /\ worker[w].at = "listing" /\ UNCHANGED output /\ worker[w].remaining = {}
        /\ worker'[w].at \in {"idle", "gone"} /\ worker[w].dir \in ScanDirs
        /\ unstartedDirs' = unstartedDirs \cup worker[w].found
    BY <1>14, FinishDirectoryDoes
  <2>2. PICK more : more = read \cup {worker[w].dir}
    OBVIOUS
  <2>3. PICK beyond : beyond = Known(more)'
    OBVIOUS
  <2>4. hand \subseteq beyond /\ more \subseteq beyond
    BY <1>7, <2>3 DEF Known
  <2>5. InHand \subseteq beyond
    <3>1. unstartedDirs \subseteq beyond
      BY <1>8, <2>1, <2>4
    <3>2. \A v \in Workers : worker[v].at \in {"reading", "listing"} => worker[v].dir \in beyond
      BY <1>8, <2>1, <2>2, <2>4 DEF Moved
    <3>3. \A v \in Workers : worker[v].found \subseteq beyond
      BY <1>8, <2>1, <2>4 DEF Moved
    <3> QED BY <3>1, <3>2, <3>3, InHandFrom
  <2>6. ListsOn(beyond)
    BY <2>1 DEF ListsOn, Moved
  <2>7. \A q : Coming(q) => Coming(q)'
    BY <2>1 DEF Coming
  <2>8. ReadOn(more, read)
    BY <2>1, <2>2 DEF ReadOn
  <2>9. more \in SUBSET ScanDirs /\ read \subseteq more
    BY <2>1, <2>2
  <2> QED BY <1>4, <1>5, <2>1, <2>3, <2>5, <2>6, <2>7, <2>8, <2>9, CrawlGoesOn
<1> QED BY <1>2, <1>11, <1>12, <1>13, <1>14

(* What all was read of was so before. *)
LEMMA AllReadBefore ==
    ASSUME ScanTypes, HashTypes, WorkerInv, EntryInv, PhaseInv, LSNext, Fine, AllRead'
    PROVE  AllRead
<1>1. ASSUME reported \subseteq reported',
             \A i \in 1 .. Len(output) : i \in 1 .. Len(output') /\ output'[i] = output[i]
      PROVE  AllRead
  BY <1>1 DEF AllRead
<1>2. CASE CrawlStep
  <2>1. PICK w \in Workers : TakeDirectory(w) \/ ReadDirectory(w) \/ FinishDirectory(w)
            \/ \E p \in worker[w].remaining : PutEntry(w, p)
    BY <1>2 DEF CrawlStep
  <2>2. UNCHANGED reported
    BY <1>2, CrawlStepDoes DEF CrawlFrame
  <2>3. ASSUME NEW path \in ScanPaths, NEW ok \in BOOLEAN, Put([path |-> path, ok |-> ok])
        PROVE  AllRead
    <3>1. \A i \in 1 .. Len(output) : i \in 1 .. Len(output') /\ output'[i] = output[i]
      BY <2>3, ComingAtPut
    <3> QED BY <1>1, <2>2, <3>1
  <2>4. UNCHANGED output => AllRead
    BY <1>1, <2>2
  <2>5. CASE TakeDirectory(w)
    BY <2>4, <2>5, TakeDirectoryDoes
  <2>6. CASE ReadDirectory(w)
    <3>1. worker[w].dir \in ScanPaths /\ FALSE \in BOOLEAN
      BY <2>6, ReadDirectoryDoes, KindsApart
    <3>2. UNCHANGED output \/ Put([path |-> worker[w].dir, ok |-> FALSE])
      BY <2>6, ReadDirectoryDoes
    <3> QED BY <2>3, <2>4, <3>1, <3>2
  <2>7. CASE FinishDirectory(w)
    BY <2>4, <2>7, FinishDirectoryDoes
  <2>8. CASE \E p \in worker[w].remaining : PutEntry(w, p)
    <3>1. PICK p \in worker[w].remaining : PutEntry(w, p)
      BY <2>8
    <3>2. p \in ScanPaths /\ TRUE \in BOOLEAN /\ Put([path |-> p, ok |-> TRUE])
      BY <3>1, PutEntryDoes
    <3> QED BY <2>3, <3>2
  <2> QED BY <2>1, <2>5, <2>6, <2>7, <2>8
<1>3. CASE HashStep
  <2>1. UNCHANGED <<output, reported>>
    BY <1>3, HashStepDoes DEF HashFrame, crawlVars
  <2> QED BY <1>1, <2>1
<1>4. CASE StartWalk
  <2>1. main = "next" /\ reported \subseteq reported'
    BY <1>4, StartWalkDoes
  <2>2. output = <<>>
    BY <2>1 DEF PhaseInv, Fine
  <2> QED BY <1>1, <2>1, <2>2
<1>5. CASE TakeResult
  <2>1. /\ output[1].ok \/ reported' = reported \cup {output[1].path}
        /\ reported \subseteq reported' /\ Len(output) > 0 /\ output' = Tail(output)
    BY <1>5, TakeResultDoes
  <2>2. 1 \in 1 .. Len(output)
    BY <2>1, EntriesTyped
  <2>3. output[1].ok
    BY <2>1, <2>2 DEF EntryInv, AllRead
  <2>4. \A i \in 1 .. Len(output) : i = 1 \/ (i - 1 \in 1 .. Len(output') /\ output'[i - 1] = output[i])
    BY <2>1, ComingAtTail
  <2>5. ASSUME NEW i \in 1 .. Len(output), i # 1
        PROVE  output[i].ok
    <3>1. i - 1 \in 1 .. Len(output') /\ output'[i - 1] = output[i]
      BY <2>4, <2>5
    <3>2. \A j \in 1 .. Len(output') : output'[j].ok
      BY DEF AllRead
    <3> QED BY <3>1, <3>2
  <2> QED BY <2>1, <2>3, <2>5 DEF AllRead
<1>6. CASE EndWalk \/ EndWalks \/ EndFlatListing \/ Finalize
  <2>1. UNCHANGED <<output, reported>>
    BY <1>6, EndsDo DEF EndFrame, crawlVars, outcomeVars
  <2> QED BY <1>1, <2>1
<1>7. CASE \E p \in toList : ListEntry(p)
  <2>1. UNCHANGED <<output, reported>>
    BY <1>7, ListEntryDoes DEF ListFrame, crawlVars
  <2> QED BY <1>1, <2>1
<1> QED BY <1>2, <1>3, <1>4, <1>5, <1>6, <1>7, StepKinds

(* What neither reads nor finds anything leaves the walk accounted for. *)
LEMMA AccountUnmoved ==
    ASSUME UNCHANGED <<scanOptions, walkQueue, seenPaths, worker, unstartedDirs, output>>,
           \A q \in ScanPaths : Held(q)' <=> Held(q), WalkAccounted
    PROVE  WalkAccounted'
<1>1. PICK read \in SUBSET ScanDirs : Accounted(read, Known(read))
  BY DEF WalkAccounted
<1>2. PICK known : known = Known(read)
  OBVIOUS
<1>3. Accounted(read, known)
  BY <1>1, <1>2
<1>4. known = Known(read)'
  BY <1>2 DEF Known, InQueue, InHand, Busy
<1>5. HoldsOn(known)
  BY DEF HoldsOn, scanOptions, Coming
<1>6. ListsOn(known) /\ ReadOn(read, read)
  BY DEF ListsOn, ReadOn
<1>7. KnownIn(known)'
  <2>1. ScanFiles \subseteq ScanPaths
    BY DEF ScanPaths
  <2> QED BY <1>3, <2>1 DEF Accounted, KnownIn
<1> QED BY <1>3, <1>4, <1>5, <1>6, <1>7, AccountGoesOn

(* A walk that is begun has its root in hand. *)
LEMMA AccountAtStart ==
    ASSUME ScanTypes, HashTypes, WorkerInv, PhaseInv, StartWalk, Fine, Fine', WalkAccounted
    PROVE  WalkAccounted'
<1>1. PICK read \in SUBSET ScanDirs : Accounted(read, Known(read))
  BY DEF WalkAccounted
<1>2. PICK known : known = Known(read)
  OBVIOUS
<1>3. Accounted(read, known)
  BY <1>1, <1>2
<1>4. PICK after : after = Known(read)'
  OBVIOUS
<1>5. PICK root : root = walkQueue[1]
  OBVIOUS
<1>6. /\ StartFrame /\ main = "next" /\ Quiet /\ Len(walkQueue) > 0 /\ walkQueue' = Tail(walkQueue)
      /\ root \in ScanDirs /\ output' = <<>> /\ seenPaths' \subseteq seenPaths \cup {root}
      /\ unstartedDirs' = {root} /\ worker' = [w \in Workers |-> Waiting]
      /\ \A q \in ScanPaths : Held(q) => Held(q)'
  BY <1>5, StartWalkDoes DEF Fine
<1>7. unstartedDirs = {} /\ output = <<>>
  BY <1>6 DEF PhaseInv, Fine
<1>8. InHand = {}
  <2>1. \A w \in Workers : worker[w].at = "gone" /\ worker[w].found = {}
    BY <1>6 DEF Quiet, WorkerInv
  <2> QED BY <1>7, <2>1 DEF InHand, Busy
<1>9. InQueue \subseteq InQueue' \cup {root}
  <2>1. walkQueue \in Seq(ScanDirs) /\ walkQueue # <<>>
    BY <1>6 DEF ScanTypes
  <2>2. /\ Len(walkQueue) \in Nat /\ Len(walkQueue') = Len(walkQueue) - 1
        /\ \A i \in 1 .. Len(walkQueue') : walkQueue'[i] = walkQueue[i + 1]
    BY <1>6, <2>1, HeadAndTail
  <2>3. ASSUME NEW i \in 1 .. Len(walkQueue), i # 1
        PROVE  walkQueue[i] \in InQueue'
    <3>1. i - 1 \in 1 .. Len(walkQueue') /\ (i - 1) + 1 = i
      BY <2>2, <2>3
    <3>2. walkQueue'[i - 1] = walkQueue[i]
      BY <2>2, <3>1
    <3> QED BY <3>1, <3>2 DEF InQueue
  <2> QED BY <1>5, <2>3 DEF InQueue
<1>10. root \in after
  BY <1>4, <1>6 DEF Known, InHand
<1>11. known \subseteq after
  BY <1>2, <1>4, <1>8, <1>9, <1>10 DEF Known
<1>12. HoldsOn(after)
  BY <1>6, <1>7 DEF HoldsOn, StartFrame, Coming
<1>13. ListsOn(after)
  <2>1. \A w \in Workers : worker'[w].at = "idle"
    BY <1>6 DEF Waiting, Resting
  <2> QED BY <2>1 DEF ListsOn
<1>14. ReadOn(read, read)
  BY DEF ReadOn
<1>15. KnownIn(after)'
  <2>1. ScanFiles \subseteq ScanPaths
    BY DEF ScanPaths
  <2>2. seenPaths' \cap ScanDirs \subseteq after
    BY <1>3, <1>6, <1>10, <1>11 DEF Accounted
  <2>3. \A p \in seenPaths' \cap ScanFiles : Held(p)'
    BY <1>3, <1>6, <2>1, KindsApart DEF Accounted
  <2> QED BY <1>6, <2>2, <2>3 DEF KnownIn
<1> QED BY <1>3, <1>4, <1>11, <1>12, <1>13, <1>14, <1>15, AccountGoesOn

(* What the walk function makes of an entry leaves it handled. *)
LEMMA TakenIsHandled ==
    ASSUME ScanTypes, NEW p \in ScanPaths, p \notin ScanDirs, NEW visit, visit = Visit(p),
           NEW known, NEW after, known \subseteq after,
           seenPaths \cap ScanDirs \subseteq known, \A q \in seenPaths \cap ScanFiles : Held(q),
           Taken(p, visit.offered, visit.recorded, visit.queued), ~stopped',
           UNCHANGED handling,
           InQueue' \subseteq after
    PROVE  IsHandled(p, after)'
<1>1. /\ walkQueue' = IF IsWanted(p, visit.offered) THEN walkQueue \o visit.queued ELSE walkQueue
      /\ \A q \in ScanPaths : Held(q)' <=> Held(q) \/ (q = p /\ IsWanted(p, visit.offered))
  BY DEF Taken
<1>2. FileLinks' = FileLinks
  BY DEF FileLinks
<1>3. p \in ScanLinks \/ p \in ScanFiles
  BY DEF ScanPaths
<1>4. CASE IsPassedOver(p)
  <2>1. CASE p \notin ScanLinks
    <3>1. Held(p)'
      BY <1>1, <1>3, <1>4, <2>1 DEF IsPassedOver, HasSeen
    <3> QED BY <2>1, <3>1 DEF IsHandled
  <2>2. CASE p \in ScanLinks /\ handling = "skip"
    BY <2>2 DEF IsHandled
  <2>3. CASE p \in ScanLinks /\ handling = "follow" /\ LinkTo[p] = Nowhere
    <3>1. LinkTo[p] \notin ScanFiles /\ LinkTo[p] \notin ScanDirs
      BY <2>3, ScanAssumption DEF ScanPaths
    <3> QED BY <2>3, <3>1 DEF IsHandled
  <2>4. CASE p \in ScanLinks /\ handling = "follow" /\ LinkTo[p] \in ScanDirs \cap seenPaths
    <3>1. LinkTo[p] \notin ScanFiles /\ LinkTo[p] \in after
      BY <2>4, KindsApart
    <3> QED BY <2>4, <3>1 DEF IsHandled
  <2> QED BY <1>3, <1>4, <2>1, <2>2, <2>3, <2>4 DEF IsPassedOver
<1>5. CASE p \in Excluded
  BY <1>5 DEF IsHandled
<1>6. CASE p \notin Excluded /\ p \notin ScanLinks /\ IsVisit(visit, KindOf(p), {p}, <<>>)
  <2>1. IsWanted(p, visit.offered)
    BY <1>6 DEF IsWanted, IsVisit, KindOf
  <2> QED BY <1>1, <1>6, <2>1 DEF IsHandled
<1>7. CASE p \notin Excluded /\ p \in ScanLinks /\ handling = "preserve"
           /\ IsVisit(visit, "symlink", {p}, <<>>)
  <2>1. IsWanted(p, visit.offered)
    BY <1>7 DEF IsWanted, IsVisit
  <2> QED BY <1>1, <1>7, <2>1 DEF IsHandled
<1>8. CASE p \notin Excluded /\ p \in FileLinks /\ IsVisit(visit, "file", {}, <<>>)
  <2>1. IsWanted(p, visit.offered)
    BY <1>8 DEF IsWanted, IsVisit
  <2> QED BY <1>1, <1>2, <1>8, <2>1 DEF IsHandled
<1>9. CASE /\ p \notin Excluded /\ p \in ScanLinks /\ handling = "follow" /\ LinkTo[p] \in ScanDirs \ seenPaths
           /\ IsVisit(visit, "folder", {LinkTo[p], p}, <<LinkTo[p]>>)
  <2>1. PICK target : target = LinkTo[p]
    OBVIOUS
  <2>2. walkQueue' = walkQueue \o <<target>>
    BY <1>1, <1>9, <2>1 DEF IsWanted, IsVisit
  <2>3. walkQueue \in Seq(ScanDirs) /\ target \in ScanDirs
    BY <1>9, <2>1 DEF ScanTypes
  <2>4. /\ Len(walkQueue') \in Nat /\ Len(walkQueue') = Len(walkQueue) + 1 /\ Len(walkQueue) \in Nat
        /\ walkQueue'[Len(walkQueue')] = target
    BY ONLY <2>2, <2>3
  <2>5. Len(walkQueue') \in 1 .. Len(walkQueue')
    BY <2>4
  <2>6. target \in after
    BY <2>4, <2>5 DEF InQueue
  <2> QED BY <1>9, <2>1, <2>6, KindsApart DEF IsHandled
<1> QED BY <1>4, <1>5, <1>6, <1>7, <1>8, <1>9, VisitIs

(* What it remembers of an entry is known. *)
LEMMA TakenIsKnown ==
    ASSUME ScanTypes, NEW p \in ScanPaths, NEW visit, visit = Visit(p),
           NEW known, NEW after, known \subseteq after,
           seenPaths \cap ScanDirs \subseteq known, \A q \in seenPaths \cap ScanFiles : Held(q),
           p \in ScanDirs => p \in known,
           Taken(p, visit.offered, visit.recorded, visit.queued), ~stopped',
           InQueue' \subseteq after
    PROVE  /\ seenPaths' \cap ScanDirs \subseteq after
           /\ \A q \in seenPaths' \cap ScanFiles : Held(q)'
<1>1. /\ seenPaths' = IF IsWanted(p, visit.offered) THEN seenPaths \cup visit.recorded ELSE seenPaths
      /\ walkQueue' = IF IsWanted(p, visit.offered) THEN walkQueue \o visit.queued ELSE walkQueue
      /\ \A q \in ScanPaths : Held(q)' <=> Held(q) \/ (q = p /\ IsWanted(p, visit.offered))
  BY DEF Taken
<1>2. ScanFiles \subseteq ScanPaths /\ ScanLinks \cap (ScanDirs \cup ScanFiles) = {}
  BY ScanAssumption DEF ScanPaths
<1>3. /\ \A q \in seenPaths \cap ScanFiles : Held(q)'
      /\ seenPaths \cap ScanDirs \subseteq after
  BY <1>1, <1>2
<1>4. CASE visit.offered = "none" \/ visit.recorded = {}
  BY <1>1, <1>3, <1>4 DEF IsWanted
<1>5. CASE visit.recorded = {p}
  BY <1>1, <1>2, <1>3, <1>5
<1>6. CASE p \in ScanLinks /\ visit.recorded = {p}
  BY <1>1, <1>2, <1>3, <1>6
<1>7. CASE /\ p \in ScanLinks /\ LinkTo[p] \in ScanDirs
           /\ IsVisit(visit, "folder", {LinkTo[p], p}, <<LinkTo[p]>>)
  <2>1. PICK target : target = LinkTo[p]
    OBVIOUS
  <2>2. CASE IsWanted(p, visit.offered)
    <3>1. walkQueue' = walkQueue \o <<target>> /\ seenPaths' = seenPaths \cup {target, p}
      BY <1>1, <1>7, <2>1, <2>2 DEF IsVisit
    <3>2. walkQueue \in Seq(ScanDirs) /\ target \in ScanDirs
      BY <1>7, <2>1 DEF ScanTypes
    <3>3. /\ Len(walkQueue') \in Nat /\ Len(walkQueue') = Len(walkQueue) + 1
          /\ Len(walkQueue) \in Nat
          /\ walkQueue'[Len(walkQueue')] = target
      BY ONLY <3>1, <3>2
    <3>4. Len(walkQueue') \in 1 .. Len(walkQueue')
      BY <3>3
    <3>5. target \in after
      BY <3>3, <3>4 DEF InQueue
    <3> QED BY <1>2, <1>3, <1>7, <3>1, <3>2, <3>5, KindsApart
  <2>3. CASE ~IsWanted(p, visit.offered)
    BY <1>1, <1>3, <2>3
  <2> QED BY <2>2, <2>3
<1> QED BY <1>4, <1>5, <1>6, <1>7, VisitIs DEF IsVisit

(* An entry that is taken stays accounted for. *)
LEMMA AccountAtResult ==
    ASSUME ScanTypes, HashTypes, EntryInv, PhaseInv, TakeResult, Fine', AllRead', WalkAccounted
    PROVE  WalkAccounted'
<1>1. PICK read \in SUBSET ScanDirs : Accounted(read, Known(read))
  BY DEF WalkAccounted
<1>2. PICK known : known = Known(read)
  OBVIOUS
<1>3. Accounted(read, known)
  BY <1>1, <1>2
<1>4. PICK after : after = Known(read)'
  OBVIOUS
<1>5. PICK p : p = output[1].path
  OBVIOUS
<1>6. /\ TakenFrame /\ Len(output) > 0 /\ output' = Tail(output) /\ p \in ScanPaths
      /\ reported \subseteq reported'
      /\ \/ ~output[1].ok /\ reported' = reported \cup {p}
         \/ /\ output[1].ok
            /\ \E visit : visit = Visit(p) /\ Taken(p, visit.offered, visit.recorded, visit.queued)
  BY <1>5, TakeResultDoes
<1>7. 1 \in 1 .. Len(output)
  BY <1>6, EntriesTyped
<1>8. output[1].ok
  BY <1>5, <1>6, <1>7 DEF EntryInv, AllRead
<1>9. PICK visit : visit = Visit(p)
  OBVIOUS
<1>10. Taken(p, visit.offered, visit.recorded, visit.queued) /\ ~stopped'
  BY <1>6, <1>8, <1>9 DEF Fine
<1>11. InQueue \subseteq InQueue'
  <2>1. walkQueue' = walkQueue \/ walkQueue' = walkQueue \o <<LinkTo[p]>> \/ walkQueue' = walkQueue \o <<>>
    BY <1>6, <1>9, <1>10, VisitIs DEF Taken, IsVisit
  <2>2. walkQueue \in Seq(ScanDirs)
    BY DEF ScanTypes
  <2>3. ASSUME NEW target, walkQueue' = walkQueue \o <<target>>
        PROVE  \A i \in 1 .. Len(walkQueue) : i \in 1 .. Len(walkQueue') /\ walkQueue'[i] = walkQueue[i]
    BY ONLY <2>2, <2>3
  <2>4. walkQueue' = walkQueue \o <<>> => walkQueue' = walkQueue
    BY ONLY <2>2
  <2>5. walkQueue' = walkQueue \/
           \A i \in 1 .. Len(walkQueue) : i \in 1 .. Len(walkQueue') /\ walkQueue'[i] = walkQueue[i]
    BY <2>1, <2>3, <2>4
  <2> QED BY <2>5 DEF InQueue
<1>12. InHand' = InHand
  BY <1>6 DEF InHand, Busy, TakenFrame
<1>13. known \subseteq after /\ InQueue' \subseteq after
  BY <1>2, <1>4, <1>11, <1>12 DEF Known
<1>14. /\ seenPaths \cap ScanDirs \subseteq known /\ \A q \in seenPaths \cap ScanFiles : Held(q)
       /\ p \in ScanDirs => p \in known
  BY <1>3, <1>5, <1>7 DEF Accounted
<1>15. \A q \in ScanPaths : Held(q) => Held(q)'
  BY <1>10 DEF Taken
<1>16. UNCHANGED handling
  BY <1>6 DEF TakenFrame, scanOptions
<1>17. p \notin ScanDirs => IsHandled(p, after)'
  BY <1>6, <1>9, <1>10, <1>13, <1>14, <1>16, TakenIsHandled
<1>18. /\ seenPaths' \cap ScanDirs \subseteq after
       /\ \A q \in seenPaths' \cap ScanFiles : Held(q)'
  BY <1>6, <1>9, <1>10, <1>13, <1>14, TakenIsKnown
<1>19. HoldsOn(after)
  <2>1. \A q : Coming(q) => Coming(q)' \/ q = p
    BY <1>5, <1>6, ComingAtTail
  <2> QED BY <1>6, <1>15, <1>17, <2>1 DEF HoldsOn, TakenFrame
<1>20. ListsOn(after) /\ ReadOn(read, read)
  BY <1>6 DEF ListsOn, ReadOn, TakenFrame
<1>21. KnownIn(after)'
  <2>1. \A i \in 1 .. Len(output') : i + 1 \in 1 .. Len(output) /\ output'[i] = output[i + 1]
    BY <1>6, ComingAtTail
  <2>2. \A i \in 1 .. Len(output') : output'[i].path \in ScanDirs => output'[i].path \in after
    BY <1>3, <1>13, <2>1 DEF Accounted
  <2> QED BY <1>18, <2>2 DEF KnownIn
<1> QED BY <1>3, <1>4, <1>13, <1>19, <1>20, <1>21, AccountGoesOn

(* What was read is accounted for by every step of a scan with recursion, ... *)
LEMMA WalkStep ==
    ASSUME ScanTypes, HashTypes, CountInv, WorkerInv, EntryInv, PhaseInv, ErrorInv,
           WalkIsAccounted, LSNext
    PROVE  WalkIsAccounted'
<1> SUFFICES ASSUME recursive', Fine', AllRead'
             PROVE  WalkAccounted'
  BY DEF WalkIsAccounted
<1>1. UNCHANGED scanOptions
  BY StepKinds, CrawlStepDoes, HashStepDoes, StartWalkDoes, TakenIs, EndsDo, ListEntryDoes
     DEF CrawlFrame, HashFrame, StartFrame, TakenFrame, EndFrame, ListFrame
<1>2. recursive /\ Fine /\ AllRead
  BY <1>1, FineBefore, AllReadBefore DEF scanOptions
<1>3. WalkAccounted
  BY <1>2 DEF WalkIsAccounted
<1>4. CASE CrawlStep
  BY <1>2, <1>3, <1>4, AccountAtCrawl
<1>5. CASE HashStep
  <2>1. hashErrors' = 0 /\ hashErrors \in Nat /\ ~immediateStopHashing
    BY <1>2 DEF Fine, CountInv
  <2>2. HashFrame /\ \A q \in ScanPaths : Held(q) <=> Held(q)'
    BY <1>5, <2>1, HashStepDoes DEF PassedOn
  <2> QED BY <1>3, <2>2, AccountUnmoved DEF HashFrame, walkVars, crawlVars
<1>6. CASE StartWalk
  BY <1>2, <1>3, <1>6, AccountAtStart
<1>7. CASE TakeResult
  BY <1>3, <1>7, AccountAtResult
<1>8. CASE EndWalk \/ EndWalks \/ EndFlatListing \/ Finalize
  <2>1. EndFrame /\ \A q \in ScanPaths : Held(q)' <=> Held(q)
    BY <1>8, EndsDo
  <2> QED BY <1>3, <2>1, AccountUnmoved DEF EndFrame, crawlVars
<1>9. CASE \E p \in toList : ListEntry(p)
  <2>1. main = "flat"
    BY <1>9, ListEntryDoes
  <2> QED BY <1>2, <2>1 DEF PhaseInv
<1> QED BY <1>4, <1>5, <1>6, <1>7, <1>8, <1>9, StepKinds

(* ... and what was listed by every step of one without. *)
LEMMA ListStep ==
    ASSUME ScanTypes, HashTypes, CountInv, WorkerInv, PhaseInv, ErrorInv, ListIsAccounted, LSNext
    PROVE  ListIsAccounted'
<1> SUFFICES ASSUME ~recursive', Fine'
             PROVE  \A p \in Children(ScanRoot) \ toList' :
                       \/ p \in ScanDirs \/ p \in Excluded \/ Held(p)'
                       \/ p \in ScanLinks /\ handling' = "skip"
  BY DEF ListIsAccounted
<1>1. UNCHANGED scanOptions
  BY StepKinds, CrawlStepDoes, HashStepDoes, StartWalkDoes, TakenIs, EndsDo, ListEntryDoes
     DEF CrawlFrame, HashFrame, StartFrame, TakenFrame, EndFrame, ListFrame
<1>2. ~recursive /\ Fine /\ UNCHANGED handling
  BY <1>1, FineBefore DEF scanOptions
<1>3. \A p \in Children(ScanRoot) \ toList :
         \/ p \in ScanDirs \/ p \in Excluded \/ Held(p)
         \/ p \in ScanLinks /\ handling = "skip"
  BY <1>2 DEF ListIsAccounted
<1>4. Children(ScanRoot) \subseteq ScanPaths
  BY DEF Children
<1>5. CASE CrawlStep \/ StartWalk \/ TakeResult
  BY <1>2, <1>5, CrawlStepDoes, StartWalkDoes, TakenIs DEF PhaseInv
<1>6. CASE HashStep
  <2>1. hashErrors' = 0 /\ hashErrors \in Nat /\ ~immediateStopHashing
    BY <1>2 DEF Fine, CountInv
  <2>2. HashFrame /\ \A q \in ScanPaths : Held(q) <=> Held(q)'
    BY <1>6, <2>1, HashStepDoes DEF PassedOn
  <2> QED BY <1>2, <1>3, <1>4, <2>2 DEF HashFrame, walkVars
<1>7. CASE EndWalk \/ EndWalks \/ EndFlatListing \/ Finalize
  <2>1. EndFrame /\ \A q \in ScanPaths : Held(q)' <=> Held(q)
    BY <1>7, EndsDo
  <2> QED BY <1>2, <1>3, <1>4, <2>1 DEF EndFrame
<1>8. CASE \E p \in toList : ListEntry(p)
  <2>1. PICK p \in toList : ListEntry(p)
    BY <1>8
  <2>2. /\ toList' = toList \ {p} /\ p \in ScanPaths
        /\ \/ \A q \in ScanPaths : Held(q)' <=> Held(q) \/ (q = p /\ IsListed1(p))
           \/ immediateStopHashing' = TRUE
    BY <2>1, ListEntryDoes
  <2>3. \A q \in ScanPaths : Held(q)' <=> Held(q) \/ (q = p /\ IsListed1(p))
    BY <2>2 DEF Fine
  <2> QED BY <1>2, <1>3, <1>4, <2>2, <2>3 DEF IsListed1
<1> QED BY <1>5, <1>6, <1>7, <1>8, StepKinds

(* The state a scan begins in. *)
LEMMA ScanBegins == LSInit => ScanIInv
<1> SUFFICES ASSUME LSInit
             PROVE  ScanIInv
  OBVIOUS
<1>1. /\ recursive \in BOOLEAN /\ handling \in {"follow", "skip", "preserve"} /\ hashing \in BOOLEAN
      /\ main = IF recursive THEN "next" ELSE "flat"
  BY ScanAssumption DEF LSInit
<1>2. /\ walkQueue = <<ScanRoot>> /\ seenPaths = {} /\ toList = Children(ScanRoot)
      /\ entityType = "file" /\ stopped = FALSE /\ result = "none"
      /\ unstartedDirs = {} /\ dirInProgressCount = 0 /\ output = <<>>
      /\ cancelled = FALSE /\ panicked = FALSE
      /\ toHash = Nowhere /\ hashTargetChannel = <<>> /\ hashClosed = FALSE
      /\ immediateStopHashing = FALSE /\ hashErrors = 0
      /\ processed = {} /\ again = {} /\ reported = {} /\ unlisted = {} /\ faults = 0
  BY DEF LSInit
<1>3. /\ worker = [w \in Workers |-> Resting] /\ Resting \in WorkerStates
      /\ \A w \in Workers : /\ worker[w].at = "gone" /\ worker[w].dir = Nowhere
                            /\ worker[w].remaining = {} /\ worker[w].found = {}
  BY DEF LSInit, Resting, WorkerStates
<1>4. thread = [t \in Threads |-> [at |-> IF hashing THEN "idle" ELSE "gone", file |-> Nowhere]]
  BY DEF LSInit
<1>5. \A t \in Threads : thread[t].at = (IF hashing THEN "idle" ELSE "gone") /\ thread[t].file = Nowhere
  BY <1>4
<1>6. \A p \in ScanPaths : ~Held(p)
  <2>1. \A p : ~Sent(p) /\ ~InLine(p)
    BY <1>2 DEF Sent, InLine
  <2>2. \A p : \A t \in Threads : ~Hashed(t, p)
    BY <1>1, <1>5 DEF Hashed
  <2>3. \A p \in ScanPaths : p # Nowhere
    BY ScanAssumption
  <2> QED BY <1>2, <2>1, <2>2, <2>3 DEF Held
<1>7. Busy = {} /\ Quiet
  BY <1>3 DEF Busy, Quiet
<1>8. ScanTypes
  <2>1. walkQueue \in Seq(ScanDirs) /\ output \in Seq([path : ScanPaths, ok : BOOLEAN])
    BY <1>2, ScanAssumption
  <2>2. worker \in [Workers -> WorkerStates]
    BY <1>3
  <2>3. Len(output) <= OutputRoom
    BY <1>2, ScanAssumption
  <2> QED BY <1>1, <1>2, <2>1, <2>2, <2>3 DEF ScanTypes
<1>9. HashTypes
  <2>1. hashTargetChannel \in Seq(ScanPaths) /\ Len(hashTargetChannel) <= HashBacklog
    BY <1>2, ScanAssumption
  <2>2. thread \in [Threads -> [at : {"gone", "idle", "hashing"}, file : ScanPaths \cup {Nowhere}]]
    BY <1>4
  <2> QED BY <1>1, <1>2, <1>5, <2>1, <2>2 DEF HashTypes
<1>10. CountInv
  <2>1. IsFiniteSet(Threads) /\ EndedThreads \in SUBSET Threads
    BY FS_Interval, ScanAssumption DEF Threads, EndedThreads
  <2>2. Cardinality({t \in Threads : thread[t].at = "gone"}) \in Nat
    BY <2>1, FS_Subset, FS_CardinalityType DEF EndedThreads
  <2>3. Cardinality({}) = 0
    BY FS_EmptySet
  <2> QED BY <1>2, <1>7, <2>2, <2>3 DEF CountInv
<1>11. WorkerInv /\ EntryInv /\ LastWorkerInv
  BY <1>1, <1>2, <1>3, <1>7 DEF WorkerInv, EntryInv, LastWorkerInv
<1>12. PhaseInv
  BY <1>1, <1>2, <1>5, <1>7 DEF PhaseInv
<1>13. ErrorInv
  BY <1>1, <1>2, <1>5 DEF ErrorInv
<1>14. OneInv /\ SeenInv /\ FlatInv
  <2>1. ASSUME NEW p \in ScanPaths
        PROVE  InOnePlace(p)
    <3>1. ~Sent(p) /\ toHash # p /\ ~InLine(p) /\ \A t \in Threads : ~Hashed(t, p)
      BY <1>6, <2>1 DEF Held
    <3> QED BY <1>2, <3>1 DEF InOnePlace
  <2>2. toList \subseteq ScanPaths
    BY <1>2 DEF Children
  <2> QED BY <1>2, <1>6, <2>1, <2>2 DEF OneInv, SeenInv, FlatInv
<1>15. OnceInv
  BY <1>1, <1>2, <1>6, <1>7 DEF OnceInv, BeforeWalk
<1>16. CompleteInv
  <2>1. WalkIsAccounted
    <3>1. ScanRoot \in InQueue
      <4>1. 1 \in 1 .. Len(walkQueue) /\ walkQueue[1] = ScanRoot
        BY <1>2
      <4> QED BY <4>1 DEF InQueue
    <3>2. Accounted({}, Known({}))
      BY <1>2, <1>3, <3>1 DEF Accounted, Known
    <3> QED BY <3>2 DEF WalkIsAccounted, WalkAccounted
  <2>2. ListIsAccounted
    BY <1>2 DEF ListIsAccounted
  <2> QED BY <2>1, <2>2 DEF CompleteInv
<1> QED BY <1>8, <1>9, <1>10, <1>11, <1>12, <1>13, <1>14, <1>15, <1>16 DEF ScanIInv

(* No step of a scan takes it out of its invariant. *)
LEMMA ScanStep == ScanIInv /\ [LSNext]_lsVars => ScanIInv'
<1> SUFFICES ASSUME ScanIInv, [LSNext]_lsVars
             PROVE  ScanIInv'
  OBVIOUS
<1>1. CASE LSNext
  <2>1. /\ ScanTypes /\ HashTypes /\ CountInv /\ WorkerInv /\ EntryInv /\ PhaseInv /\ LastWorkerInv
        /\ ErrorInv /\ OneInv /\ SeenInv /\ FlatInv /\ OnceInv /\ WalkIsAccounted /\ ListIsAccounted
    BY DEF ScanIInv, CompleteInv
  <2>2. ScanTypes' /\ HashTypes' /\ WorkerInv' /\ EntryInv'
    BY <1>1, <2>1, TypesStep
  <2>3. CountInv'
    BY <1>1, <2>1, <2>2, CountStep
  <2>4. PhaseInv'
    BY <1>1, <2>1, <2>2, PhaseStep
  <2>5. LastWorkerInv' /\ ErrorInv'
    BY <1>1, <2>1, LastWorkerStep, ErrorStep
  <2>6. OneInv' /\ SeenInv' /\ FlatInv' /\ OnceInv'
    BY <1>1, <2>1, OneStep, SeenStep, FlatStep, OnceStep
  <2>7. WalkIsAccounted' /\ ListIsAccounted'
    BY <1>1, <2>1, WalkStep, ListStep
  <2> QED BY <2>2, <2>3, <2>4, <2>5, <2>6, <2>7 DEF ScanIInv, CompleteInv
<1>2. CASE UNCHANGED lsVars
  <2>1. UNCHANGED <<recursive, handling, hashing, main, walkQueue, seenPaths, toList, entityType,
                    stopped, result, worker, unstartedDirs, dirInProgressCount, output, cancelled,
                    panicked, toHash, hashTargetChannel, hashClosed, immediateStopHashing, thread,
                    hashErrors, processed, again, reported, unlisted, faults>>
    BY <1>2 DEF lsVars, scanOptions, walkVars, crawlVars, hashVars, outcomeVars
  <2>2. ScanTypes' /\ HashTypes'
    BY <2>1 DEF ScanIInv, ScanTypes, HashTypes
  <2>3. Busy' = Busy /\ Quiet' = Quiet
    BY <2>1 DEF Busy, Quiet
  <2>4. CountInv' /\ WorkerInv' /\ EntryInv' /\ PhaseInv' /\ LastWorkerInv' /\ ErrorInv'
    BY <2>1, <2>3 DEF ScanIInv, CountInv, WorkerInv, EntryInv, PhaseInv, LastWorkerInv, ErrorInv
  <2>5. (\A q \in ScanPaths : Held(q)' <=> Held(q)) /\ OneInv'
    BY <2>1, NothingHeldMore DEF ScanIInv
  <2>6. SeenInv' /\ FlatInv'
    <3>1. toList \subseteq ScanPaths
      BY DEF ScanIInv, ScanTypes, Children
    <3> QED BY <2>1, <2>5, <3>1 DEF ScanIInv, SeenInv, FlatInv, FileLinks
  <2>7. OnceInv'
    <3> SUFFICES ASSUME recursive, handling # "follow"
                 PROVE  BeforeWalk' \/ (walkQueue' = <<>> /\ \E ahead \in SUBSET ScanPaths : AheadInv(ahead)')
      BY <2>1 DEF OnceInv
    <3>1. BeforeWalk => BeforeWalk'
      BY <2>1, <2>3, <2>5 DEF BeforeWalk
    <3>2. ASSUME NEW ahead \in SUBSET ScanPaths, AheadInv(ahead)
          PROVE  AheadInv(ahead)'
      BY <2>1, <2>5, <3>2, AheadStays
    <3> QED BY <2>1, <3>1, <3>2 DEF ScanIInv, OnceInv
  <2>8. WalkIsAccounted'
    <3>1. (Fine' <=> Fine) /\ (AllRead' <=> AllRead)
      BY <2>1 DEF Fine, AllRead
    <3>2. WalkAccounted => WalkAccounted'
      BY <2>1, <2>5, AccountUnmoved DEF scanOptions
    <3> QED BY <2>1, <3>1, <3>2 DEF ScanIInv, CompleteInv, WalkIsAccounted
  <2>9. ListIsAccounted'
    <3>1. Fine' <=> Fine
      BY <2>1 DEF Fine
    <3>2. Children(ScanRoot) \subseteq ScanPaths
      BY DEF Children
    <3> QED BY <2>1, <2>5, <3>1, <3>2 DEF ScanIInv, CompleteInv, ListIsAccounted
  <2> QED BY <2>2, <2>4, <2>5, <2>6, <2>7, <2>8, <2>9 DEF ScanIInv, CompleteInv
<1> QED BY <1>1, <1>2

(* With every folder read and every hashing thread done, what is held is   *)
(* sent.                                                                   *)
LEMMA AllHeldIsSent ==
    ASSUME ScanIInv, result = "ok", HashThreads # 0, NEW p \in ScanPaths, Held(p)
    PROVE  Sent(p)
<1>1. /\ main = "done" /\ hashErrors = 0 /\ ~immediateStopHashing /\ toHash = Nowhere
      /\ \A t \in Threads : thread[t].at = "gone"
  BY DEF ScanIInv, ErrorInv, PhaseInv
<1>2. 1 \in Threads
  BY ScanAssumption DEF Threads
<1>3. hashTargetChannel = <<>>
  <2>1. CASE hashing
    BY <1>1, <1>2, <2>1 DEF ScanIInv, ErrorInv
  <2>2. CASE ~hashing
    BY <2>2 DEF ScanIInv, PhaseInv
  <2> QED BY <2>1, <2>2
<1>4. ~InLine(p)
  BY <1>3 DEF InLine
<1>5. \A t \in Threads : ~Hashed(t, p)
  BY <1>1 DEF Hashed
<1>6. p # Nowhere
  BY ScanAssumption
<1> QED BY <1>1, <1>4, <1>5, <1>6 DEF Held

(* A walk that came to its end has read every folder that it should.       *)
LEMMA WalkReadsAll ==
    ASSUME ScanIInv, result = "ok", recursive, Fine, AllRead
    PROVE  \E read \in SUBSET ScanDirs : IsClosed(read) /\ Accounted(read, read) /\ output = <<>>
<1>1. main = "done" /\ walkQueue = <<>> /\ Quiet /\ unstartedDirs = {} /\ output = <<>>
  BY DEF ScanIInv, ErrorInv, PhaseInv, Fine
<1>2. PICK read \in SUBSET ScanDirs : Accounted(read, Known(read))
  BY DEF ScanIInv, CompleteInv, WalkIsAccounted, WalkAccounted
<1>3. Known(read) = read
  <2>1. \A w \in Workers : worker[w].at = "gone" /\ worker[w].found = {}
    BY <1>1 DEF Quiet, ScanIInv, WorkerInv
  <2>2. InHand = {}
    BY <1>1, <2>1 DEF InHand, Busy
  <2>3. InQueue = {}
    BY <1>1 DEF InQueue
  <2> QED BY <2>2, <2>3 DEF Known
<1>4. Accounted(read, read)
  BY <1>2, <1>3
<1>5. ASSUME NEW d \in read, NEW e \in ScanDirs, LeadsTo(d, e)
      PROVE  e \in read
  <2>1. CASE InDir[e] = d
    <3>1. e \in Children(d)
      BY <2>1, KindsApart DEF Children
    <3> QED BY <1>4, <3>1 DEF Accounted, IsCared
  <2>2. CASE \E l \in ScanLinks \ Excluded : handling = "follow" /\ InDir[l] = d /\ LinkTo[l] = e
    <3>1. PICK l \in ScanLinks \ Excluded : handling = "follow" /\ InDir[l] = d /\ LinkTo[l] = e
      BY <2>2
    <3>2. l \in Children(d) /\ l \notin ScanDirs
      BY <3>1, KindsApart DEF Children, ScanPaths
    <3>3. IsHandled(l, read)
      <4>1. ~Coming(l)
        BY <1>1 DEF Coming
      <4> QED BY <1>4, <3>2, <4>1 DEF Accounted, IsCared
    <3>4. l \notin FileLinks /\ LinkTo[l] \notin ScanFiles
      BY <3>1, KindsApart DEF FileLinks
    <3> QED BY <3>1, <3>3, <3>4 DEF IsHandled
  <2> QED BY <1>5, <2>1, <2>2 DEF LeadsTo
<1>6. IsClosed(read)
  BY <1>4, <1>5 DEF IsClosed, Accounted
<1> QED BY <1>1, <1>4, <1>6

(* A scan that returns no error, and of which nothing went wrong, has      *)
(* handed on all there is.                                                 *)
LEMMA QuietScanHasAll ==
    ASSUME ScanIInv, HashThreads # 0
    PROVE  QuietScanIsComplete
<1> SUFFICES ASSUME result = "ok", ~stopped, unlisted = {}, Unread = {}, NEW p \in Wanted
             PROVE  Sent(p)
  BY DEF QuietScanIsComplete, IsComplete, Sent
<1>1. Fine /\ main = "done"
  BY DEF ScanIInv, ErrorInv, Fine
<1>2. /\ p \in ScanPaths /\ p \notin Excluded /\ InDir[p] \in Reached
      /\ \/ p \in ScanFiles
         \/ p \in ScanLinks /\ handling = "preserve"
         \/ p \in FileLinks
  BY DEF Wanted, FileLinks
<1>3. p \notin ScanDirs
  BY <1>2, KindsApart
<1>4. CASE recursive
  <2>1. output = <<>>
    BY <1>1, <1>4 DEF ScanIInv, PhaseInv, Fine
  <2>2. reported \cap ScanDirs = {}
    BY DEF Unread
  <2>3. AllRead
    BY <2>1, <2>2 DEF AllRead
  <2>4. PICK read \in SUBSET ScanDirs : IsClosed(read) /\ Accounted(read, read)
    BY <1>1, <1>4, <2>3, WalkReadsAll
  <2>5. InDir[p] \in read
    BY <1>2, <1>4, <2>4 DEF Reached
  <2>6. p \in Children(InDir[p])
    BY <1>2 DEF Children
  <2>7. IsHandled(p, read)
    <3>1. ~Coming(p)
      BY <2>1 DEF Coming
    <3> QED BY <1>3, <2>4, <2>5, <2>6, <3>1 DEF Accounted, IsCared
  <2>8. Held(p)
    BY <1>2, <2>7, KindsApart, ScanAssumption DEF IsHandled, FileLinks
  <2> QED BY <1>2, <2>8, AllHeldIsSent
<1>5. CASE ~recursive
  <2>1. toList = {}
    BY <1>1, <1>5 DEF ScanIInv, ErrorInv, Fine
  <2>2. p \in Children(ScanRoot) \ toList
    BY <1>2, <1>5, <2>1 DEF Reached, Children
  <2>3. p \in ScanDirs \/ p \in Excluded \/ Held(p) \/ (p \in ScanLinks /\ handling = "skip")
    BY <1>1, <1>5, <2>2 DEF ScanIInv, CompleteInv, ListIsAccounted
  <2>4. Held(p)
    BY <1>2, <1>3, <2>3, KindsApart, ScanAssumption DEF FileLinks
  <2> QED BY <1>2, <2>4, AllHeldIsSent
<1> QED BY <1>4, <1>5

(* A scan keeps the types of its state: no more entries wait than the      *)
(* channels have room for, the folders in progress are counted right, and  *)
(* each hashing thread fails once at most (crawler, prepareHashingThreads). *)
LEMMA ScanIsTyped ==
    ASSUME ScanIInv
    PROVE  LSTypeOK
<1>1. IsFiniteSet(Threads) /\ EndedThreads \in SUBSET Threads /\ Cardinality(Threads) = HashThreads
  <2>1. IsFiniteSet(Threads) /\ EndedThreads \in SUBSET Threads
    BY FS_Interval, ScanAssumption DEF Threads, EndedThreads
  <2>2. Cardinality(Threads) = HashThreads
    BY FS_Interval, ScanAssumption DEF Threads
  <2> QED BY <2>1, <2>2
<1>2. Cardinality(EndedThreads) <= Cardinality(Threads) /\ Cardinality(EndedThreads) \in Nat
  BY <1>1, FS_Subset, FS_CardinalityType
<1>3. hashErrors \in 0 .. HashThreads
  BY <1>1, <1>2, ScanAssumption DEF ScanIInv, CountInv, EndedThreads
<1> QED BY <1>3 DEF ScanIInv, ScanTypes, HashTypes, CountInv, Busy, LSTypeOK

(* The last hashing thread leaves nothing in the backlog, unless it fails. *)
LEMMA BacklogIsEmptied ==
    ASSUME ScanIInv, HashThreads # 0, result = "ok"
    PROVE  hashTargetChannel = <<>>
<1>1. 1 \in Threads
  BY ScanAssumption DEF Threads
<1>2. /\ main = "done" /\ hashErrors = 0 /\ ~immediateStopHashing
      /\ thread[1].at = "gone"
  BY <1>1 DEF ScanIInv, ErrorInv
<1>3. CASE hashing
  BY <1>1, <1>2, <1>3 DEF ScanIInv, ErrorInv
<1>4. CASE ~hashing
  BY <1>4 DEF ScanIInv, PhaseInv
<1> QED BY <1>3, <1>4 DEF ScanIInv, ScanTypes

(* What the invariant says of a scan. *)
LEMMA ScanInvFollows ==
    ASSUME ScanIInv, HashThreads # 0
    PROVE  ScanInv
<1>1. NothingIsSentTwice
  BY DEF ScanIInv, OneInv, FileLinks, NothingIsSentTwice
<1>2. DeferredFilesAreProcessed
  BY BacklogIsEmptied DEF DeferredFilesAreProcessed
<1> QED BY <1>1, <1>2, QuietScanHasAll, ScanIsTyped DEF ScanInv

(* Every scan keeps the invariant: crawl workers, walk, links and hashing  *)
(* together (Traverse).                                                    *)
THEOREM ScanInvariant == LSSpec => []ScanIInv
<1> QED BY ScanBegins, ScanStep, PTL DEF LSSpec

(* Every scan keeps the types of its state (localTraverser.Traverse).      *)
THEOREM ScanTypesHold == LSSpec => []LSTypeOK
<1>1. ScanIInv => LSTypeOK
  BY ScanIsTyped
<1> QED BY <1>1, ScanInvariant, PTL

(* parallel.Crawl, Walk and WalkWithSymlinks hand nothing on twice but     *)
(* links to files, however the links lead and whichever crawler is first.  *)
THEOREM NothingIsEverSentTwice == LSSpec => []NothingIsSentTwice
<1>1. ScanIInv => NothingIsSentTwice
  BY DEF ScanIInv, OneInv, FileLinks, NothingIsSentTwice
<1> QED BY <1>1, ScanInvariant, PTL

(* As long as something hashes, no file is deferred and then forgotten     *)
(* (hashingProcessor).                                                     *)
THEOREM DeferredFilesAreHashed ==
    ASSUME HashThreads # 0
    PROVE  LSSpec => []DeferredFilesAreProcessed
<1>1. ScanIInv => DeferredFilesAreProcessed
  BY BacklogIsEmptied DEF DeferredFilesAreProcessed
<1> QED BY <1>1, ScanInvariant, PTL

(* A scan hands on nothing twice and, when it returns no error and none of *)
(* its walks was broken off, everything there is, for any tree of folders  *)
(* with any links, any number of crawlers and, if there are any, of hashing *)
(* threads (localTraverser.Traverse).                                      *)
THEOREM ScanInvHolds ==
    ASSUME HashThreads # 0
    PROVE  LSSpec => []ScanInv
<1>1. ScanIInv => ScanInv
  BY ScanInvFollows
<1> QED BY <1>1, ScanInvariant, PTL

(***************************************************************************)
(* ServiceScan.  A folder is due (to be crawled, or found by a worker that *)
(* is not done with its page) or past (its page was begun).  What a page   *)
(* of a past folder has is left on it, or it was sent on, or it needed no  *)
(* sending, unless the page has failed, which was sent instead.  What was  *)
(* sent is in one place: on one of the lines, with a converter, handed on  *)
(* or logged.  When nothing is due or left and the lines are empty, what   *)
(* was handed on is what there is.                                         *)
(***************************************************************************)

(* What an entry is, whether its properties could be had or not. *)
EntryKey(e) == [e EXCEPT !.ok = TRUE]

(* What is on a line, ... *)
OnLine(line) == {line[i] : i \in 1 .. Len(line)}

(* ... and as what it was sent. *)
KeysOf(line) == {EntryKey(e) : e \in OnLine(line)}

(* A worker of Transform has something. *)
IsEntry(e) == e.kind \notin {"none", "finished"}

(* The folders that the crawl has come across and not begun, and the       *)
(* entries of the folders that it has begun and not come to.               *)
Due  == toCrawl \cup UNION {lister[w].found : w \in SvWorkers}

(* What is left on the pages at hand. *)
Left == UNION {lister[w].left : w \in SvWorkers}

(* What has been sent on: it is on its way, or it has arrived. *)
AtConverters == {EntryKey(converter[c]) : c \in {b \in SvConverters : IsEntry(converter[b])}}

(* Everything that was sent on. *)
SentOn == KeysOf(crawled) \cup AtConverters \cup KeysOf(converted) \cup got \cup logged

-----------------------------------------------------------------------------
(* The kinds of entries, ... *)
SvKinds == {"leaf", "name", "slash", "prefix", "folder", "error"}

(* ... and the entries. *)
SvEntries == [kind : SvKinds, path : SvPaths, ok : BOOLEAN]

(* What a worker of the crawl has. *)
ListerStates ==
    [at : {"gone", "idle", "listing"}, dir : SvFolders, left : SUBSET SvEntries,
     found : SUBSET SvFolders]

(* The types of the options, and what they exclude of each other, ...      *)
OptionTypes ==
    /\ lists \in {"parallel", "flat", "share"} /\ svRecursive \in BOOLEAN
    /\ dirStubs \in BOOLEAN /\ (dirStubs => lists = "parallel")
    /\ permanentDelete \in {"none", "snapshots", "versions", "both"}
    /\ (permanentDelete # "none" => lists = "flat")
    /\ skipLinks \in BOOLEAN /\ rootSlash \in BOOLEAN /\ (lists = "flat" => rootSlash)
    /\ atName \in [SvFolders -> AtName] /\ atSlash \in [SvFolders -> AtName]
    /\ \A d \in SvFolders \ {SvRoot, SvNamed} : atName[d] = "nothing" /\ atSlash[d] = "nothing"

(* ... of the crawl, ... *)
CrawlTypes ==
    /\ traverser \in {"start", "listing", "returned"} /\ svResult \in {"none", "ok", "error"}
    /\ lister \in [SvWorkers -> ListerStates]
    /\ toCrawl \subseteq SvFolders /\ svFaults \in 0 .. MaxSvFaults

(* ... and of what is on its way to the processor. *)
LineTypes ==
    /\ crawled \in Seq(SvEntries) /\ Len(crawled) <= SvRoom
    /\ converter \in [SvConverters -> SvEntries \cup {NoEntry, Finished}]
    /\ converted \in Seq(SvEntries) /\ Len(converted) <= SvRoom
    /\ got \subseteq SvEntries /\ unsaid \subseteq SvEntries /\ logged \subseteq SvEntries

-----------------------------------------------------------------------------
(* An entry is in one place at a time.                                     *)
OncePerLine(line) ==
    \A i, j \in 1 .. Len(line) :
       EntryKey(line[i]) = EntryKey(line[j]) /\ line[i].kind # "error" => i = j

(* Only an error is in two places. *)
Apart(s, t) == \A e \in s \cap t : e.kind = "error"

(* Every entry is on a line, with a converter, handed on or logged.        *)
PlaceInv ==
    /\ OncePerLine(crawled) /\ OncePerLine(converted)
    /\ \A b, c \in SvConverters :
          /\ IsEntry(converter[b]) /\ IsEntry(converter[c]) /\ converter[b].kind # "error"
          /\ EntryKey(converter[b]) = EntryKey(converter[c])
          => b = c
    /\ Apart(KeysOf(crawled), AtConverters) /\ Apart(KeysOf(crawled), KeysOf(converted))
    /\ Apart(KeysOf(crawled), got \cup logged) /\ Apart(AtConverters, KeysOf(converted))
    /\ Apart(AtConverters, got \cup logged) /\ Apart(KeysOf(converted), got \cup logged)
    /\ got \cap logged = {} /\ gotTwice = {}

(* An error is one of the crawl's. A share's entries have been looked at   *)
(* when they leave the conversion; blobs are not converted.                *)
ConversionInv ==
    /\ \A e \in got \cup logged \cup unsaid : e.ok
    /\ \A e \in got \cup unsaid : e.kind # "error"
    /\ \A e \in got : lists = "share" => ~IsSkipped(e)
    /\ \A e \in OnLine(crawled) : e.ok <=> e.kind # "error"
    /\ \A c \in SvConverters : IsEntry(converter[c]) =>
          (converter[c].ok <=> converter[c].kind # "error")
    /\ \A e \in OnLine(converted) :
          /\ e.kind = "error" => ~e.ok
          /\ e.ok => ~IsSkipped(e)
    /\ IsBlobListing =>
         converted = <<>> /\ logged = {} /\ \A c \in SvConverters : converter[c] = Finished
    /\ lists = "share" => EntryOf("folder", SvRoot) \in got \cup unsaid

-----------------------------------------------------------------------------
(* The folder whose page has an entry, and what it comes from there. *)
Owner(e) == IF e.kind = "slash" THEN e.path ELSE SvIn[e.path]

(* The entry of a page that an entry is sent for. *)
Origin(e) == IF IsBlobListing /\ e.kind = "folder" THEN EntryOf("prefix", e.path) ELSE e

(* An entry for a folder, to be listed in turn. *)
IsFolderEntry(e) == e.kind \in {"prefix", "folder"}

(* A name that begins others, and is that of a stub. *)
IsSentAsStub(e) == svRecursive /\ dirStubs /\ HasStub(e.path)

(* The entry of the root, which is on no page. *)
RootsOwn == {EntryOf("folder", SvRoot)}

(* A worker lists a folder that nobody has listed before. *)
ListerInv(past) ==
    /\ \A w \in SvWorkers :
          /\ lister[w].at # "listing" => lister[w].left = {} /\ lister[w].found = {}
          /\ lister[w].at = "listing" =>
               /\ lister[w].dir \in past /\ lister[w].left \subseteq PageOf(lister[w].dir)
               /\ \A e \in lister[w].found : e # SvRoot /\ SvIn[e] = lister[w].dir /\ e \notin toCrawl
          /\ lister[w].at = "gone" =>
               toCrawl = {} /\ \A v \in SvWorkers : lister[v].at # "listing"
    /\ \A v, w \in SvWorkers :
          lister[v].at = "listing" /\ lister[w].at = "listing" /\ lister[v].dir = lister[w].dir
          => v = w

(* Folders are listed once, and after what they are in.                    *)
FoldersOnce(past, due, left) ==
    /\ past \subseteq SvFolders /\ due \subseteq SvFolders /\ past \cap due = {}
    /\ SvRoot \in past \cup due
    /\ \A d \in (past \cup due) \ {SvRoot} : d \in Below[SvRoot] /\ SvIn[d] \in past /\ svRecursive
    /\ \A d \in (past \cup due) \ {SvRoot} : IsBlobListing => IsPrefix(d)
    /\ \A e \in left : Owner(e) \in past /\ e \in PageOf(Owner(e))
    /\ \A e \in left : IsFolderEntry(e) => e.path \notin past \cup due

(* What has been sent comes from a page, and is no longer left on it.      *)
SentOnce(past, left, sent, said) ==
    /\ \A e \in sent \cup said : e.kind # "error" =>
          \/ e \in RootsOwn
          \/ /\ Owner(e) \in past /\ Origin(e) \in PageOf(Owner(e)) \ left
             /\ e.kind # "prefix" /\ ~RepresentsAFolder(e)
             /\ IsBlobListing /\ e.kind = "folder" => IsSentAsStub(e)
    /\ \A e \in sent : e.kind = "error" => e.path \in past
    /\ sent \cap said = {}

(* What is not left on a page has been sent on, or had no need to be.      *)
IsSettled(e, past, due, sent, said) ==
    /\ IsFolderEntry(e) /\ svRecursive => e.path \in past \cup due
    /\ IF e.kind = "prefix" THEN IsSentAsStub(e) => EntryOf("folder", e.path) \in sent \cup said
       ELSE e \in sent \/ RepresentsAFolder(e) \/ (lists = "share" /\ IsSkipped(e))

(* A page that was begun has failed, or all of it that is not left is settled. *)
AllSettled(past, due, left, sent, said) ==
    \A d \in past : \/ EntryOf("error", d) \in sent
                    \/ \A e \in PageOf(d) \ left : IsSettled(e, past, due, sent, said)

(* The root was sent before the crawl, as its options ask for. *)
RootSettled(sent, said) ==
    IF lists = "share" THEN EntryOf("folder", SvRoot) \in sent \cup said
    ELSE /\ EntryOf("folder", SvRoot) \in sent <=> IsScheduledAsStub
         /\ EntryOf("folder", SvRoot) \notin said
         /\ ~IsScheduledAsBlob

(* The crawl loses no folder and no entry, and sends none twice.           *)
PagesInv(past, due, left, sent, said) ==
    /\ FoldersOnce(past, due, left)
    /\ SentOnce(past, left, sent, said)
    /\ AllSettled(past, due, left, sent, said)
    /\ RootSettled(sent, said)

(* A crawl. *)
CrawlKeeps ==
    /\ PlaceInv /\ ConversionInv
    /\ \E past \in SUBSET SvFolders :
          ListerInv(past) /\ PagesInv(past, Due, Left, SentOn, unsaid)

(* A flat listing: nothing but what it should hand on. *)
FlatKeeps ==
    /\ got \subseteq {e \in FlatItems : ~RepresentsAFolder(e) /\ PassesFilters(e)}
    /\ gotTwice = {}

(* The inductive invariant of a listing. *)
ListingIInv ==
    /\ OptionTypes /\ CrawlTypes /\ LineTypes
    /\ traverser # "returned" => svResult = "none"
    /\ traverser = "start" =>
         /\ crawled = <<>> /\ converted = <<>>
         /\ got = {} /\ gotTwice = {} /\ unsaid = {} /\ logged = {}
    /\ traverser = "listing" => IF lists = "flat" THEN FlatKeeps ELSE CrawlKeeps
    /\ traverser = "returned" => NothingIsListedTwice /\ BlobListingIsExact /\ ShareListingIsExact

(* What is known of an entry without its properties. *)
LEMMA KeyFacts ==
    ASSUME NEW e \in SvEntries
    PROVE  /\ EntryKey(e) \in SvEntries /\ EntryKey(e).kind = e.kind
           /\ EntryKey(e).path = e.path /\ EntryKey(e).ok
           /\ e.ok => EntryKey(e) = e
           /\ IsSkipped(EntryKey(e)) <=> IsSkipped(e)
           /\ IsEntry(e)
<1>1. /\ EntryKey(e) \in SvEntries /\ EntryKey(e).kind = e.kind /\ EntryKey(e).path = e.path
      /\ EntryKey(e).ok
      /\ e.ok => EntryKey(e) = e
  BY DEF SvEntries, EntryKey
<1>2. IsSkipped(EntryKey(e)) <=> IsSkipped(e)
  BY <1>1 DEF IsSkipped
<1> QED BY <1>1, <1>2 DEF IsEntry, SvEntries, SvKinds

(* An entry made of its kind and its path. *)
LEMMA EntryFacts ==
    ASSUME NEW k \in SvKinds, NEW p \in SvPaths
    PROVE  /\ EntryOf(k, p) \in SvEntries /\ EntryOf(k, p).kind = k /\ EntryOf(k, p).path = p
           /\ EntryOf(k, p).ok = TRUE
BY DEF EntryOf, SvEntries

(* The kinds. *)
LEMMA KindsAre == {"leaf", "name", "slash", "prefix", "folder", "error"} = SvKinds
BY DEF SvKinds

(* Two entries that could be read are told apart by what they are. *)
LEMMA EntryIs ==
    ASSUME NEW e \in SvEntries, e.ok = TRUE
    PROVE  e = EntryOf(e.kind, e.path)
BY DEF EntryOf, SvEntries

(* Folders and leaves are paths. *)
LEMMA FoldersArePaths ==
    SvFolders \subseteq SvPaths /\ SvLeaves \subseteq SvPaths /\ SvRoot \in SvFolders
BY ServiceScanAssumption DEF SvPaths

(* The blobs of a folder. *)
LEMMA BlobItems ==
    ASSUME NEW d \in SvFolders, NEW e \in ItemsOf(d)
    PROVE  \/ \E x \in LeavesIn(d) : e = EntryOf("leaf", x)
           \/ \E f \in SvFolders \ {SvRoot} :
                 SvIn[f] = d /\ atName[f] # "nothing" /\ e = EntryOf("name", f)
           \/ atSlash[d] # "nothing" /\ e = EntryOf("slash", d)
BY DEF ItemsOf

(* A leaf is not a folder. *)
LEMMA LeafIs ==
    ASSUME NEW d \in SvFolders, NEW x \in LeavesIn(d)
    PROVE  x \in SvLeaves /\ SvIn[x] = d /\ x # SvRoot /\ x \in SvPaths /\ x \notin SvFolders
BY ServiceScanAssumption DEF LeavesIn, SvPaths

(* What is on a page. *)
IsOnPage(e, d) ==
    /\ e \in SvEntries /\ e.ok = TRUE /\ Owner(e) = d /\ e.kind # "error"
    /\ IsFolderEntry(e) => e.path \in SvFolders \ {SvRoot} /\ SvIn[e.path] = d /\ d \in SvFolders
    /\ IF IsBlobListing
       THEN /\ e.kind \in {"leaf", "name", "slash", "prefix"}
            /\ e.kind = "prefix" => IsPrefix(e.path)
            /\ e.kind # "prefix" => e \in ItemsOf(d)
       ELSE e.kind \in {"leaf", "folder"}
    /\ e.kind \in {"leaf", "name"} => SvIn[e.path] = d /\ e.path # SvRoot
    /\ e.kind = "leaf" => e.path \in LeavesIn(d)
    /\ e.kind = "slash" => e.path = d

(* A blob of a folder, as an entry. *)
LEMMA ItemIs ==
    ASSUME NEW d \in SvFolders, NEW e \in ItemsOf(d), IsBlobListing
    PROVE  IsOnPage(e, d) /\ e.kind \in {"leaf", "name", "slash"}
<1>1. CASE \E x \in LeavesIn(d) : e = EntryOf("leaf", x)
  <2>1. PICK x \in LeavesIn(d) : e = EntryOf("leaf", x)
    BY <1>1
  <2>2. x \in SvLeaves /\ SvIn[x] = d /\ x # SvRoot /\ x \in SvPaths
    BY LeafIs
  <2>3. e \in SvEntries /\ e.kind = "leaf" /\ e.ok = TRUE /\ e.path = x
    BY <2>1, <2>2 DEF EntryOf, SvEntries, SvKinds
  <2> QED BY <1>1, <2>2, <2>3 DEF IsOnPage, Owner, IsFolderEntry
<1>2. CASE \E f \in SvFolders \ {SvRoot} :
              SvIn[f] = d /\ atName[f] # "nothing" /\ e = EntryOf("name", f)
  <2>1. PICK f \in SvFolders \ {SvRoot} : SvIn[f] = d /\ e = EntryOf("name", f)
    BY <1>2
  <2>2. e \in SvEntries /\ e.kind = "name" /\ e.ok = TRUE /\ e.path = f
    BY <2>1, FoldersArePaths DEF EntryOf, SvEntries, SvKinds
  <2> QED BY <2>1, <2>2 DEF IsOnPage, Owner, IsFolderEntry
<1>3. CASE atSlash[d] # "nothing" /\ e = EntryOf("slash", d)
  <2>2. e \in SvEntries /\ e.kind = "slash" /\ e.ok = TRUE /\ e.path = d
    BY <1>3, FoldersArePaths DEF EntryOf, SvEntries, SvKinds
  <2> QED BY <1>3, <2>2 DEF IsOnPage, Owner, IsFolderEntry
<1> QED BY <1>1, <1>2, <1>3, BlobItems

(* The entry of a folder in another, ... *)
LEMMA FolderEntryIs ==
    ASSUME NEW d \in SvFolders, NEW f \in SvFolders \ {SvRoot}, SvIn[f] = d,
           NEW k \in {"prefix", "folder"}, k = "prefix" <=> IsBlobListing,
           IsBlobListing => IsPrefix(f)
    PROVE  IsOnPage(EntryOf(k, f), d)
<1> DEFINE e == EntryOf(k, f)
<1>1. e \in SvEntries /\ e.kind = k /\ e.path = f /\ e.ok = TRUE
  BY FoldersArePaths DEF EntryOf, SvEntries, SvKinds
<1> HIDE DEF e
<1>2. IsOnPage(e, d)
  BY <1>1 DEF IsOnPage, Owner, IsFolderEntry
<1> QED BY <1>2 DEF e

(* Every entry of a page is one of these. *)
LEMMA PageIs ==
    ASSUME NEW d \in SvFolders, NEW e \in PageOf(d)
    PROVE  IsOnPage(e, d)
<1>1. CASE IsBlobListing
  <2>1. CASE e \in ItemsOf(d)
    BY <1>1, <2>1, ItemIs
  <2>2. CASE e \notin ItemsOf(d)
    <3>1. PICK f \in SvFolders \ {SvRoot} : SvIn[f] = d /\ IsPrefix(f) /\ e = EntryOf("prefix", f)
      BY <1>1, <2>2 DEF PageOf, BlobPage
    <3> QED BY <1>1, <3>1, FolderEntryIs
  <2> QED BY <2>1, <2>2
<1>2. CASE ~IsBlobListing
  <2>1. CASE \E x \in LeavesIn(d) : e = EntryOf("leaf", x)
    <3>1. PICK x \in LeavesIn(d) : e = EntryOf("leaf", x)
      BY <2>1
    <3>2. x \in SvLeaves /\ SvIn[x] = d /\ x # SvRoot /\ x \in SvPaths
      BY LeafIs
    <3>3. e \in SvEntries /\ e.kind = "leaf" /\ e.ok = TRUE /\ e.path = x
      BY <3>1, <3>2 DEF EntryOf, SvEntries, SvKinds
    <3> QED BY <1>2, <3>2, <3>3 DEF IsOnPage, Owner, IsFolderEntry
  <2>2. CASE ~\E x \in LeavesIn(d) : e = EntryOf("leaf", x)
    <3>1. PICK f \in SvFolders \ {SvRoot} : SvIn[f] = d /\ e = EntryOf("folder", f)
      BY <1>2, <2>2 DEF PageOf, SharePage
    <3> QED BY <1>2, <3>1, FolderEntryIs
  <2> QED BY <2>1, <2>2
<1> QED BY <1>1, <1>2

(* ... is on the page of that one. *)
LEMMA FolderIsOnPage ==
    ASSUME NEW f \in SvFolders \ {SvRoot}, IsBlobListing => IsPrefix(f)
    PROVE  /\ IsBlobListing => EntryOf("prefix", f) \in PageOf(SvIn[f])
           /\ ~IsBlobListing => EntryOf("folder", f) \in PageOf(SvIn[f])
BY DEF PageOf, BlobPage, SharePage

(* Below is the least set that has what a folder has, and what it has.     *)
LEMMA BelowFacts ==
    ASSUME NEW d \in SvFolders
    PROVE  /\ Directly(d) \subseteq Below[d] /\ Below[d] \subseteq SvPaths
           /\ \A e \in Below[d] \cap SvFolders : Directly(e) \subseteq Below[d]
           /\ \A s \in SUBSET SvPaths : HoldsAllBelow(s, d) => Below[d] \subseteq s
<1>1. Below[d] = {p \in SvPaths : \A s \in SUBSET SvPaths : HoldsAllBelow(s, d) => p \in s}
  BY DEF Below
<1>2. \A e : Directly(e) \subseteq SvPaths
  BY DEF Directly
<1>3. Directly(d) \subseteq Below[d]
  BY <1>1, <1>2 DEF HoldsAllBelow
<1>4. \A e \in Below[d] \cap SvFolders : Directly(e) \subseteq Below[d]
  BY <1>1, <1>2 DEF HoldsAllBelow
<1> QED BY <1>1, <1>3, <1>4

(* What is in a folder below the root is below it. *)
LEMMA InBelow ==
    ASSUME NEW f \in SvPaths \ {SvRoot}, SvIn[f] = SvRoot \/ SvIn[f] \in Below[SvRoot]
    PROVE  f \in Below[SvRoot]
<1>1. SvIn[f] \in SvFolders
  BY ServiceScanAssumption
<1>2. f \in Directly(SvIn[f])
  BY DEF Directly
<1> QED BY <1>1, <1>2, BelowFacts, FoldersArePaths

(* What is below a folder is in it, or in one that is below. *)
LEMMA ParentOfBelow ==
    ASSUME NEW d \in SvFolders, NEW p \in Below[d]
    PROVE  p \in SvPaths \ {SvRoot} /\ (SvIn[p] = d \/ SvIn[p] \in Below[d] \cap SvFolders)
<1> DEFINE s == {q \in Below[d] \ {SvRoot} : SvIn[q] = d \/ SvIn[q] \in Below[d] \cap SvFolders}
<1>1. s \in SUBSET SvPaths
  BY BelowFacts
<1>2. HoldsAllBelow(s, d)
  <2>1. Directly(d) \subseteq s
    BY BelowFacts DEF Directly
  <2>2. ASSUME NEW e \in s \cap SvFolders, NEW q \in Directly(e)
        PROVE  q \in s
    BY BelowFacts DEF Directly
  <2> QED BY <2>1, <2>2 DEF HoldsAllBelow
<1>3. Below[d] \subseteq s
  BY <1>1, <1>2, BelowFacts
<1> QED BY <1>3, BelowFacts

(* Entries of which all is known. *)
AreEntries(s) == \A e \in s : e \in SvEntries /\ e.ok = TRUE

(* An entry and what it is sent for have one owner. *)
LEMMA OriginIs ==
    ASSUME NEW e \in SvEntries
    PROVE  /\ Owner(Origin(e)) = Owner(e) /\ Origin(e).path = e.path
           /\ Origin(e) = e \/ (IsBlobListing /\ e.kind = "folder" /\ Origin(e).kind = "prefix")
<1>1. CASE IsBlobListing /\ e.kind = "folder"
  <2>1. Origin(e).kind = "prefix" /\ Origin(e).path = e.path
    BY <1>1 DEF Origin, EntryOf
  <2> QED BY <1>1, <2>1 DEF Owner
<1>2. CASE ~(IsBlobListing /\ e.kind = "folder")
  BY <1>2 DEF Origin
<1> QED BY <1>1, <1>2

(* What the list of a folder shows has the folder as its owner.            *)
LEMMA OnlyOnOnePage ==
    ASSUME NEW d \in SvFolders, NEW e \in PageOf(d)
    PROVE  e \in SvEntries /\ e.ok = TRUE /\ Owner(e) = d
BY PageIs DEF IsOnPage

(* A worker takes a folder. *)
LEMMA BeginFolder ==
    ASSUME NEW past, NEW due, NEW left, NEW sent, NEW said, AreEntries(sent), AreEntries(said),
           PagesInv(past, due, left, sent, said), NEW d \in due
    PROVE  PagesInv(past \cup {d}, due \ {d}, left \cup PageOf(d), sent, said)
<1> DEFINE now == past \cup {d}   then == due \ {d}   more == left \cup PageOf(d)
<1>1. /\ past \subseteq SvFolders /\ due \subseteq SvFolders /\ past \cap due = {}
      /\ d \in SvFolders
      /\ d \notin past /\ past \cup due = now \cup then
  BY DEF PagesInv, FoldersOnce
<1>2. FoldersOnce(now, then, more)
  <2>1. \A e \in more : Owner(e) \in now /\ e \in PageOf(Owner(e))
    BY <1>1, OnlyOnOnePage DEF PagesInv, FoldersOnce
  <2>2. \A f \in (now \cup then) \ {SvRoot} : f \in Below[SvRoot] /\ SvIn[f] \in past /\ svRecursive
    BY <1>1 DEF PagesInv, FoldersOnce
  <2>3. ASSUME NEW e \in more, IsFolderEntry(e)
        PROVE  e.path \notin now \cup then
    <3>1. CASE e \in left
      BY <1>1, <2>3, <3>1 DEF PagesInv, FoldersOnce
    <3>2. CASE e \in PageOf(d)
      <4>1. e.path # SvRoot /\ SvIn[e.path] = d
        BY <1>1, <2>3, <3>2, PageIs DEF IsOnPage
      <4> QED BY <1>1, <2>2, <4>1
    <3> QED BY <3>1, <3>2
  <2> QED BY <1>1, <2>1, <2>2, <2>3 DEF PagesInv, FoldersOnce
<1>3. SentOnce(now, more, sent, said)
  <2>1. SentOnce(past, left, sent, said)
    BY DEF PagesInv
  <2>2. ASSUME NEW e \in sent \cup said, Owner(e) \in past, Origin(e) \in PageOf(Owner(e)) \ left
        PROVE  Origin(e) \in PageOf(Owner(e)) \ more
    <3>1. e \in SvEntries
      BY DEF AreEntries
    <3>2. Owner(Origin(e)) # d
      BY <1>1, <2>2, <3>1, OriginIs
    <3> QED BY <1>1, <2>2, <3>2, OnlyOnOnePage
  <2>3. ASSUME NEW e \in sent \cup said, e.kind # "error"
        PROVE  \/ e \in RootsOwn
               \/ /\ Owner(e) \in now /\ Origin(e) \in PageOf(Owner(e)) \ more
                  /\ e.kind # "prefix" /\ ~RepresentsAFolder(e)
                  /\ IsBlobListing /\ e.kind = "folder" => IsSentAsStub(e)
    BY <2>1, <2>2, <2>3 DEF SentOnce
  <2> QED BY ONLY <2>1, <2>3 DEF SentOnce
<1>4. AllSettled(now, then, more, sent, said)
  <2>1. AllSettled(past, due, left, sent, said)
    BY DEF PagesInv
  <2>2. \A e : IsSettled(e, past, due, sent, said) => IsSettled(e, now, then, sent, said)
    BY <1>1 DEF IsSettled
  <2> QED BY <2>1, <2>2 DEF AllSettled
<1>5. RootSettled(sent, said)
  BY DEF PagesInv
<1> QED BY <1>2, <1>3, <1>4, <1>5 DEF PagesInv

(* The error of a page. *)
LEMMA ErrorIs ==
    ASSUME NEW d \in SvFolders
    PROVE  /\ EntryOf("error", d) \in SvEntries /\ EntryOf("error", d).kind = "error"
           /\ EntryOf("error", d).path = d /\ EntryOf("error", d).ok = TRUE
           /\ ErrorAt(d) \in SvEntries /\ EntryKey(ErrorAt(d)) = EntryOf("error", d)
           /\ ErrorAt(d).kind = "error" /\ ~ErrorAt(d).ok
<1>1. d \in SvPaths
  BY FoldersArePaths
<1>2. /\ EntryOf("error", d) \in SvEntries /\ EntryOf("error", d).kind = "error"
      /\ EntryOf("error", d).path = d /\ EntryOf("error", d).ok = TRUE
  BY <1>1 DEF EntryOf, SvEntries, SvKinds
<1>3. ErrorAt(d) \in SvEntries /\ ErrorAt(d).kind = "error" /\ ~ErrorAt(d).ok
  BY <1>1 DEF ErrorAt, SvEntries, SvKinds
<1>4. EntryKey(ErrorAt(d)) = EntryOf("error", d)
  <2>1. \A e \in SvEntries : EntryKey(e) = EntryOf(e.kind, e.path)
    <3> SUFFICES ASSUME NEW e \in SvEntries PROVE EntryKey(e) = EntryOf(e.kind, e.path)
      OBVIOUS
    <3>1. /\ EntryKey(e) \in SvEntries /\ EntryKey(e).kind = e.kind
          /\ EntryKey(e).path = e.path /\ EntryKey(e).ok
      BY KeyFacts
    <3> QED BY <3>1, EntryIs
  <2>2. ErrorAt(d).path = d
    BY DEF ErrorAt
  <2> QED BY <1>3, <2>1, <2>2
<1> QED BY <1>2, <1>3, <1>4

(* A page fails: the rest of it is not listed. *)
LEMMA FailPage ==
    ASSUME NEW past, NEW due, NEW left, NEW sent, NEW said, AreEntries(said),
           \A e \in said : e.kind # "error",
           PagesInv(past, due, left, sent, said), NEW d \in past,
           NEW less, less \subseteq left, left \ less \subseteq PageOf(d)
    PROVE  PagesInv(past, due, less, sent \cup {EntryOf("error", d)}, said)
<1> DEFINE x == EntryOf("error", d)   now == sent \cup {x}
<1>1. past \subseteq SvFolders /\ d \in SvFolders
  BY DEF PagesInv, FoldersOnce
<1>2. x.kind = "error" /\ x.path = d
  BY <1>1, ErrorIs
<1> HIDE DEF x
<1>3. FoldersOnce(past, due, less)
  BY DEF PagesInv, FoldersOnce
<1>4. SentOnce(past, less, now, said)
  <2>1. SentOnce(past, left, sent, said)
    BY DEF PagesInv
  <2>2. now \cap said = {}
    BY <1>2, <2>1 DEF SentOnce
  <2>3. \A e \in now : e.kind = "error" => e.path \in past
    BY <1>2, <2>1 DEF SentOnce
  <2>4. ASSUME NEW e \in now \cup said, e.kind # "error"
        PROVE  \/ e \in RootsOwn
               \/ /\ Owner(e) \in past /\ Origin(e) \in PageOf(Owner(e)) \ less
                  /\ e.kind # "prefix" /\ ~RepresentsAFolder(e)
                  /\ IsBlobListing /\ e.kind = "folder" => IsSentAsStub(e)
    BY <1>2, <2>1, <2>4 DEF SentOnce
  <2> QED BY ONLY <2>2, <2>3, <2>4 DEF SentOnce
<1>5. AllSettled(past, due, less, now, said)
  <2>1. AllSettled(past, due, left, sent, said)
    BY DEF PagesInv
  <2>2. \A e : IsSettled(e, past, due, sent, said) => IsSettled(e, past, due, now, said)
    BY DEF IsSettled
  <2>3. ASSUME NEW f \in past, f # d
        PROVE  PageOf(f) \ less \subseteq PageOf(f) \ left
    BY <1>1, <2>3, OnlyOnOnePage
  <2>4. EntryOf("error", d) \in now
    BY DEF x
  <2>5. ASSUME NEW f \in past, EntryOf("error", f) \notin now
        PROVE  \A e \in PageOf(f) \ less : IsSettled(e, past, due, now, said)
    <3>1. f # d /\ EntryOf("error", f) \notin sent
      BY <2>4, <2>5
    <3> QED BY <2>1, <2>2, <2>3, <3>1 DEF AllSettled
  <2> QED BY <2>5 DEF AllSettled
<1>6. RootSettled(now, said)
  <2>1. EntryOf("folder", SvRoot) # x
    BY <1>2 DEF EntryOf
  <2> QED BY <2>1 DEF PagesInv, RootSettled
<1> QED BY <1>3, <1>4, <1>5, <1>6 DEF PagesInv, x

(* What an entry of a page is sent as. *)
What(e) == IF e.kind = "prefix" THEN EntryOf("folder", e.path) ELSE e

(* What is sent for an entry of a page. *)
LEMMA WhatIs ==
    ASSUME NEW d \in SvFolders, NEW e \in PageOf(d)
    PROVE  /\ What(e) \in SvEntries /\ What(e).ok = TRUE /\ What(e).kind \notin {"error", "prefix"}
           /\ Origin(What(e)) = e /\ Owner(What(e)) = d /\ What(e) \notin RootsOwn
           /\ What(e).path = e.path
           /\ e.kind # "prefix" => What(e) = e
           /\ e.kind = "prefix" => IsBlobListing /\ What(e).kind = "folder"
           /\ IsBlobListing /\ What(e).kind = "folder" => e.kind = "prefix"
<1>1. IsOnPage(e, d)
  BY PageIs
<1>2. e \in SvEntries /\ e.ok = TRUE /\ e.path \in SvPaths
  BY <1>1 DEF IsOnPage, SvEntries
<1>3. CASE e.kind = "prefix"
  <2>1. What(e) = EntryOf("folder", e.path) /\ IsBlobListing
    BY <1>1, <1>3 DEF What, IsOnPage
  <2>2. /\ What(e).kind = "folder" /\ What(e).path = e.path /\ What(e).ok = TRUE
        /\ What(e) \in SvEntries
    BY <1>2, <2>1 DEF EntryOf, SvEntries, SvKinds
  <2>3. EntryOf("prefix", e.path) = e
    BY <1>2, <1>3, EntryIs
  <2>4. Origin(What(e)) = e
    BY <2>1, <2>2, <2>3 DEF Origin
  <2>5. SvIn[e.path] = d /\ e.path # SvRoot
    BY <1>1, <1>3 DEF IsOnPage, IsFolderEntry
  <2>6. What(e) \notin RootsOwn
    BY <2>2, <2>5 DEF RootsOwn, EntryOf
  <2>7. Owner(What(e)) = d
    BY <2>2, <2>5 DEF Owner
  <2> QED BY <1>3, <2>1, <2>2, <2>4, <2>6, <2>7
<1>4. CASE e.kind # "prefix"
  <2>1. What(e) = e
    BY <1>4 DEF What
  <2>2. e.kind # "error" /\ Owner(e) = d /\ ~(IsBlobListing /\ e.kind = "folder")
    BY <1>1 DEF IsOnPage
  <2>3. Origin(e) = e
    BY <2>2 DEF Origin
  <2>4. e \notin RootsOwn
    <3>1. e.kind = "folder" => e.path # SvRoot
      BY <1>1 DEF IsOnPage, IsFolderEntry
    <3> QED BY <3>1 DEF RootsOwn, EntryOf
  <2> QED BY <1>2, <1>4, <2>1, <2>2, <2>3, <2>4
<1> QED BY <1>3, <1>4

(* What is still on a page has not been sent. *)
LEMMA LeftIsUnsent ==
    ASSUME NEW past, NEW due, NEW left, NEW sent, NEW said,
           PagesInv(past, due, left, sent, said), NEW e \in left
    PROVE  /\ What(e) \notin sent \cup said /\ Owner(e) \in past /\ Owner(e) \in SvFolders
           /\ e \in PageOf(Owner(e))
<1>1. Owner(e) \in past /\ Owner(e) \in SvFolders /\ e \in PageOf(Owner(e))
  BY DEF PagesInv, FoldersOnce
<1>2. Origin(What(e)) = e /\ What(e).kind # "error" /\ What(e) \notin RootsOwn
  BY <1>1, WhatIs
<1> QED BY <1>1, <1>2 DEF PagesInv, SentOnce

(* What becomes due when an entry has been come to. *)
DueWith(due, e) == IF IsFolderEntry(e) /\ svRecursive THEN due \cup {e.path} ELSE due

(* An entry for which something is sent. *)
IsToBeSent(e) == IF e.kind = "prefix" THEN IsSentAsStub(e) ELSE ~RepresentsAFolder(e)

(* A worker has come to an entry. *)
LEMMA ListOne ==
    ASSUME NEW past, NEW due, NEW left, NEW sent, NEW said,
           PagesInv(past, due, left, sent, said), NEW e \in left,
           NEW sent2, NEW said2, sent \subseteq sent2, said \subseteq said2,
           IF IsToBeSent(e)
           THEN \/ sent2 = sent \cup {What(e)} /\ said2 = said
                \/ sent2 = sent /\ said2 = said \cup {What(e)} /\ e.kind = "prefix"
           ELSE sent2 = sent /\ said2 = said
    PROVE  PagesInv(past, DueWith(due, e), left \ {e}, sent2, said2)
<1> DEFINE then == DueWith(due, e)   less == left \ {e}   k == What(e)
<1>1. /\ k \notin sent \cup said /\ Owner(e) \in past /\ Owner(e) \in SvFolders
      /\ e \in PageOf(Owner(e))
  BY LeftIsUnsent
<1>2. /\ k.kind \notin {"error", "prefix"} /\ Origin(k) = e /\ Owner(k) = Owner(e)
      /\ k \notin RootsOwn /\ k.path = e.path
      /\ e.kind # "prefix" => k = e
      /\ e.kind = "prefix" => IsBlobListing /\ k.kind = "folder"
      /\ IsBlobListing /\ k.kind = "folder" => e.kind = "prefix"
  BY <1>1, WhatIs
<1>3. FoldersOnce(past, then, less)
  <2>1. FoldersOnce(past, due, left)
    BY DEF PagesInv
  <2>2. CASE ~(IsFolderEntry(e) /\ svRecursive)
    <3>1. then = due
      BY <2>2 DEF DueWith
    <3> QED BY <2>1, <3>1 DEF FoldersOnce
  <2>3. CASE IsFolderEntry(e) /\ svRecursive
    <3>1. then = due \cup {e.path}
      BY <2>3 DEF DueWith
    <3>2. /\ e.path \in SvFolders \ {SvRoot} /\ SvIn[e.path] = Owner(e)
          /\ IsBlobListing => IsPrefix(e.path)
      BY <1>1, <2>3, PageIs DEF IsOnPage, IsFolderEntry
    <3>3. e.path \in Below[SvRoot]
      BY <1>1, <2>1, <3>2, InBelow, FoldersArePaths DEF FoldersOnce
    <3>4. e.path \notin past \cup due
      BY <2>1, <2>3 DEF FoldersOnce
    <3>5. ASSUME NEW f \in less, IsFolderEntry(f)
          PROVE  f.path # e.path
      <4>1. Owner(f) \in SvFolders /\ f \in PageOf(Owner(f))
        BY <2>1 DEF FoldersOnce
      <4>2. /\ f \in SvEntries /\ e \in SvEntries /\ f.ok = TRUE /\ e.ok = TRUE
            /\ f.kind = e.kind
        BY <1>1, <2>3, <3>5, <4>1, PageIs DEF IsOnPage, IsFolderEntry
      <4> QED BY <3>5, <4>2, EntryIs
    <3>6. \A d \in (past \cup then) \ {SvRoot} :
             d \in Below[SvRoot] /\ SvIn[d] \in past /\ svRecursive
      BY <1>1, <2>1, <2>3, <3>1, <3>2, <3>3 DEF FoldersOnce
    <3> QED BY <2>1, <3>1, <3>2, <3>4, <3>5, <3>6 DEF FoldersOnce
  <2> QED BY <2>2, <2>3
<1>4. SentOnce(past, less, sent2, said2)
  <2>1. SentOnce(past, left, sent, said)
    BY DEF PagesInv
  <2>2. sent2 \cap said2 = {}
    BY <1>1, <2>1 DEF SentOnce
  <2>3. \A x \in sent2 : x.kind = "error" => x.path \in past
    BY <1>2, <2>1 DEF SentOnce
  <2>4. ASSUME NEW x \in sent2 \cup said2, x.kind # "error"
        PROVE  \/ x \in RootsOwn
               \/ /\ Owner(x) \in past /\ Origin(x) \in PageOf(Owner(x)) \ less
                  /\ x.kind # "prefix" /\ ~RepresentsAFolder(x)
                  /\ IsBlobListing /\ x.kind = "folder" => IsSentAsStub(x)
    <3>1. CASE x \in sent \cup said
      BY <2>1, <2>4, <3>1 DEF SentOnce
    <3>2. CASE x \notin sent \cup said
      <4>1. x = k /\ IsToBeSent(e)
        BY <3>2
      <4>2. ~RepresentsAFolder(k)
        BY <1>2, <4>1 DEF IsToBeSent, RepresentsAFolder
      <4>3. IsBlobListing /\ k.kind = "folder" => IsSentAsStub(k)
        BY <1>2, <4>1 DEF IsToBeSent, IsSentAsStub
      <4> QED BY <1>1, <1>2, <4>1, <4>2, <4>3
    <3> QED BY <3>1, <3>2
  <2> QED BY ONLY <2>2, <2>3, <2>4 DEF SentOnce
<1>5. AllSettled(past, then, less, sent2, said2)
  <2>1. AllSettled(past, due, left, sent, said)
    BY DEF PagesInv
  <2>2. \A x : IsSettled(x, past, due, sent, said) => IsSettled(x, past, then, sent2, said2)
    BY DEF IsSettled, DueWith
  <2>3. IsSettled(e, past, then, sent2, said2)
    <3>1. IsFolderEntry(e) /\ svRecursive => e.path \in past \cup then
      BY DEF DueWith
    <3>2. e.kind = "prefix" /\ IsSentAsStub(e) => EntryOf("folder", e.path) \in sent2 \cup said2
      BY DEF IsToBeSent, What
    <3>3. e.kind # "prefix" => e \in sent2 \/ RepresentsAFolder(e)
      BY <1>2 DEF IsToBeSent
    <3> QED BY <3>1, <3>2, <3>3 DEF IsSettled
  <2> QED BY <2>1, <2>2, <2>3 DEF AllSettled
<1>6. RootSettled(sent2, said2)
  <2>1. k # EntryOf("folder", SvRoot)
    BY <1>2 DEF RootsOwn
  <2> QED BY <2>1 DEF PagesInv, RootSettled
<1> QED BY <1>3, <1>4, <1>5, <1>6 DEF PagesInv

(* What a share skips is not sent on. *)
LEMMA SkipOne ==
    ASSUME NEW past, NEW due, NEW left, NEW sent, NEW said, NEW sent2, sent2 \subseteq sent,
           lists = "share", \A e \in sent \ sent2 : IsSkipped(e),
           PagesInv(past, due, left, sent, said)
    PROVE  PagesInv(past, due, left, sent2, said)
<1>1. SentOnce(past, left, sent2, said)
  BY DEF PagesInv, SentOnce
<1>2. AllSettled(past, due, left, sent2, said)
  <2>1. \A e : IsSettled(e, past, due, sent, said) => IsSettled(e, past, due, sent2, said)
    BY DEF IsSettled, IsSkipped, EntryOf
  <2>2. \A d : EntryOf("error", d) \in sent => EntryOf("error", d) \in sent2
    BY DEF IsSkipped, EntryOf
  <2> QED BY <2>1, <2>2 DEF PagesInv, AllSettled
<1>3. RootSettled(sent2, said)
  BY DEF PagesInv, RootSettled, IsSkipped, EntryOf
<1> QED BY <1>1, <1>2, <1>3 DEF PagesInv

(* The folders in which a listing of blobs finds something. *)
SvReach == {SvRoot} \cup (Below[SvRoot] \cap SvFolders)

(* A folder whose names the service does not show. *)
IsBare(d) == d \in SvHollow /\ d # SvRoot /\ atSlash[d] = "nothing"

(* Nothing is in such a folder. *)
LEMMA BareFolders ==
    ASSUME OptionTypes, NEW d \in SvFolders, IsBare(d)
    PROVE  /\ IsBlobListing => ItemsOf(d) = {}
           /\ ~IsPrefix(d)
           /\ \A f \in SvFolders \ {SvRoot} : SvIn[f] = d => IsBare(f)
<1>1. atSlash[d] = "nothing"
  BY DEF IsBare
<1>2. \A p \in (SvPaths \ SvHollow) \cup {SvNamed} : p # SvRoot => SvIn[p] # d
  BY ServiceScanAssumption DEF IsBare
<1>3. ASSUME NEW x \in LeavesIn(d) PROVE FALSE
  <2>1. x \in SvPaths /\ x \notin SvFolders /\ x # SvRoot /\ SvIn[x] = d
    BY LeafIs
  <2> QED BY <1>2, <2>1, ServiceScanAssumption
<1>4. ASSUME NEW f \in SvFolders \ {SvRoot}, SvIn[f] = d
      PROVE  IsBare(f) /\ atName[f] = "nothing"
  <2>1. f \in SvHollow /\ f # SvNamed
    BY <1>2, <1>4, FoldersArePaths
  <2> QED BY <2>1 DEF IsBare, OptionTypes
<1>5. IsBlobListing => ItemsOf(d) = {}
  <2>1. ASSUME NEW e \in ItemsOf(d) PROVE FALSE
    BY <1>1, <1>3, <1>4, BlobItems
  <2> QED BY <2>1
<1>6. ~IsPrefix(d)
  BY <1>1 DEF IsPrefix, IsBare
<1> QED BY <1>4, <1>5, <1>6

(* A folder that no name begins with has no blob. *)
LEMMA PrefixOrBare ==
    ASSUME OptionTypes, NEW f \in SvFolders \ {SvRoot}, ~IsPrefix(f), IsBlobListing
    PROVE  f \in SvHollow /\ atSlash[f] = "nothing"
BY DEF IsPrefix

(* A blob that the listing may show is an item of a folder; which one, its *)
(* name tells.                                                             *)
InNames(e) ==
    /\ e \in UNION {ItemsOf(d) : d \in SvReach} /\ ~RepresentsAFolder(e)
    /\ svRecursive \/ e \in ItemsOf(SvRoot)

(* NamesBelow, by the folder that a blob is an item of. *)
LEMMA NamesAre ==
    ASSUME OptionTypes, IsBlobListing, NEW e
    PROVE  e \in NamesBelow <=> InNames(e)
<1>1. SvReach \subseteq SvFolders /\ SvRoot \in SvFolders /\ SvRoot \in SvReach
  BY FoldersArePaths DEF SvReach
<1>2. ASSUME NEW d \in SvReach, e \in ItemsOf(d)
      PROVE  (/\ (e.kind \in {"leaf", "name"} /\ SvIn[e.path] = SvRoot) \/ e = EntryOf("slash", SvRoot))
             <=> d = SvRoot
  <2>1. IsOnPage(e, d) /\ e.kind \in {"leaf", "name", "slash"} /\ SvRoot \in SvFolders
    BY <1>1, <1>2, ItemIs
  <2>2. e.kind \in {"leaf", "name"} => SvIn[e.path] = d
    BY <2>1 DEF IsOnPage
  <2>3. e.kind = "slash" => e = EntryOf("slash", d) /\ e.path = d
    BY <2>1, EntryIs DEF IsOnPage
  <2>4. EntryOf("slash", SvRoot).kind = "slash" /\ EntryOf("slash", SvRoot).path = SvRoot
    BY DEF EntryOf
  <2> QED BY <2>1, <2>2, <2>3, <2>4
<1>3. ASSUME NEW d \in SvReach, e \in ItemsOf(d)
      PROVE  e \in ItemsOf(SvRoot) <=> d = SvRoot
  <2>1. Owner(e) = d /\ (e \in ItemsOf(SvRoot) => Owner(e) = SvRoot)
    BY <1>1, <1>3, ItemIs DEF IsOnPage
  <2> QED BY <1>3, <2>1
<1>4. e \in NamesBelow <=>
        /\ e \in UNION {ItemsOf(d) : d \in SvReach} /\ ~RepresentsAFolder(e)
        /\ svRecursive \/ (e.kind \in {"leaf", "name"} /\ SvIn[e.path] = SvRoot)
                       \/ e = EntryOf("slash", SvRoot)
  BY DEF NamesBelow, SvReach
<1> QED BY <1>2, <1>3, <1>4 DEF InNames

(* A flat listing shows the names that are asked for. *)
LEMMA FlatIsExact ==
    ASSUME OptionTypes, lists = "flat"
    PROVE  /\ {e \in FlatItems : ~RepresentsAFolder(e) /\ PassesFilters(e)} = ExpectedBlobs
           /\ ~IsScheduledAsBlob /\ ~IsScheduledAsStub
<1>1. rootSlash /\ ~dirStubs /\ IsBlobListing
  BY DEF OptionTypes, IsBlobListing
<1>2. ~IsScheduledAsBlob /\ ~IsScheduledAsStub
  BY <1>1 DEF IsScheduledAsBlob, IsScheduledAsStub
<1>3. ExpectedBlobs = {e \in NamesBelow : IsAskedFor(e)}
  BY <1>1, <1>2 DEF ExpectedBlobs, StubsBelow
<1>4. ASSUME NEW e
      PROVE  e \in FlatItems /\ ~RepresentsAFolder(e) <=> e \in NamesBelow
  <2>1. SvRoot \in SvReach
    BY DEF SvReach
  <2>2. e \in FlatItems <=>
          e \in UNION {ItemsOf(d) : d \in SvReach} /\ (svRecursive \/ e \in ItemsOf(SvRoot))
    BY <2>1 DEF FlatItems, SvReach
  <2> QED BY <1>1, <2>2, NamesAre DEF InNames
<1>5. ASSUME NEW e \in NamesBelow
      PROVE  PassesFilters(e) <=> IsAskedFor(e)
  <2>1. permanentDelete \in {"none", "snapshots", "versions", "both"}
    BY DEF OptionTypes
  <2>2. CASE permanentDelete = "none"
    BY <2>2 DEF PassesFilters, IsAskedFor
  <2>3. CASE permanentDelete = "versions"
    BY <2>3 DEF PassesFilters, IsAskedFor, IsDeleted, HasSnapshotId, HasVersionId,
                IncludesSnapshots, IncludesVersions
  <2>4. CASE permanentDelete \in {"snapshots", "both"}
    BY <2>4 DEF PassesFilters, IsAskedFor, IsDeleted, HasSnapshotId, HasVersionId,
                IncludesSnapshots, IncludesVersions
  <2> QED BY <2>1, <2>2, <2>3, <2>4
<1> QED BY <1>2, <1>3, <1>4, <1>5

(* A crawl that has ended without an error has come to every folder. *)
LEMMA AllFoldersArePast ==
    ASSUME OptionTypes, IsBlobListing, svRecursive,
           NEW past, NEW sent, NEW said, PagesInv(past, {}, {}, sent, said),
           \A e \in sent : e.kind # "error"
    PROVE  \A d \in SvReach : d \in past \/ (IsBare(d) /\ d # SvRoot)
<1> DEFINE s == {p \in Below[SvRoot] : p \in SvFolders => p \in past \/ IsBare(p)}
<1>1. past \subseteq SvFolders /\ SvRoot \in past /\ SvRoot \in SvFolders
  BY FoldersArePaths DEF PagesInv, FoldersOnce
<1>2. ASSUME NEW d \in past, NEW p \in Directly(d) \cap SvFolders
      PROVE  p \in past \/ IsBare(p)
  <2>1. p \in SvFolders \ {SvRoot} /\ SvIn[p] = d
    BY DEF Directly
  <2>2. CASE IsPrefix(p)
    <3>1. EntryOf("prefix", p) \in PageOf(d)
      BY <2>1, <2>2, FolderIsOnPage
    <3>2. EntryOf("error", d) \notin sent
      BY <1>1, ErrorIs
    <3>3. IsSettled(EntryOf("prefix", p), past, {}, sent, said)
      BY <3>1, <3>2 DEF PagesInv, AllSettled
    <3> QED BY <3>3 DEF IsSettled, IsFolderEntry, EntryOf
  <2>3. CASE ~IsPrefix(p)
    <3>1. p \in SvHollow /\ atSlash[p] = "nothing"
      BY <2>1, <2>3, PrefixOrBare
    <3> QED BY <2>1, <3>1 DEF IsBare
  <2> QED BY <2>2, <2>3
<1>3. ASSUME NEW d \in SvFolders, IsBare(d), NEW p \in Directly(d) \cap SvFolders
      PROVE  IsBare(p)
  BY <1>3, BareFolders DEF Directly
<1>4. HoldsAllBelow(s, SvRoot)
  <2>1. Directly(SvRoot) \subseteq s
    BY <1>1, <1>2, BelowFacts
  <2>2. ASSUME NEW d \in s \cap SvFolders
        PROVE  Directly(d) \subseteq s
    BY <1>1, <1>2, <1>3, BelowFacts
  <2> QED BY <2>1, <2>2 DEF HoldsAllBelow
<1>5. Below[SvRoot] \subseteq s
  BY <1>1, <1>4, BelowFacts
<1> QED BY <1>1, <1>5 DEF SvReach, IsBare

(* ... and has handed on what there is: *)
LEMMA BlobsEnd ==
    ASSUME OptionTypes, lists = "parallel",
           NEW past, PagesInv(past, {}, {}, got, unsaid), AreEntries(got),
           \A e \in got : e.kind # "error"
    PROVE  got = ExpectedBlobs
<1>1. IsBlobListing /\ permanentDelete = "none"
  BY DEF OptionTypes, IsBlobListing
<1>2. /\ FoldersOnce(past, {}, {}) /\ SentOnce(past, {}, got, unsaid)
      /\ AllSettled(past, {}, {}, got, unsaid) /\ RootSettled(got, unsaid)
  BY DEF PagesInv
<1>3. /\ past \subseteq SvFolders /\ SvRoot \in past /\ SvRoot \in SvFolders
      /\ past \subseteq SvReach
      /\ ~svRecursive => past = {SvRoot}
  BY <1>2, FoldersArePaths DEF FoldersOnce, SvReach
<1>4. ~IsScheduledAsBlob /\ (EntryOf("folder", SvRoot) \in got <=> IsScheduledAsStub)
      /\ EntryOf("folder", SvRoot) \notin unsaid
  BY <1>1, <1>2 DEF RootSettled, IsBlobListing
<1>5. ExpectedBlobs = NamesBelow \cup (StubsBelow \ unsaid)
  BY <1>1, <1>4 DEF ExpectedBlobs, IsAskedFor
<1>6. ASSUME NEW d \in past, NEW e \in PageOf(d)
      PROVE  IsSettled(e, past, {}, got, unsaid)
  <2>1. EntryOf("error", d) \notin got
    BY <1>3, ErrorIs
  <2> QED BY <1>2, <2>1 DEF AllSettled
<1>7. svRecursive => \A d \in SvReach : d \in past \/ (IsBare(d) /\ d # SvRoot)
  BY <1>1, AllFoldersArePast
<1>8. ASSUME NEW e \in NamesBelow PROVE e \in got
  <2>1. InNames(e)
    BY <1>1, NamesAre
  <2>2. PICK d \in SvReach : e \in ItemsOf(d) /\ (svRecursive \/ d = SvRoot)
    BY <2>1 DEF InNames, SvReach
  <2>3. d \in SvFolders
    BY <1>3 DEF SvReach
  <2>4. d \in past
    BY <1>1, <1>3, <1>7, <2>2, <2>3, BareFolders
  <2>5. e \in PageOf(d) /\ e.kind # "prefix"
    BY <1>1, <2>2, <2>3, ItemIs DEF PageOf, BlobPage
  <2>6. IsSettled(e, past, {}, got, unsaid)
    BY <1>6, <2>4, <2>5
  <2> QED BY <1>1, <2>1, <2>5, <2>6 DEF IsSettled, InNames, IsBlobListing
<1>9. ASSUME NEW e \in StubsBelow \ unsaid PROVE e \in got
  <2>1. dirStubs /\ svRecursive
    BY DEF StubsBelow
  <2>2. PICK f \in SvReach : /\ e = EntryOf("folder", f)
                             /\ IF f = SvRoot THEN AtRoot = "stub" ELSE IsPrefix(f) /\ HasStub(f)
    BY <2>1 DEF StubsBelow, SvReach
  <2>3. CASE f = SvRoot
    BY <1>4, <2>1, <2>2, <2>3 DEF IsScheduledAsStub
  <2>4. CASE f # SvRoot
    <3>1. f \in Below[SvRoot] /\ f \in SvFolders \ {SvRoot}
      BY <2>4 DEF SvReach
    <3>2. SvIn[f] \in SvReach /\ SvIn[f] \in SvFolders
      BY <1>3, <3>1, ParentOfBelow DEF SvReach
    <3>3. SvIn[f] \in past
      <4>1. CASE IsBare(SvIn[f])
        BY <2>2, <2>4, <3>1, <3>2, <4>1, BareFolders
      <4> QED BY <1>7, <2>1, <3>2, <4>1
    <3>4. EntryOf("prefix", f) \in PageOf(SvIn[f])
      BY <1>1, <2>2, <2>4, <3>1, FolderIsOnPage
    <3>5. IsSettled(EntryOf("prefix", f), past, {}, got, unsaid)
      BY <1>6, <3>3, <3>4
    <3>6. EntryOf("prefix", f).kind = "prefix" /\ EntryOf("prefix", f).path = f
      BY DEF EntryOf
    <3>7. IsSentAsStub(EntryOf("prefix", f))
      BY <2>1, <2>2, <2>4, <3>6 DEF IsSentAsStub
    <3> QED BY <2>2, <3>5, <3>6, <3>7 DEF IsSettled
  <2> QED BY <2>3, <2>4
<1>10. ASSUME NEW e \in got PROVE e \in NamesBelow \cup (StubsBelow \ unsaid)
  <2>1. e \in SvEntries /\ e.ok = TRUE /\ e.kind # "error" /\ e \notin unsaid
    BY <1>2 DEF AreEntries, SentOnce
  <2>2. CASE e \in RootsOwn
    <3>1. e = EntryOf("folder", SvRoot) /\ IsScheduledAsStub
      BY <1>4, <2>2 DEF RootsOwn
    <3> QED BY <2>1, <3>1 DEF IsScheduledAsStub, StubsBelow
  <2>3. CASE e \notin RootsOwn
    <3>1. /\ Owner(e) \in past /\ Origin(e) \in PageOf(Owner(e))
          /\ e.kind # "prefix" /\ ~RepresentsAFolder(e)
          /\ e.kind = "folder" => IsSentAsStub(e)
      BY <1>1, <1>2, <2>1, <2>3 DEF SentOnce
    <3>2. IsOnPage(Origin(e), Owner(e))
      BY <1>3, <3>1, PageIs
    <3>3. CASE e.kind = "folder"
      <4>1. Origin(e).kind = "prefix" /\ Origin(e).path = e.path
        BY <1>1, <3>3 DEF Origin, EntryOf
      <4>2. e.path \in SvFolders \ {SvRoot} /\ SvIn[e.path] \in past /\ IsPrefix(e.path)
        BY <1>1, <3>1, <3>2, <3>3, <4>1 DEF IsOnPage, IsFolderEntry
      <4>3. svRecursive /\ dirStubs /\ HasStub(e.path)
        BY <3>1, <3>3 DEF IsSentAsStub
      <4>4. e.path \in SvReach
        BY <1>3, <4>2, InBelow, FoldersArePaths DEF SvReach
      <4>5. e = EntryOf("folder", e.path)
        BY <2>1, <3>3, EntryIs
      <4>6. e.path \in {SvRoot} \cup (Below[SvRoot] \cap SvFolders)
        BY <4>4 DEF SvReach
      <4> QED BY <2>1, <4>2, <4>3, <4>5, <4>6 DEF StubsBelow
    <3>4. CASE e.kind # "folder"
      <4>1. Origin(e) = e
        BY <3>4 DEF Origin
      <4>2. e \in ItemsOf(Owner(e))
        BY <1>1, <3>1, <3>2, <4>1 DEF IsOnPage
      <4>3. Owner(e) \in SvReach /\ (~svRecursive => Owner(e) = SvRoot)
        BY <1>3, <3>1
      <4>4. InNames(e)
        BY <3>1, <4>2, <4>3 DEF InNames
      <4> QED BY <1>1, <4>4, NamesAre
    <3> QED BY <3>3, <3>4
  <2> QED BY <2>2, <2>3
<1> QED BY <1>5, <1>8, <1>9, <1>10

(* What there is of a path in a share. *)
ShareEntry(p) == EntryOf(IF p \in SvFolders THEN "folder" ELSE "leaf", p)

(* It is on the page of the folder that it is in. *)
LEMMA ShareEntryIsOnPage ==
    ASSUME OptionTypes, lists = "share", NEW p \in SvPaths \ {SvRoot}
    PROVE  /\ ShareEntry(p) \in PageOf(SvIn[p]) /\ ShareEntry(p).kind \in {"folder", "leaf"}
           /\ ShareEntry(p).path = p /\ (p \in SvFolders => IsFolderEntry(ShareEntry(p)))
<1>1. ~IsBlobListing
  BY DEF IsBlobListing
<1>2. CASE p \in SvFolders
  <2>1. ShareEntry(p) = EntryOf("folder", p)
    BY <1>2 DEF ShareEntry
  <2>2. ShareEntry(p).kind = "folder" /\ ShareEntry(p).path = p
    BY <2>1 DEF EntryOf
  <2> QED BY <1>1, <1>2, <2>1, <2>2, FolderIsOnPage DEF IsFolderEntry
<1>3. CASE p \notin SvFolders
  <2>1. ShareEntry(p) = EntryOf("leaf", p)
    BY <1>3 DEF ShareEntry
  <2>2. ShareEntry(p).kind = "leaf" /\ ShareEntry(p).path = p
    BY <2>1 DEF EntryOf
  <2>3. p \in LeavesIn(SvIn[p])
    BY <1>1, <1>3 DEF LeavesIn, SvPaths
  <2>4. ShareEntry(p) \in PageOf(SvIn[p])
    BY <1>1, <2>1, <2>3 DEF PageOf, SharePage
  <2> QED BY <1>3, <2>2, <2>4
<1> QED BY <1>2, <1>3

(* A crawl of a share that has ended has handed on everything, but for     *)
(* what was skipped, logged, or below what was.                            *)
LEMMA ShareEnd ==
    ASSUME OptionTypes, lists = "share", \A e \in got : e.kind # "error",
           EntryOf("folder", SvRoot) \in got \cup unsaid, AreEntries(logged),
           NEW past, PagesInv(past, {}, {}, got \cup logged, unsaid)
    PROVE  ExpectedEntries \subseteq got
<1> DEFINE sent == got \cup logged
           IsThere(p) == \/ p \in Hidden
                         \/ /\ p \in SvFolders => p \in past \/ ~svRecursive
                            /\ IsSkipped(ShareEntry(p)) \/ ShareEntry(p) \in sent
           s == {p \in Below[SvRoot] : IsThere(p)}
<1>1. FoldersOnce(past, {}, {}) /\ AllSettled(past, {}, {}, sent, unsaid)
  BY DEF PagesInv
<1>2. past \subseteq SvFolders /\ SvRoot \in past /\ SvRoot \in SvFolders
  BY <1>1, FoldersArePaths DEF FoldersOnce
<1>3. \A d \in SvFolders : EntryOf("error", d) \in sent => d \in Unreadable
  BY ErrorIs DEF Unreadable
<1>4. Unreadable \subseteq past
  BY DEF PagesInv, SentOnce, Unreadable
<1> HIDE DEF sent
<1>5. ASSUME NEW d \in past, NEW p \in Directly(d)
      PROVE  IsThere(p)
  <2>1. p \in SvPaths \ {SvRoot} /\ SvIn[p] = d /\ d \in SvFolders
    BY <1>2 DEF Directly
  <2>2. CASE d \in Unreadable
    BY <2>1, <2>2, BelowFacts DEF Hidden
  <2>3. CASE d \notin Unreadable
    <3>1. EntryOf("error", d) \notin sent
      BY <1>3, <2>1, <2>3
    <3>2. /\ ShareEntry(p) \in PageOf(d) /\ ShareEntry(p).kind \in {"folder", "leaf"}
          /\ ShareEntry(p).path = p /\ (p \in SvFolders => IsFolderEntry(ShareEntry(p)))
      BY <2>1, ShareEntryIsOnPage
    <3>3. IsSettled(ShareEntry(p), past, {}, sent, unsaid)
      BY <1>1, <3>1, <3>2 DEF AllSettled
    <3>4. ~RepresentsAFolder(ShareEntry(p))
      BY <3>2 DEF RepresentsAFolder
    <3> QED BY <3>2, <3>3, <3>4 DEF IsSettled
  <2> QED BY <2>2, <2>3
<1>6. ASSUME NEW d \in Hidden \cap SvFolders, NEW p \in Directly(d)
      PROVE  p \in Hidden
  <2>1. PICK u \in Unreadable : d \in Below[u]
    BY DEF Hidden
  <2>2. p \in Below[u]
    BY <1>2, <1>4, <2>1, BelowFacts
  <2> QED BY <2>2 DEF Hidden
<1>7. svRecursive => HoldsAllBelow(s, SvRoot)
  <2>1. Directly(SvRoot) \subseteq s
    BY <1>2, <1>5, BelowFacts
  <2>2. ASSUME svRecursive, NEW d \in s \cap SvFolders, NEW p \in Directly(d)
        PROVE  p \in s
    <3>1. p \in Below[SvRoot]
      BY <1>2, BelowFacts
    <3>2. IsThere(p)
      BY <1>5, <1>6, <2>2
    <3> QED BY <3>1, <3>2
  <2> QED BY <2>1, <2>2 DEF HoldsAllBelow
<1>8. \A p \in IF svRecursive THEN Below[SvRoot] ELSE Directly(SvRoot) : IsThere(p)
  <2>1. svRecursive => Below[SvRoot] \subseteq s
    BY <1>2, <1>7, BelowFacts
  <2> HIDE DEF IsThere
  <2> QED BY <1>2, <1>5, <2>1
<1>9. ASSUME NEW e \in ExpectedEntries PROVE e \in got
  <2>1. CASE e = EntryOf("folder", SvRoot) /\ e \notin unsaid
    BY <2>1
  <2>2. CASE \E p \in (IF svRecursive THEN Below[SvRoot] ELSE Directly(SvRoot)) \ Hidden :
                e = ShareEntry(p) /\ ~IsSkipped(e) /\ e \notin logged
    BY <1>8, <2>2 DEF sent
  <2>3. e \in ({EntryOf("folder", SvRoot)} \ unsaid)
              \cup {x \in {ShareEntry(p) : p \in (IF svRecursive THEN Below[SvRoot] ELSE Directly(SvRoot)) \ Hidden} :
                       ~IsSkipped(x) /\ x \notin logged}
    BY DEF ExpectedEntries, ShareEntry
  <2> QED BY <2>1, <2>2, <2>3
<1> QED BY <1>9

(* Nothing is on an empty line. *)
LEMMA EmptyLine == OnLine(<<>>) = {} /\ KeysOf(<<>>) = {} /\ OncePerLine(<<>>)
BY DEF OnLine, KeysOf, OncePerLine

(* An entry is put on a line, ... *)
LEMMA LongerLine ==
    ASSUME NEW s \in Seq(SvEntries), NEW e \in SvEntries
    PROVE  /\ Append(s, e) \in Seq(SvEntries) /\ Len(Append(s, e)) = Len(s) + 1
           /\ OnLine(Append(s, e)) = OnLine(s) \cup {e}
           /\ KeysOf(Append(s, e)) = KeysOf(s) \cup {EntryKey(e)}
           /\ OncePerLine(s) /\ (e.kind # "error" => EntryKey(e) \notin KeysOf(s)) => OncePerLine(Append(s, e))
<1>1. /\ Append(s, e) \in Seq(SvEntries) /\ Len(Append(s, e)) = Len(s) + 1 /\ Len(s) \in Nat
      /\ \A i \in 1 .. Len(s) : Append(s, e)[i] = s[i] /\ s[i] \in SvEntries
      /\ Append(s, e)[Len(s) + 1] = e
  OBVIOUS
<1>2. OnLine(Append(s, e)) = OnLine(s) \cup {e}
  <2>1. ASSUME NEW i \in 1 .. Len(s) + 1
        PROVE  Append(s, e)[i] \in OnLine(s) \cup {e}
    <3>1. i \in 1 .. Len(s) \/ i = Len(s) + 1
      BY <1>1
    <3> QED BY <1>1, <3>1 DEF OnLine
  <2>2. OnLine(s) \subseteq OnLine(Append(s, e))
    BY <1>1 DEF OnLine
  <2>3. e \in OnLine(Append(s, e))
    BY <1>1 DEF OnLine
  <2>4. OnLine(Append(s, e)) = {Append(s, e)[i] : i \in 1 .. Len(s) + 1}
    BY <1>1 DEF OnLine
  <2> QED BY <2>1, <2>2, <2>3, <2>4
<1>3. KeysOf(Append(s, e)) = KeysOf(s) \cup {EntryKey(e)}
  BY <1>2 DEF KeysOf
<1>4. ASSUME OncePerLine(s), e.kind # "error" => EntryKey(e) \notin KeysOf(s)
      PROVE  OncePerLine(Append(s, e))
  <2> DEFINE t == Append(s, e)
  <2>1. ASSUME NEW i \in 1 .. Len(s) + 1, NEW j \in 1 .. Len(s) + 1,
               EntryKey(t[i]) = EntryKey(t[j]), t[i].kind # "error"
        PROVE  i = j
    <3>1. \A k \in 1 .. Len(s) : EntryKey(s[k]) \in KeysOf(s) /\ EntryKey(s[k]).kind = s[k].kind
      BY <1>1, KeyFacts DEF KeysOf, OnLine
    <3>2. EntryKey(e).kind = e.kind
      BY KeyFacts
    <3>3. CASE i \in 1 .. Len(s) /\ j \in 1 .. Len(s)
      BY <1>1, <1>4, <2>1, <3>3 DEF OncePerLine
    <3>4. CASE i = Len(s) + 1 /\ j \in 1 .. Len(s)
      BY <1>1, <1>4, <2>1, <3>1, <3>4
    <3>5. CASE i \in 1 .. Len(s) /\ j = Len(s) + 1
      BY <1>1, <1>4, <2>1, <3>1, <3>2, <3>5
    <3> QED BY <1>1, <3>3, <3>4, <3>5
  <2>2. Len(t) = Len(s) + 1
    BY <1>1
  <2> QED BY <2>1, <2>2 DEF OncePerLine
<1> QED BY <1>1, <1>2, <1>3, <1>4

(* ... and taken from its head. *)
LEMMA ShorterLine ==
    ASSUME NEW s \in Seq(SvEntries), s # <<>>
    PROVE  /\ Tail(s) \in Seq(SvEntries) /\ Len(Tail(s)) = Len(s) - 1 /\ Head(s) \in SvEntries
           /\ Len(s) \in Nat
           /\ OnLine(s) = OnLine(Tail(s)) \cup {Head(s)}
           /\ KeysOf(s) = KeysOf(Tail(s)) \cup {EntryKey(Head(s))}
           /\ OncePerLine(s) => OncePerLine(Tail(s))
           /\ OncePerLine(s) /\ Head(s).kind # "error" => EntryKey(Head(s)) \notin KeysOf(Tail(s))
<1>1. /\ Tail(s) \in Seq(SvEntries) /\ Len(Tail(s)) = Len(s) - 1 /\ Head(s) = s[1]
      /\ Len(s) \in Nat /\ Len(s) >= 1
      /\ \A i \in 1 .. Len(s) - 1 : Tail(s)[i] = s[i + 1]
      /\ \A i \in 1 .. Len(s) : s[i] \in SvEntries
  OBVIOUS
<1>2. OnLine(s) = OnLine(Tail(s)) \cup {Head(s)}
  <2>1. ASSUME NEW i \in 1 .. Len(s)
        PROVE  s[i] \in OnLine(Tail(s)) \cup {Head(s)}
    <3>1. CASE i = 1
      BY <1>1, <3>1
    <3>2. CASE i # 1
      <4>1. i - 1 \in 1 .. Len(s) - 1 /\ Tail(s)[i - 1] = s[i]
        BY <1>1, <3>2
      <4> QED BY <1>1, <4>1 DEF OnLine
    <3> QED BY <3>1, <3>2
  <2>2. ASSUME NEW i \in 1 .. Len(s) - 1
        PROVE  Tail(s)[i] \in OnLine(s)
    <3>1. i + 1 \in 1 .. Len(s) /\ Tail(s)[i] = s[i + 1]
      BY <1>1
    <3> QED BY <3>1 DEF OnLine
  <2>3. Head(s) \in OnLine(s)
    BY <1>1 DEF OnLine
  <2>4. OnLine(Tail(s)) = {Tail(s)[i] : i \in 1 .. Len(s) - 1}
    BY <1>1 DEF OnLine
  <2>5. OnLine(s) = {s[i] : i \in 1 .. Len(s)}
    BY DEF OnLine
  <2> QED BY <2>1, <2>2, <2>3, <2>4, <2>5
<1>3. KeysOf(s) = KeysOf(Tail(s)) \cup {EntryKey(Head(s))}
  BY <1>2 DEF KeysOf
<1>4. ASSUME OncePerLine(s) PROVE OncePerLine(Tail(s))
  <2>1. ASSUME NEW i \in 1 .. Len(s) - 1, NEW j \in 1 .. Len(s) - 1,
               EntryKey(Tail(s)[i]) = EntryKey(Tail(s)[j]), Tail(s)[i].kind # "error"
        PROVE  i = j
    <3>1. /\ i + 1 \in 1 .. Len(s) /\ j + 1 \in 1 .. Len(s)
          /\ Tail(s)[i] = s[i + 1] /\ Tail(s)[j] = s[j + 1]
      BY <1>1
    <3>2. i + 1 = j + 1
      BY <1>4, <2>1, <3>1 DEF OncePerLine
    <3> QED BY <3>2
  <2> QED BY <1>1, <2>1 DEF OncePerLine
<1>5. ASSUME OncePerLine(s), Head(s).kind # "error",
             EntryKey(Head(s)) \in KeysOf(Tail(s)) PROVE FALSE
  <2>1. PICK e \in OnLine(Tail(s)) : EntryKey(e) = EntryKey(Head(s))
    BY <1>5 DEF KeysOf
  <2>2. PICK i \in 1 .. Len(s) - 1 : e = Tail(s)[i]
    BY <1>1, <2>1 DEF OnLine
  <2>3. i + 1 \in 1 .. Len(s) /\ e = s[i + 1] /\ 1 \in 1 .. Len(s) /\ i + 1 # 1
    BY <1>1, <2>2
  <2> QED BY <1>1, <1>5, <2>1, <2>3 DEF OncePerLine
<1> QED BY <1>1, <1>2, <1>3, <1>4, <1>5

(* What the line is, and what is on it. *)
LineInv == LineTypes /\ PlaceInv /\ ConversionInv

(* What is skipped depends on the options. *)
LEMMA SkippedFrame ==
    ASSUME UNCHANGED svOptions
    PROVE  /\ \A e : IsSkipped(e)' <=> IsSkipped(e)
           /\ IsBlobListing' <=> IsBlobListing
           /\ lists' = lists /\ permanentDelete' = permanentDelete
BY DEF svOptions, IsSkipped, IsBlobListing

(* What was sent, handed on and logged are entries. *)
LEMMA SentAre ==
    ASSUME LineTypes, ConversionInv
    PROVE  /\ AreEntries(SentOn) /\ AreEntries(unsaid) /\ AreEntries(got) /\ AreEntries(logged)
           /\ \A e \in unsaid \cup got : e.kind # "error"
<1>1. ASSUME NEW s \in Seq(SvEntries) PROVE AreEntries(KeysOf(s))
  <2>1. \A i \in 1 .. Len(s) : s[i] \in SvEntries
    OBVIOUS
  <2>2. \A e \in OnLine(s) : EntryKey(e) \in SvEntries /\ EntryKey(e).ok
    BY <2>1, KeyFacts DEF OnLine
  <2> QED BY <2>2 DEF KeysOf, AreEntries
<1>2. AreEntries(AtConverters)
  <2>1. ~IsEntry(NoEntry) /\ ~IsEntry(Finished)
    BY DEF IsEntry, NoEntry, Finished
  <2>2. \A c \in SvConverters : IsEntry(converter[c]) => converter[c] \in SvEntries
    BY <2>1 DEF LineTypes
  <2>3. \A c \in SvConverters : IsEntry(converter[c]) =>
           EntryKey(converter[c]) \in SvEntries /\ EntryKey(converter[c]).ok
    BY <2>2, KeyFacts
  <2> QED BY <2>3 DEF AtConverters, AreEntries
<1>3. AreEntries(KeysOf(crawled)) /\ AreEntries(KeysOf(converted))
  BY <1>1 DEF LineTypes
<1>4. AreEntries(unsaid) /\ AreEntries(got) /\ AreEntries(logged)
  BY DEF LineTypes, ConversionInv, AreEntries
<1>5. AreEntries(SentOn)
  BY <1>2, <1>3, <1>4 DEF SentOn, AreEntries
<1> QED BY <1>4, <1>5 DEF ConversionInv

(* A worker of the crawl sends an entry. *)
LEMMA SendKeeps ==
    ASSUME LineInv, NEW e \in SvEntries, e.ok <=> e.kind # "error", Send(e),
           e.kind # "error" => EntryKey(e) \notin SentOn,
           UNCHANGED <<svOptions, converter, converted, got, gotTwice, unsaid, logged>>
    PROVE  LineInv' /\ SentOn' = SentOn \cup {EntryKey(e)}
<1>1. /\ crawled' = Append(crawled, e) /\ Len(crawled) < SvRoom /\ crawled \in Seq(SvEntries)
      /\ SvRoom \in Nat
  BY ServiceScanAssumption DEF LineInv, LineTypes, Send
<1>2. /\ crawled' \in Seq(SvEntries) /\ Len(crawled') <= SvRoom
      /\ OnLine(crawled') = OnLine(crawled) \cup {e}
      /\ KeysOf(crawled') = KeysOf(crawled) \cup {EntryKey(e)}
      /\ OncePerLine(crawled) /\ (e.kind # "error" => EntryKey(e) \notin KeysOf(crawled)) => OncePerLine(crawled')
  BY <1>1, LongerLine
<1>3. AtConverters' = AtConverters
  BY DEF AtConverters
<1>4. SentOn' = SentOn \cup {EntryKey(e)}
  BY <1>2, <1>3 DEF SentOn
<1>5. EntryKey(e).kind = e.kind
  BY KeyFacts
<1>6. LineTypes'
  BY <1>2 DEF LineInv, LineTypes
<1>7. PlaceInv'
  <2>1. e.kind # "error" => /\ EntryKey(e) \notin KeysOf(crawled) /\ EntryKey(e) \notin AtConverters
                            /\ EntryKey(e) \notin KeysOf(converted)
                            /\ EntryKey(e) \notin got \cup logged
    BY DEF SentOn
  <2>2. OncePerLine(crawled')
    BY <1>2, <2>1 DEF LineInv, PlaceInv
  <2>3. /\ Apart(KeysOf(crawled'), AtConverters) /\ Apart(KeysOf(crawled'), KeysOf(converted))
        /\ Apart(KeysOf(crawled'), got \cup logged)
    BY <1>2, <1>5, <2>1 DEF LineInv, PlaceInv, Apart
  <2> QED BY <1>3, <2>2, <2>3 DEF LineInv, PlaceInv
<1>8. ConversionInv'
  BY <1>2, <1>3, SkippedFrame DEF LineInv, ConversionInv
<1> QED BY <1>4, <1>6, <1>7, <1>8 DEF LineInv

(* A worker of Transform takes one, ... *)
LEMMA ReceiveKeeps ==
    ASSUME LineInv, NEW c \in SvConverters, Receive(c)
    PROVE  LineInv' /\ SentOn' = SentOn
<1> USE DEF LineInv
<1>1. /\ converter[c] = NoEntry /\ ~IsEntry(NoEntry) /\ ~IsEntry(Finished)
      /\ UNCHANGED <<svOptions, converted, got, gotTwice, unsaid, logged>>
      /\ converter \in [SvConverters -> SvEntries \cup {NoEntry, Finished}]
      /\ crawled \in Seq(SvEntries) /\ Len(crawled) <= SvRoom /\ SvRoom \in Nat
  BY ServiceScanAssumption DEF Receive, svOutcome, IsEntry, NoEntry, Finished, LineTypes
<1>2. CASE crawled # <<>> /\ converter' = [converter EXCEPT ![c] = Head(crawled)] /\ crawled' = Tail(crawled)
  <2> DEFINE k == EntryKey(Head(crawled))
  <2>1. /\ crawled' \in Seq(SvEntries) /\ Len(crawled') <= SvRoom /\ Head(crawled) \in SvEntries
        /\ OnLine(crawled) = OnLine(crawled') \cup {Head(crawled)}
        /\ KeysOf(crawled) = KeysOf(crawled') \cup {k}
        /\ OncePerLine(crawled) => OncePerLine(crawled')
        /\ OncePerLine(crawled) /\ Head(crawled).kind # "error" => k \notin KeysOf(crawled')
    BY <1>1, <1>2, ShorterLine
  <2>2. k.kind = Head(crawled).kind /\ IsEntry(Head(crawled))
    BY <2>1, KeyFacts
  <2>3. /\ converter'[c] = Head(crawled) /\ \A b \in SvConverters \ {c} : converter'[b] = converter[b]
        /\ converter' \in [SvConverters -> SvEntries \cup {NoEntry, Finished}]
    BY <1>1, <1>2, <2>1
  <2>4. AtConverters' = AtConverters \cup {k}
    BY <1>1, <2>2, <2>3 DEF AtConverters
  <2> HIDE DEF k
  <2>5. SentOn' = SentOn
    BY <1>1, <2>1, <2>4 DEF SentOn
  <2>6. LineTypes'
    BY <1>1, <2>1, <2>3 DEF LineTypes
  <2>7. PlaceInv'
    <3>1. k.kind # "error" => /\ k \notin KeysOf(crawled') /\ k \notin AtConverters
                              /\ k \notin KeysOf(converted) /\ k \notin got \cup logged
      BY <2>1, <2>2 DEF PlaceInv, Apart
    <3>2. /\ Apart(KeysOf(crawled'), AtConverters') /\ Apart(AtConverters', KeysOf(converted))
          /\ Apart(AtConverters', got \cup logged) /\ Apart(KeysOf(crawled'), KeysOf(converted))
          /\ Apart(KeysOf(crawled'), got \cup logged) /\ OncePerLine(crawled')
      BY <2>1, <2>4, <3>1 DEF PlaceInv, Apart
    <3>3. ASSUME NEW a \in SvConverters, NEW b \in SvConverters,
                 IsEntry(converter'[a]), IsEntry(converter'[b]), converter'[a].kind # "error",
                 EntryKey(converter'[a]) = EntryKey(converter'[b])
          PROVE  a = b
      <4>1. CASE a = c /\ b # c
        <5>1. k \in AtConverters
          BY <2>3, <3>3, <4>1 DEF AtConverters, k
        <5>2. k.kind # "error"
          BY <2>2, <2>3, <3>3, <4>1
        <5> QED BY <3>1, <5>1, <5>2
      <4>2. CASE a # c /\ b = c
        <5>1. EntryKey(converter[a]) \in AtConverters /\ EntryKey(converter[a]) = k
          BY <2>3, <3>3, <4>2 DEF AtConverters, k
        <5>2. converter[a] \in SvEntries /\ converter[a].kind # "error"
          BY <1>1, <2>3, <3>3, <4>2
        <5>3. EntryKey(converter[a]).kind # "error"
          BY <5>2, KeyFacts
        <5> QED BY <3>1, <5>1, <5>3
      <4>3. CASE a # c /\ b # c
        BY <2>3, <3>3, <4>3 DEF PlaceInv
      <4> QED BY <4>1, <4>2, <4>3
    <3> QED BY <1>1, <3>2, <3>3 DEF PlaceInv
  <2>8. ConversionInv'
    <3>1. ~IsBlobListing
      BY <1>1 DEF ConversionInv, NoEntry, Finished
    <3>2. Head(crawled) \in OnLine(crawled) /\ OnLine(crawled') \subseteq OnLine(crawled)
      BY <2>1
    <3>3. \A b \in SvConverters : IsEntry(converter'[b]) =>
             (converter'[b].ok <=> converter'[b].kind # "error")
      BY <2>3, <3>2 DEF ConversionInv
    <3> QED BY <1>1, <3>1, <3>2, <3>3, SkippedFrame DEF ConversionInv
  <2> QED BY <2>5, <2>6, <2>7, <2>8
<1>3. CASE crawled = <<>> /\ converter' = [converter EXCEPT ![c] = Finished] /\ UNCHANGED crawled
  <2>1. /\ converter'[c] = Finished /\ \A b \in SvConverters \ {c} : converter'[b] = converter[b]
        /\ converter' \in [SvConverters -> SvEntries \cup {NoEntry, Finished}]
    BY <1>1, <1>3
  <2>2. AtConverters' = AtConverters
    BY <1>1, <2>1 DEF AtConverters
  <2>3. SentOn' = SentOn
    BY <1>1, <1>3, <2>2 DEF SentOn
  <2>4. LineTypes'
    BY <1>1, <1>3, <2>1 DEF LineTypes
  <2>5. PlaceInv'
    <3>1. \A b \in SvConverters : IsEntry(converter'[b]) => b # c /\ converter'[b] = converter[b]
      BY <1>1, <2>1
    <3> QED BY <1>1, <1>3, <2>2, <3>1 DEF PlaceInv
  <2>6. ConversionInv'
    <3>1. \A b \in SvConverters : IsEntry(converter'[b]) => b # c /\ converter'[b] = converter[b]
      BY <1>1, <2>1
    <3>2. ~IsBlobListing
      BY <1>1 DEF ConversionInv, NoEntry, Finished
    <3> QED BY <1>1, <1>3, <3>1, <3>2, SkippedFrame DEF ConversionInv
  <2> QED BY <2>3, <2>4, <2>5, <2>6
<1> QED BY <1>2, <1>3 DEF Receive

(* What a worker of Transform puts down. *)
LEMMA Released ==
    ASSUME LineInv, NEW c \in SvConverters, IsEntry(converter[c]),
           converter' = [converter EXCEPT ![c] = NoEntry]
    PROVE  /\ converter[c] \in SvEntries /\ EntryKey(converter[c]).kind = converter[c].kind
           /\ \A b \in SvConverters : IsEntry(converter'[b]) => b # c /\ converter'[b] = converter[b]
           /\ converter' \in [SvConverters -> SvEntries \cup {NoEntry, Finished}]
           /\ AtConverters = AtConverters' \cup {EntryKey(converter[c])}
           /\ converter[c].kind # "error" =>
                 /\ EntryKey(converter[c]) \notin AtConverters'
                 /\ EntryKey(converter[c]) \notin KeysOf(crawled)
                 /\ EntryKey(converter[c]) \notin KeysOf(converted)
                 /\ EntryKey(converter[c]) \notin got \cup logged
<1>1. /\ converter \in [SvConverters -> SvEntries \cup {NoEntry, Finished}]
      /\ ~IsEntry(NoEntry) /\ ~IsEntry(Finished)
  BY DEF LineInv, LineTypes, IsEntry, NoEntry, Finished
<1>2. converter[c] \in SvEntries
  BY <1>1
<1>3. EntryKey(converter[c]).kind = converter[c].kind
  BY <1>2, KeyFacts
<1>4. /\ \A b \in SvConverters : IsEntry(converter'[b]) => b # c /\ converter'[b] = converter[b]
      /\ \A b \in SvConverters \ {c} : converter'[b] = converter[b]
      /\ converter' \in [SvConverters -> SvEntries \cup {NoEntry, Finished}]
  BY <1>1
<1>5. AtConverters = AtConverters' \cup {EntryKey(converter[c])}
  BY <1>4 DEF AtConverters
<1>6. ASSUME converter[c].kind # "error", EntryKey(converter[c]) \in AtConverters' PROVE FALSE
  <2>1. PICK b \in SvConverters : IsEntry(converter'[b]) /\ EntryKey(converter'[b]) = EntryKey(converter[c])
    BY <1>6 DEF AtConverters
  <2>2. b # c /\ IsEntry(converter[b]) /\ EntryKey(converter[b]) = EntryKey(converter[c])
    BY <1>4, <2>1
  <2> QED BY <1>6, <2>2 DEF LineInv, PlaceInv
<1>7. converter[c].kind # "error" =>
         /\ EntryKey(converter[c]) \notin KeysOf(crawled)
         /\ EntryKey(converter[c]) \notin KeysOf(converted)
         /\ EntryKey(converter[c]) \notin got \cup logged
  BY <1>3, <1>5 DEF LineInv, PlaceInv, Apart
<1> QED BY <1>2, <1>3, <1>4, <1>5, <1>6, <1>7

(* ... and sends it on or leaves it out. *)
LEMMA ConvertKeeps ==
    ASSUME LineInv, NEW c \in SvConverters, Convert(c)
    PROVE  /\ LineInv' /\ SentOn' \subseteq SentOn /\ ~IsBlobListing
           /\ \A e \in SentOn \ SentOn' : IsSkipped(e)
<1> DEFINE x == converter[c]   k == EntryKey(x)
<1>1. /\ IsEntry(x) /\ converter' = [converter EXCEPT ![c] = NoEntry]
      /\ UNCHANGED <<svOptions, crawled, got, gotTwice, unsaid, logged>>
      /\ SvRoom \in Nat /\ converted \in Seq(SvEntries) /\ Len(converted) <= SvRoom
  BY ServiceScanAssumption DEF Convert, svOutcome, IsEntry, LineInv, LineTypes
<1>2. /\ x \in SvEntries /\ k.kind = x.kind
      /\ \A b \in SvConverters : IsEntry(converter'[b]) => b # c /\ converter'[b] = converter[b]
      /\ converter' \in [SvConverters -> SvEntries \cup {NoEntry, Finished}]
      /\ AtConverters = AtConverters' \cup {k}
      /\ x.kind # "error" => /\ k \notin AtConverters' /\ k \notin KeysOf(crawled)
                             /\ k \notin KeysOf(converted) /\ k \notin got \cup logged
  BY <1>1, Released
<1>3. ~IsBlobListing /\ (x.ok <=> x.kind # "error")
  <2>1. ~IsEntry(Finished)
    BY DEF Finished, IsEntry
  <2>2. ~IsBlobListing
    BY <1>1, <2>1 DEF LineInv, ConversionInv
  <2>3. x.ok <=> x.kind # "error"
    BY <1>1 DEF LineInv, ConversionInv
  <2> QED BY <2>2, <2>3
<1>4. IsSkipped(k) <=> IsSkipped(x)
  BY <1>2, KeyFacts
<1>5. LineInv => PlaceInv /\ ConversionInv /\ LineTypes
  BY DEF LineInv
<1> HIDE DEF k, x
<1>6. CASE x.ok /\ IsSkipped(x) /\ UNCHANGED converted
  <2>1. /\ SentOn = SentOn' \cup {k}
    BY <1>1, <1>2, <1>6 DEF SentOn
  <2>2. LineTypes'
    BY <1>1, <1>2, <1>5, <1>6 DEF LineTypes
  <2>3. PlaceInv'
    BY <1>1, <1>2, <1>5, <1>6 DEF PlaceInv, Apart
  <2>4. ConversionInv'
    BY <1>1, <1>2, <1>3, <1>5, <1>6, SkippedFrame DEF ConversionInv
  <2> QED BY <1>3, <1>4, <1>6, <2>1, <2>2, <2>3, <2>4 DEF LineInv
<1>7. ASSUME NEW y \in SvEntries, converted' = Append(converted, y), Len(converted) < SvRoom,
             EntryKey(y) = k, y.kind = x.kind, y.kind = "error" => ~y.ok, y.ok => ~IsSkipped(y)
      PROVE  LineInv' /\ SentOn' = SentOn
  <2>1. /\ converted' \in Seq(SvEntries) /\ Len(converted') <= SvRoom
        /\ OnLine(converted') = OnLine(converted) \cup {y}
        /\ KeysOf(converted') = KeysOf(converted) \cup {k}
        /\ OncePerLine(converted) /\ (y.kind # "error" => k \notin KeysOf(converted)) => OncePerLine(converted')
    BY <1>1, <1>7, LongerLine
  <2>2. SentOn' = SentOn
    BY <1>1, <1>2, <2>1 DEF SentOn
  <2>3. LineTypes'
    BY <1>1, <1>2, <1>5, <2>1 DEF LineTypes
  <2>4. PlaceInv'
    <3>1. OncePerLine(converted')
      BY <1>2, <1>5, <1>7, <2>1 DEF PlaceInv
    <3>2. /\ Apart(KeysOf(crawled), AtConverters') /\ Apart(KeysOf(crawled), KeysOf(converted'))
          /\ Apart(AtConverters', KeysOf(converted')) /\ Apart(AtConverters', got \cup logged)
          /\ Apart(KeysOf(converted'), got \cup logged)
      BY <1>2, <1>5, <1>7, <2>1 DEF PlaceInv, Apart
    <3> QED BY <1>1, <1>2, <1>5, <3>1, <3>2 DEF PlaceInv
  <2>5. ConversionInv'
    <3>1. \A e \in OnLine(converted') : (e.kind = "error" => ~e.ok) /\ (e.ok => ~IsSkipped(e))
      BY <1>5, <1>7, <2>1 DEF ConversionInv
    <3> QED BY <1>1, <1>2, <1>3, <1>5, <3>1, SkippedFrame DEF ConversionInv
  <2> QED BY <2>2, <2>3, <2>4, <2>5 DEF LineInv
<1>8. CASE /\ ~x.ok \/ ~IsSkipped(x)
           /\ Len(converted) < SvRoom /\ converted' = Append(converted, x)
  <2>1. LineInv' /\ SentOn' = SentOn
    <3>1. EntryKey(x) = k
      BY DEF k
    <3> QED BY <1>2, <1>3, <1>7, <1>8, <3>1
  <2> QED BY <1>3, <2>1
<1>9. CASE /\ x.ok /\ Len(converted) < SvRoom
           /\ converted' = Append(converted, [x EXCEPT !.ok = FALSE])
  <2> DEFINE y == [x EXCEPT !.ok = FALSE]
  <2>1. y \in SvEntries /\ y.kind = x.kind /\ y.path = x.path /\ ~y.ok
    BY <1>2 DEF SvEntries
  <2>2. EntryKey(y) = k
    <3>1. /\ EntryKey(y) \in SvEntries /\ EntryKey(y).kind = x.kind
          /\ EntryKey(y).path = x.path /\ EntryKey(y).ok
          /\ EntryKey(x) \in SvEntries /\ EntryKey(x).kind = x.kind
          /\ EntryKey(x).path = x.path /\ EntryKey(x).ok
      BY <1>2, <2>1, KeyFacts
    <3>2. EntryKey(y) = EntryOf(x.kind, x.path) /\ EntryKey(x) = EntryOf(x.kind, x.path)
      BY <3>1, EntryIs
    <3> QED BY <3>2 DEF k
  <2> HIDE DEF y
  <2>3. converted' = Append(converted, y) /\ Len(converted) < SvRoom
    BY <1>9 DEF y
  <2>4. LineInv' /\ SentOn' = SentOn
    BY <1>7, <2>1, <2>2, <2>3
  <2> QED BY <1>3, <2>4
<1> QED BY <1>6, <1>8, <1>9 DEF Convert, x

(* The traverser takes one from the end of the line: *)
Line == IF lists = "share" THEN converted ELSE crawled

(* What the traverser takes was on the line, and nowhere else. *)
LEMMA TakenFromLine ==
    ASSUME LineInv, OptionTypes, Line # <<>>,
           IF lists = "share" THEN converted' = Tail(Line) /\ UNCHANGED crawled
           ELSE crawled' = Tail(Line) /\ UNCHANGED converted,
           UNCHANGED <<svOptions, converter>>
    PROVE  /\ Head(Line) \in SvEntries /\ EntryKey(Head(Line)).kind = Head(Line).kind
           /\ KeysOf(crawled) \cup KeysOf(converted)
                = KeysOf(crawled') \cup KeysOf(converted') \cup {EntryKey(Head(Line))}
           /\ Head(Line).kind # "error" =>
                 EntryKey(Head(Line)) \notin
                   KeysOf(crawled') \cup KeysOf(converted') \cup AtConverters \cup got \cup logged
           /\ crawled' \in Seq(SvEntries) /\ Len(crawled') <= SvRoom
           /\ converted' \in Seq(SvEntries) /\ Len(converted') <= SvRoom
           /\ OncePerLine(crawled') /\ OncePerLine(converted')
           /\ OnLine(crawled') \subseteq OnLine(crawled)
           /\ OnLine(converted') \subseteq OnLine(converted)
           /\ Head(Line) \in OnLine(Line)
           /\ KeysOf(crawled') \subseteq KeysOf(crawled)
           /\ KeysOf(converted') \subseteq KeysOf(converted)
           /\ IsBlobListing => converted' = <<>>
           /\ AtConverters' = AtConverters
<1>1. /\ crawled \in Seq(SvEntries) /\ Len(crawled) <= SvRoom /\ SvRoom \in Nat
      /\ converted \in Seq(SvEntries) /\ Len(converted) <= SvRoom
      /\ OncePerLine(crawled) /\ OncePerLine(converted)
      /\ Line \in Seq(SvEntries)
  BY ServiceScanAssumption DEF LineInv, LineTypes, PlaceInv, Line
<1>2. /\ Tail(Line) \in Seq(SvEntries) /\ Len(Tail(Line)) = Len(Line) - 1
      /\ Head(Line) \in SvEntries
      /\ Len(Line) \in Nat
      /\ OnLine(Line) = OnLine(Tail(Line)) \cup {Head(Line)}
      /\ KeysOf(Line) = KeysOf(Tail(Line)) \cup {EntryKey(Head(Line))}
      /\ OncePerLine(Line) => OncePerLine(Tail(Line))
      /\ OncePerLine(Line) /\ Head(Line).kind # "error" =>
           EntryKey(Head(Line)) \notin KeysOf(Tail(Line))
  BY <1>1, ShorterLine
<1>3. EntryKey(Head(Line)).kind = Head(Line).kind
  BY <1>2, KeyFacts
<1>4. AtConverters' = AtConverters
  BY DEF AtConverters
<1>5. /\ Apart(KeysOf(crawled), AtConverters) /\ Apart(KeysOf(crawled), KeysOf(converted))
      /\ Apart(KeysOf(crawled), got \cup logged) /\ Apart(AtConverters, KeysOf(converted))
      /\ Apart(AtConverters, got \cup logged) /\ Apart(KeysOf(converted), got \cup logged)
  BY DEF LineInv, PlaceInv
<1>6. CASE lists = "share"
  <2>1. Line = converted /\ ~IsBlobListing /\ converted' = Tail(Line) /\ crawled' = crawled
    BY <1>6 DEF Line, IsBlobListing
  <2>2. Head(Line).kind # "error" =>
          /\ EntryKey(Head(Line)) \notin KeysOf(converted')
          /\ EntryKey(Head(Line)) \notin KeysOf(crawled)
          /\ EntryKey(Head(Line)) \notin AtConverters /\ EntryKey(Head(Line)) \notin got \cup logged
    <3>1. EntryKey(Head(Line)) \in KeysOf(Line)
      BY <1>2
    <3> QED BY <1>1, <1>2, <1>3, <1>5, <2>1, <3>1 DEF Apart
  <2>3. /\ crawled' \in Seq(SvEntries) /\ Len(crawled') <= SvRoom
        /\ converted' \in Seq(SvEntries) /\ Len(converted') <= SvRoom
        /\ OncePerLine(crawled') /\ OncePerLine(converted')
    <3>1. Len(Line) <= SvRoom
      BY <1>1, <2>1
    <3>2. Len(Tail(Line)) <= SvRoom
      BY ONLY <1>1, <1>2, <3>1
    <3>3. OncePerLine(Line)
      BY <1>1, <2>1
    <3>4. OncePerLine(Tail(Line)) /\ Tail(Line) \in Seq(SvEntries)
      BY <1>2, <3>3
    <3> QED BY <1>1, <2>1, <3>2, <3>4
  <2>4. /\ KeysOf(crawled') = KeysOf(crawled)
        /\ KeysOf(converted) = KeysOf(converted') \cup {EntryKey(Head(Line))}
        /\ OnLine(crawled') = OnLine(crawled)
        /\ OnLine(converted) = OnLine(converted') \cup {Head(Line)}
    BY <1>2, <2>1
  <2>5. Head(Line).kind # "error" =>
          EntryKey(Head(Line)) \notin
                   KeysOf(crawled') \cup KeysOf(converted') \cup AtConverters \cup got \cup logged
    BY <2>2, <2>4
  <2>6. /\ KeysOf(crawled) \cup KeysOf(converted)
             = KeysOf(crawled') \cup KeysOf(converted') \cup {EntryKey(Head(Line))}
        /\ KeysOf(crawled') \subseteq KeysOf(crawled)
        /\ KeysOf(converted') \subseteq KeysOf(converted)
        /\ OnLine(crawled') \subseteq OnLine(crawled)
        /\ OnLine(converted') \subseteq OnLine(converted)
        /\ Head(Line) \in OnLine(Line)
    BY <1>2, <2>4
  <2> QED BY ONLY <1>2, <1>3, <1>4, <2>1, <2>3, <2>5, <2>6, Zenon
<1>7. CASE lists # "share"
  <2>1. Line = crawled /\ IsBlobListing /\ crawled' = Tail(Line) /\ converted' = converted
    BY <1>7 DEF Line, IsBlobListing
  <2>2. Head(Line).kind # "error" =>
          /\ EntryKey(Head(Line)) \notin KeysOf(crawled')
          /\ EntryKey(Head(Line)) \notin KeysOf(converted)
          /\ EntryKey(Head(Line)) \notin AtConverters /\ EntryKey(Head(Line)) \notin got \cup logged
    <3>1. EntryKey(Head(Line)) \in KeysOf(Line)
      BY <1>2
    <3> QED BY <1>1, <1>2, <1>3, <1>5, <2>1, <3>1 DEF Apart
  <2>3. converted' = <<>>
    BY <2>1 DEF LineInv, ConversionInv
  <2>4. /\ crawled' \in Seq(SvEntries) /\ Len(crawled') <= SvRoom
        /\ converted' \in Seq(SvEntries) /\ Len(converted') <= SvRoom
        /\ OncePerLine(crawled') /\ OncePerLine(converted')
    <3>1. Len(Line) <= SvRoom
      BY <1>1, <2>1
    <3>2. Len(Tail(Line)) <= SvRoom
      BY ONLY <1>1, <1>2, <3>1
    <3>3. OncePerLine(Line)
      BY <1>1, <2>1
    <3>4. OncePerLine(Tail(Line)) /\ Tail(Line) \in Seq(SvEntries)
      BY <1>2, <3>3
    <3> QED BY <1>1, <2>1, <3>2, <3>4
  <2>5. /\ KeysOf(converted') = KeysOf(converted)
        /\ KeysOf(crawled) = KeysOf(crawled') \cup {EntryKey(Head(Line))}
        /\ OnLine(converted') = OnLine(converted)
        /\ OnLine(crawled) = OnLine(crawled') \cup {Head(Line)}
    BY <1>2, <2>1
  <2>6. Head(Line).kind # "error" =>
          EntryKey(Head(Line)) \notin
                   KeysOf(crawled') \cup KeysOf(converted') \cup AtConverters \cup got \cup logged
    BY <2>2, <2>5
  <2>7. /\ KeysOf(crawled) \cup KeysOf(converted)
             = KeysOf(crawled') \cup KeysOf(converted') \cup {EntryKey(Head(Line))}
        /\ KeysOf(crawled') \subseteq KeysOf(crawled)
        /\ KeysOf(converted') \subseteq KeysOf(converted)
        /\ OnLine(crawled') \subseteq OnLine(crawled)
        /\ OnLine(converted') \subseteq OnLine(converted)
        /\ Head(Line) \in OnLine(Line)
    BY <1>2, <2>5
  <2> QED BY <1>2, <1>3, <1>4, <2>1, <2>3, <2>4, <2>6, <2>7
<1> QED BY <1>6, <1>7

(* A crawl filters nothing: it never deletes for good. *)
LEMMA NothingIsFiltered ==
    ASSUME OptionTypes, lists # "flat", NEW e, Take(e)
    PROVE  got' = got \cup {e} /\ gotTwice' = gotTwice \cup (got \cap {e})
<1>1. PassesFilters(e)
  BY DEF OptionTypes, PassesFilters
<1> QED BY <1>1 DEF Take

(* it is handed on, logged, or ends the listing.                           *)
LEMMA TakeEntryKeeps ==
    ASSUME LineInv, OptionTypes, TakeEntry
    PROVE  /\ LineTypes' /\ gotTwice' = {}
           /\ UNCHANGED <<svOptions, lister, toCrawl, unsaid>>
           /\ svFaults' = svFaults \/ (SvMayFail("process") /\ SvFail)
           /\ \/ UNCHANGED <<traverser, svResult>> /\ LineInv' /\ SentOn' = SentOn
              \/ traverser' = "returned" /\ svResult' = "error"
<1> DEFINE e == Head(Line)   k == EntryKey(e)
<1>1. /\ Crawls /\ Line # <<>>
      /\ IF lists = "share" THEN converted' = Tail(Line) /\ UNCHANGED crawled
         ELSE crawled' = Tail(Line) /\ UNCHANGED converted
      /\ UNCHANGED <<svOptions, lister, toCrawl, converter, unsaid>>
      /\ \/ /\ e.ok /\ Take(e)
            /\ UNCHANGED <<traverser, svResult, logged, svFaults>>
         \/ /\ e.ok /\ SvMayFail("process") /\ SvFail
            /\ Return("error") /\ UNCHANGED <<got, gotTwice, logged>>
         \/ /\ ~e.ok /\ IsBlobListing
            /\ Return("error") /\ UNCHANGED <<got, gotTwice, logged, svFaults>>
         \/ /\ ~e.ok /\ ~IsBlobListing
            /\ logged' = logged \cup {[e EXCEPT !.ok = TRUE]}
            /\ UNCHANGED <<traverser, svResult, got, gotTwice, svFaults>>
  BY DEF TakeEntry, Line
<1>2. /\ e \in SvEntries /\ k.kind = e.kind
      /\ KeysOf(crawled) \cup KeysOf(converted) = KeysOf(crawled') \cup KeysOf(converted') \cup {k}
      /\ e.kind # "error" =>
            k \notin
                   KeysOf(crawled') \cup KeysOf(converted') \cup AtConverters \cup got \cup logged
      /\ crawled' \in Seq(SvEntries) /\ Len(crawled') <= SvRoom
      /\ converted' \in Seq(SvEntries) /\ Len(converted') <= SvRoom
      /\ OncePerLine(crawled') /\ OncePerLine(converted')
      /\ OnLine(crawled') \subseteq OnLine(crawled)
      /\ OnLine(converted') \subseteq OnLine(converted)
      /\ e \in OnLine(Line)
      /\ KeysOf(crawled') \subseteq KeysOf(crawled)
      /\ KeysOf(converted') \subseteq KeysOf(converted)
      /\ IsBlobListing => converted' = <<>>
      /\ AtConverters' = AtConverters
  BY <1>1, TakenFromLine
<1>3. /\ k \in SvEntries /\ k.ok /\ (e.ok => k = e) /\ (IsSkipped(k) <=> IsSkipped(e))
      /\ k = [e EXCEPT !.ok = TRUE]
  BY <1>2, KeyFacts DEF EntryKey
<1>4. /\ LineTypes /\ PlaceInv /\ ConversionInv
  BY DEF LineInv
<1>5. /\ e.ok => e.kind # "error" /\ (lists = "share" => ~IsSkipped(e))
      /\ lists # "flat"
  BY <1>1, <1>2, <1>4 DEF ConversionInv, Line, Crawls
<1>6. /\ Apart(KeysOf(crawled'), AtConverters') /\ Apart(KeysOf(crawled'), KeysOf(converted'))
      /\ Apart(AtConverters', KeysOf(converted')) /\ Apart(KeysOf(crawled'), got \cup logged)
      /\ Apart(AtConverters', got \cup logged) /\ Apart(KeysOf(converted'), got \cup logged)
  BY <1>2, <1>4 DEF PlaceInv, Apart
<1> HIDE DEF k, e
<1>7. CASE e.ok /\ Take(e) /\ UNCHANGED <<traverser, svResult, logged, svFaults>>
  <2>1. k = e /\ got' = got \cup {k} /\ gotTwice' = gotTwice \cup (got \cap {k})
    BY <1>3, <1>5, <1>7, NothingIsFiltered
  <2>2. k \notin
                   KeysOf(crawled') \cup KeysOf(converted') \cup AtConverters \cup got \cup logged
    BY <1>2, <1>5, <1>7
  <2>3. gotTwice' = {}
    BY <1>4, <2>1, <2>2 DEF PlaceInv
  <2>4. SentOn' = SentOn
    BY <1>2, <1>7, <2>1 DEF SentOn
  <2>5. LineTypes'
    BY <1>1, <1>2, <1>3, <1>4, <1>7, <2>1 DEF LineTypes
  <2>6. PlaceInv'
    <3>1. /\ Apart(KeysOf(crawled'), got' \cup logged') /\ Apart(AtConverters', got' \cup logged')
          /\ Apart(KeysOf(converted'), got' \cup logged') /\ got' \cap logged' = {}
      BY <1>2, <1>4, <1>6, <1>7, <2>1, <2>2 DEF PlaceInv, Apart
    <3>2. \A b, c \in SvConverters :
             /\ IsEntry(converter'[b]) /\ IsEntry(converter'[c]) /\ converter'[b].kind # "error"
             /\ EntryKey(converter'[b]) = EntryKey(converter'[c])
             => b = c
      BY <1>1, <1>4 DEF PlaceInv
    <3> QED BY <1>2, <1>6, <2>3, <3>1, <3>2 DEF PlaceInv
  <2>7. ConversionInv'
    <3>1. /\ \A x \in got' \cup logged' \cup unsaid : x.ok
          /\ \A x \in got' \cup unsaid : x.kind # "error"
          /\ \A x \in got' : lists = "share" => ~IsSkipped(x)
      BY <1>2, <1>3, <1>4, <1>5, <1>7, <2>1 DEF ConversionInv
    <3> QED BY <1>1, <1>2, <1>4, <1>7, <2>1, <3>1, SkippedFrame DEF ConversionInv
  <2> QED BY <1>1, <1>7, <2>3, <2>4, <2>5, <2>6, <2>7 DEF LineInv
<1>8. CASE /\ ~e.ok /\ ~IsBlobListing /\ logged' = logged \cup {[e EXCEPT !.ok = TRUE]}
           /\ UNCHANGED <<traverser, svResult, got, gotTwice, svFaults>>
  <2>1. logged' = logged \cup {k}
    BY <1>3, <1>8
  <2>2. k \notin got
    BY <1>2, <1>4 DEF ConversionInv
  <2>3. SentOn' = SentOn
    BY <1>2, <1>8, <2>1 DEF SentOn
  <2>4. LineTypes'
    BY <1>1, <1>2, <1>3, <1>4, <1>8, <2>1 DEF LineTypes
  <2>5. PlaceInv'
    <3>1. /\ Apart(KeysOf(crawled'), got' \cup logged') /\ Apart(AtConverters', got' \cup logged')
          /\ Apart(KeysOf(converted'), got' \cup logged') /\ got' \cap logged' = {}
      BY <1>2, <1>4, <1>6, <1>8, <2>1, <2>2 DEF PlaceInv, Apart
    <3>2. \A b, c \in SvConverters :
             /\ IsEntry(converter'[b]) /\ IsEntry(converter'[c]) /\ converter'[b].kind # "error"
             /\ EntryKey(converter'[b]) = EntryKey(converter'[c])
             => b = c
      BY <1>1, <1>4 DEF PlaceInv
    <3>3. gotTwice' = {}
      BY <1>4, <1>8 DEF PlaceInv
    <3> QED BY <1>2, <1>6, <3>1, <3>2, <3>3 DEF PlaceInv
  <2>6. ConversionInv'
    BY <1>1, <1>2, <1>3, <1>4, <1>8, <2>1, SkippedFrame DEF ConversionInv
  <2>7. gotTwice' = {}
    BY <1>4, <1>8 DEF PlaceInv
  <2> QED BY <1>1, <1>8, <2>3, <2>4, <2>5, <2>6, <2>7 DEF LineInv
<1>9. CASE /\ Return("error") /\ UNCHANGED <<got, gotTwice, logged>>
           /\ svFaults' = svFaults \/ (SvMayFail("process") /\ SvFail)
  <2>1. LineTypes'
    BY <1>1, <1>2, <1>4, <1>9 DEF LineTypes
  <2>2. gotTwice' = {}
    BY <1>4, <1>9 DEF PlaceInv
  <2> QED BY <1>1, <1>9, <2>1, <2>2 DEF Return
<1> QED BY <1>1, <1>7, <1>8, <1>9

(* The service and the options do not change while it is listed. *)
LEMMA PageFrame ==
    ASSUME UNCHANGED svOptions
    PROVE  /\ \A d : LeavesIn(d)' = LeavesIn(d)
           /\ \A d : ItemsOf(d)' = ItemsOf(d)
           /\ \A d : PageOf(d)' = PageOf(d)
           /\ \A d : IsPrefix(d)' <=> IsPrefix(d)
           /\ \A e : RepresentsAFolder(e)' <=> RepresentsAFolder(e)
           /\ \A e : IsSentAsStub(e)' <=> IsSentAsStub(e)
           /\ \A e : Origin(e)' = Origin(e)
<1>1. /\ lists' = lists /\ svRecursive' = svRecursive /\ dirStubs' = dirStubs
      /\ permanentDelete' = permanentDelete /\ skipLinks' = skipLinks /\ rootSlash' = rootSlash
      /\ atName' = atName /\ atSlash' = atSlash
  BY DEF svOptions
<1>2. IsBlobListing' <=> IsBlobListing
  BY <1>1 DEF IsBlobListing
<1>3. \A form : IsListed(form)' <=> IsListed(form)
  BY <1>1 DEF IsListed, IncludesDeleted, IncludesSnapshots, IncludesVersions
<1>4. \A d : LeavesIn(d)' = LeavesIn(d)
  BY <1>2, <1>3 DEF LeavesIn
<1>5. \A d : ItemsOf(d)' = ItemsOf(d)
  BY <1>1, <1>4 DEF ItemsOf
<1>6. \A d : IsPrefix(d)' <=> IsPrefix(d)
  BY <1>1 DEF IsPrefix
<1>7. \A d : PageOf(d)' = PageOf(d)
  <2>1. \A d : BlobPage(d)' = BlobPage(d)
    BY <1>5, <1>6 DEF BlobPage
  <2>2. \A d : SharePage(d)' = SharePage(d)
    BY <1>4 DEF SharePage
  <2> QED BY <1>2, <2>1, <2>2 DEF PageOf
<1>8. \A e : RepresentsAFolder(e)' <=> RepresentsAFolder(e)
  BY <1>1 DEF RepresentsAFolder
<1>9. \A e : IsSentAsStub(e)' <=> IsSentAsStub(e)
  BY <1>1 DEF IsSentAsStub, HasStub
<1>10. \A e : Origin(e)' = Origin(e)
  BY <1>2 DEF Origin
<1> QED BY <1>4, <1>5, <1>6, <1>7, <1>8, <1>9, <1>10

(* Nor do the types of the options. *)
LEMMA OptionFrame ==
    ASSUME OptionTypes, UNCHANGED svOptions
    PROVE  OptionTypes'
BY DEF OptionTypes, svOptions

(* Nor what the crawl has made of the pages. *)
LEMMA PagesFrame ==
    ASSUME UNCHANGED svOptions, NEW past, NEW due, NEW left, NEW sent, NEW said,
           PagesInv(past, due, left, sent, said)
    PROVE  PagesInv(past, due, left, sent, said)'
<1>1. /\ svRecursive' = svRecursive /\ lists' = lists /\ (IsBlobListing' <=> IsBlobListing)
      /\ dirStubs' = dirStubs /\ rootSlash' = rootSlash /\ atName' = atName /\ atSlash' = atSlash
      /\ \A e : IsSkipped(e)' <=> IsSkipped(e)
  BY SkippedFrame DEF svOptions
<1>2. FoldersOnce(past, due, left)'
  <2>1. FoldersOnce(past, due, left)
    BY DEF PagesInv
  <2> QED BY <1>1, <2>1, PageFrame DEF FoldersOnce
<1>3. SentOnce(past, left, sent, said)'
  <2>1. SentOnce(past, left, sent, said)
    BY DEF PagesInv
  <2> QED BY <1>1, <2>1, PageFrame DEF SentOnce
<1>4. AllSettled(past, due, left, sent, said)'
  <2>1. AllSettled(past, due, left, sent, said)
    BY DEF PagesInv
  <2>2. \A e : IsSettled(e, past, due, sent, said) => IsSettled(e, past, due, sent, said)'
    BY <1>1, PageFrame DEF IsSettled
  <2> QED BY <2>1, <2>2, PageFrame DEF AllSettled
<1>5. RootSettled(sent, said)'
  <2>1. AtRoot' = AtRoot
    BY <1>1 DEF AtRoot
  <2>2. (IsScheduledAsBlob' <=> IsScheduledAsBlob) /\ (IsScheduledAsStub' <=> IsScheduledAsStub)
    BY <1>1, <2>1 DEF IsScheduledAsBlob, IsScheduledAsStub
  <2> QED BY <1>1, <2>2 DEF PagesInv, RootSettled
<1> QED BY <1>2, <1>3, <1>4, <1>5 DEF PagesInv

-----------------------------------------------------------------------------
(* What the other workers have. *)
FoundBut(w) == UNION {lister[v].found : v \in SvWorkers \ {w}}

(* ... and what is left on their pages. *)
LeftBut(w)  == UNION {lister[v].left : v \in SvWorkers \ {w}}

(* A step of one worker. *)
OnlyMoves(w) == \A v \in SvWorkers \ {w} : lister'[v] = lister[v]

(* What a worker has and what the others have is all there is, ...         *)
LEMMA OfOneLister ==
    ASSUME NEW w \in SvWorkers
    PROVE  /\ Due = toCrawl \cup FoundBut(w) \cup lister[w].found
           /\ Left = LeftBut(w) \cup lister[w].left
BY DEF Due, Left, FoundBut, LeftBut

(* ... after its step as well. *)
LEMMA OfOneListerNext ==
    ASSUME NEW w \in SvWorkers, OnlyMoves(w)
    PROVE  /\ Due' = toCrawl' \cup FoundBut(w) \cup lister'[w].found
           /\ Left' = LeftBut(w) \cup lister'[w].left
<1>1. /\ Due' = toCrawl' \cup FoundBut(w)' \cup lister'[w].found
      /\ Left' = LeftBut(w)' \cup lister'[w].left
  BY DEF Due, Left, FoundBut, LeftBut
<1>2. FoundBut(w)' = FoundBut(w) /\ LeftBut(w)' = LeftBut(w)
  BY DEF OnlyMoves, FoundBut, LeftBut
<1> QED BY <1>1, <1>2

(* No two workers have the same entry, nor the same folder. *)
LEMMA ListersApart ==
    ASSUME NEW past, past \subseteq SvFolders, ListerInv(past), NEW w \in SvWorkers
    PROVE  /\ LeftBut(w) \cap lister[w].left = {}
           /\ FoundBut(w) \cap toCrawl = {} /\ lister[w].found \cap toCrawl = {}
           /\ lister[w].at = "listing" => \A d \in FoundBut(w) : SvIn[d] # lister[w].dir
           /\ \A d \in FoundBut(w) : \E v \in SvWorkers \ {w} : lister[v].at = "listing" /\ d \in lister[v].found
<1>1. \A v \in SvWorkers :
         /\ lister[v].at # "listing" => lister[v].left = {} /\ lister[v].found = {}
         /\ lister[v].at = "listing" =>
               /\ lister[v].dir \in past /\ lister[v].left \subseteq PageOf(lister[v].dir)
               /\ \A e \in lister[v].found : e # SvRoot /\ SvIn[e] = lister[v].dir /\ e \notin toCrawl
  BY DEF ListerInv
<1>2. \A v \in SvWorkers \ {w} :
         lister[v].at = "listing" /\ lister[w].at = "listing" => lister[v].dir # lister[w].dir
  BY DEF ListerInv
<1>3. LeftBut(w) \cap lister[w].left = {}
  <2>1. ASSUME NEW v \in SvWorkers \ {w}, NEW e \in lister[v].left, e \in lister[w].left PROVE FALSE
    <3>1. lister[v].at = "listing" /\ lister[w].at = "listing"
      BY <1>1, <2>1
    <3>2. Owner(e) = lister[v].dir /\ Owner(e) = lister[w].dir
      BY <1>1, <2>1, <3>1, OnlyOnOnePage
    <3> QED BY <1>2, <3>1, <3>2
  <2> QED BY <2>1 DEF LeftBut
<1>4. \A d \in FoundBut(w) : \E v \in SvWorkers \ {w} : lister[v].at = "listing" /\ d \in lister[v].found
  BY <1>1 DEF FoundBut
<1> QED BY <1>1, <1>2, <1>3, <1>4

(* A worker moves, and all of them list folders that nobody has listed.    *)
LEMMA OneListerMoves ==
    ASSUME NEW past, NEW now, past \subseteq now, ListerInv(past), NEW w \in SvWorkers,
           OnlyMoves(w),
           UNCHANGED svOptions,
           lister'[w].at # "listing" => lister'[w].left = {} /\ lister'[w].found = {},
           lister'[w].at = "listing" =>
              /\ lister'[w].dir \in now /\ lister'[w].left \subseteq PageOf(lister'[w].dir)
              /\ \A e \in lister'[w].found : e # SvRoot /\ SvIn[e] = lister'[w].dir /\ e \notin toCrawl'
              /\ \A v \in SvWorkers \ {w} : lister[v].at = "listing" => lister[v].dir # lister'[w].dir,
           lister'[w].at = "gone" =>
              toCrawl' = {} /\ \A v \in SvWorkers \ {w} : lister[v].at # "listing",
           FoundBut(w) \cap toCrawl' = {},
           (\E v \in SvWorkers \ {w} : lister[v].at = "gone") =>
             toCrawl' = {} /\ lister'[w].at # "listing"
    PROVE  ListerInv(now)'
<1>1. \A d : PageOf(d)' = PageOf(d)
  BY PageFrame
<1>2. \A v \in SvWorkers \ {w} : lister'[v] = lister[v]
  BY DEF OnlyMoves
<1>3. \A v \in SvWorkers \ {w} : lister[v].found \subseteq FoundBut(w)
  BY DEF FoundBut
<1>4. ASSUME NEW v \in SvWorkers
      PROVE  /\ lister'[v].at # "listing" => lister'[v].left = {} /\ lister'[v].found = {}
             /\ lister'[v].at = "listing" =>
                  /\ lister'[v].dir \in now /\ lister'[v].left \subseteq PageOf(lister'[v].dir)
                  /\ \A e \in lister'[v].found : e # SvRoot /\ SvIn[e] = lister'[v].dir /\ e \notin toCrawl'
             /\ lister'[v].at = "gone" =>
                  toCrawl' = {} /\ \A u \in SvWorkers : lister'[u].at # "listing"
  <2>1. CASE v = w
    BY <1>2, <2>1
  <2>2. CASE v # w
    <3>1. lister'[v] = lister[v]
      BY <1>2, <2>2
    <3>2. /\ lister[v].at # "listing" => lister[v].left = {} /\ lister[v].found = {}
          /\ lister[v].at = "listing" =>
               /\ lister[v].dir \in past /\ lister[v].left \subseteq PageOf(lister[v].dir)
               /\ \A e \in lister[v].found : e # SvRoot /\ SvIn[e] = lister[v].dir
          /\ lister[v].at = "gone" => \A u \in SvWorkers : lister[u].at # "listing"
      BY DEF ListerInv
    <3>3. \A e \in lister[v].found : e \notin toCrawl'
      BY <1>3, <2>2
    <3>4. lister[v].at = "gone" => toCrawl' = {} /\ \A u \in SvWorkers : lister'[u].at # "listing"
      BY <1>2, <2>2, <3>2
    <3> QED BY <3>1, <3>2, <3>3, <3>4
  <2> QED BY <2>1, <2>2
<1>5. ASSUME NEW u \in SvWorkers, NEW v \in SvWorkers,
             lister'[u].at = "listing", lister'[v].at = "listing", lister'[u].dir = lister'[v].dir
      PROVE  u = v
  <2>1. CASE u # w /\ v # w
    BY <1>2, <1>5, <2>1 DEF ListerInv
  <2>2. CASE u = w \/ v = w
    BY <1>2, <1>5, <2>2
  <2> QED BY <2>1, <2>2
<1> QED BY <1>1, <1>4, <1>5 DEF ListerInv

(* The crawl has its pages in hand. *)
CrawlInv(past) ==
    /\ past \subseteq SvFolders /\ ListerInv(past) /\ PagesInv(past, Due, Left, SentOn, unsaid)

(* A step keeps the crawl. *)
Keeps == CrawlTypes' /\ LineInv' /\ \E now : CrawlInv(now)'

(* What is due, left and sent after a step makes up the crawl again.       *)
LEMMA PutTogether ==
    ASSUME NEW now, NEW due, NEW left, NEW sent, NEW said, UNCHANGED svOptions,
           PagesInv(now, due, left, sent, said), ListerInv(now)',
           Due' = due, Left' = left, SentOn' = sent, unsaid' = said
    PROVE  CrawlInv(now)'
<1>1. PagesInv(now, due, left, sent, said)'
  BY PagesFrame
<1>2. now \subseteq SvFolders
  BY DEF PagesInv, FoldersOnce
<1>3. PagesInv(now, Due, Left, SentOn, unsaid)'
  BY <1>1 DEF PagesInv, FoldersOnce, SentOnce, AllSettled, IsSettled, RootSettled
<1> QED BY <1>2, <1>3 DEF CrawlInv

(* A step of a worker changes what it has, and nobody else's. *)
LEMMA ListerTypes ==
    ASSUME CrawlTypes, NEW w \in SvWorkers, NEW x \in ListerStates,
           lister' = [lister EXCEPT ![w] = x]
    PROVE  OnlyMoves(w) /\ lister'[w] = x /\ lister' \in [SvWorkers -> ListerStates]
BY DEF CrawlTypes, OnlyMoves

(* A worker takes a folder, or ends. *)
LEMMA TakeFolderKeeps ==
    ASSUME CrawlTypes, LineInv, NEW past, CrawlInv(past), NEW w \in SvWorkers, TakeFolder(w)
    PROVE  Keeps
<1>1. /\ lister[w].at = "idle" /\ lister[w].left = {} /\ lister[w].found = {}
      /\ UNCHANGED <<svOptions, traverser, svResult, crawled, converter, converted, svOutcome>>
      /\ past \subseteq SvFolders /\ ListerInv(past) /\ PagesInv(past, Due, Left, SentOn, unsaid)
  BY DEF TakeFolder, CrawlInv, ListerInv
<1>2. UNCHANGED <<got, gotTwice, unsaid, logged, svFaults>>
  BY <1>1 DEF svOutcome
<1>3. LineInv' /\ SentOn' = SentOn
  <2>1. AtConverters' = AtConverters
    BY <1>1 DEF AtConverters
  <2>2. SentOn' = SentOn
    BY <1>1, <1>2, <2>1 DEF SentOn
  <2>3. LineTypes' /\ PlaceInv'
    BY <1>1, <1>2, <2>1 DEF LineInv, LineTypes, PlaceInv
  <2>4. ConversionInv'
    BY <1>1, <1>2, SkippedFrame DEF LineInv, ConversionInv
  <2> QED BY <2>2, <2>3, <2>4 DEF LineInv
<1>4. AreEntries(SentOn) /\ AreEntries(unsaid)
  BY SentAre DEF LineInv
<1>7. FoundBut(w) \cap toCrawl = {} /\ Due = toCrawl \cup FoundBut(w) /\ Left = LeftBut(w)
  <2>1. FoundBut(w) \cap toCrawl = {}
    BY <1>1, ListersApart
  <2>2. /\ Due = toCrawl \cup FoundBut(w) \cup lister[w].found
        /\ Left = LeftBut(w) \cup lister[w].left
    BY OfOneLister
  <2>3. Due = toCrawl \cup FoundBut(w) /\ Left = LeftBut(w)
    BY <1>1, <2>2
  <2> QED BY <2>1, <2>3
<1>5. ASSUME NEW d \in toCrawl,
             lister' = [lister EXCEPT ![w] = [at |-> "listing", dir |-> d, left |-> PageOf(d), found |-> {}]],
             toCrawl' = toCrawl \ {d}
      PROVE  Keeps
  <2> DEFINE x == [at |-> "listing", dir |-> d, left |-> PageOf(d), found |-> {}]
             now == past \cup {d}
  <2>1. d \in SvFolders /\ d \in Due
    BY DEF CrawlTypes, Due
  <2>2. x \in ListerStates /\ x.at = "listing" /\ x.dir = d /\ x.left = PageOf(d) /\ x.found = {}
    <3>1. PageOf(d) \in SUBSET SvEntries
      BY <2>1, OnlyOnOnePage
    <3>2. PICK page \in SUBSET SvEntries : page = PageOf(d)
      BY <3>1
    <3>3. [at |-> "listing", dir |-> d, left |-> page, found |-> {}] \in ListerStates
      BY <2>1 DEF ListerStates
    <3>4. x \in ListerStates
      BY <3>2, <3>3
    <3>5. x.at = "listing" /\ x.dir = d /\ x.found = {}
      OBVIOUS
    <3>6. x.left = PageOf(d)
      BY <3>2
    <3> HIDE DEF x
    <3> QED BY <3>4, <3>5, <3>6
  <2> HIDE DEF x
  <2>3. OnlyMoves(w) /\ lister'[w] = x /\ lister' \in [SvWorkers -> ListerStates]
    BY <1>5, <2>2, ListerTypes DEF x
  <2>4. PagesInv(now, Due \ {d}, Left \cup PageOf(d), SentOn, unsaid)
    BY <1>1, <1>4, <2>1, BeginFolder
  <2>5. /\ FoundBut(w) \cap toCrawl = {}
        /\ Due = toCrawl \cup FoundBut(w) /\ Left = LeftBut(w)
    BY <1>1, <1>7
  <2>6. Due' = Due \ {d} /\ Left' = Left \cup PageOf(d)
    BY <1>5, <2>2, <2>3, <2>5, OfOneListerNext
  <2>7. d \notin past
    BY <1>1, <2>1 DEF PagesInv, FoldersOnce
  <2>8. /\ \A v \in SvWorkers : lister[v].at = "listing" => lister[v].dir \in past
        /\ \A v \in SvWorkers : lister[v].at # "gone"
    BY <1>1 DEF ListerInv
  <2>9. ListerInv(now)'
    <3>1. \A v \in SvWorkers \ {w} : lister[v].at = "listing" => lister[v].dir # lister'[w].dir
      BY <2>2, <2>3, <2>7, <2>8
    <3>2. FoundBut(w) \cap toCrawl' = {}
      BY <1>5, <2>5
    <3> QED BY <1>1, <2>2, <2>3, <2>8, <3>1, <3>2, OneListerMoves
  <2>10. CrawlTypes'
    BY <1>1, <1>2, <1>5, <2>3 DEF CrawlTypes
  <2>11. CrawlInv(now)'
    <3> HIDE DEF now
    <3> QED BY <1>1, <1>2, <1>3, <2>4, <2>6, <2>9, PutTogether
  <2> QED BY <1>3, <2>10, <2>11 DEF Keeps
<1>6. ASSUME toCrawl = {}, \A v \in SvWorkers : lister[v].at # "listing",
             lister' = [lister EXCEPT ![w] = Gone], UNCHANGED toCrawl
      PROVE  Keeps
  <2>1. Gone \in ListerStates /\ Gone.at = "gone" /\ Gone.left = {} /\ Gone.found = {}
    BY ServiceScanAssumption DEF ListerStates, Gone, Nobody
  <2>2. OnlyMoves(w) /\ lister'[w] = Gone /\ lister' \in [SvWorkers -> ListerStates]
    BY <1>6, <2>1, ListerTypes
  <2>3. /\ FoundBut(w) \cap toCrawl = {}
        /\ Due = toCrawl \cup FoundBut(w) /\ Left = LeftBut(w)
    BY <1>1, <1>7
  <2>4. Due' = Due /\ Left' = Left
    BY <1>6, <2>1, <2>2, <2>3, OfOneListerNext
  <2>5. ListerInv(past)'
    BY <1>1, <1>6, <2>1, <2>2, <2>3, OneListerMoves
  <2>6. CrawlTypes'
    BY <1>1, <1>2, <1>6, <2>2 DEF CrawlTypes
  <2>7. CrawlInv(past)'
    BY <1>1, <1>2, <1>3, <2>4, <2>5, PutTogether
  <2> QED BY <1>3, <2>6, <2>7 DEF Keeps
<1> QED BY <1>5, <1>6 DEF TakeFolder

(* A worker comes to an entry of its page. *)
LEMMA ComeTo ==
    ASSUME CrawlTypes, NEW past, CrawlInv(past), NEW w \in SvWorkers, NEW e \in lister[w].left,
           UNCHANGED svOptions, UNCHANGED toCrawl,
           lister' = [lister EXCEPT ![w].left = @ \ {e},
                        ![w].found = IF IsFolderEntry(e) /\ svRecursive THEN @ \cup {e.path} ELSE @]
    PROVE  /\ lister' \in [SvWorkers -> ListerStates] /\ ListerInv(past)'
           /\ Due' = DueWith(Due, e) /\ Left' = Left \ {e}
           /\ e \in Left /\ lister[w].dir \in SvFolders /\ e \in PageOf(lister[w].dir)
<1> DEFINE more == IF IsFolderEntry(e) /\ svRecursive THEN lister[w].found \cup {e.path}
                   ELSE lister[w].found
<1>1. past \subseteq SvFolders /\ ListerInv(past) /\ PagesInv(past, Due, Left, SentOn, unsaid)
  BY DEF CrawlInv
<1>2. lister[w] \in ListerStates /\ lister \in [SvWorkers -> ListerStates]
  BY DEF CrawlTypes
<1>3. /\ lister[w].at = "listing" /\ lister[w].dir \in past /\ lister[w].dir \in SvFolders
      /\ lister[w].left \subseteq PageOf(lister[w].dir)
      /\ \A f \in lister[w].found : f # SvRoot /\ SvIn[f] = lister[w].dir /\ f \notin toCrawl
  BY <1>1 DEF ListerInv
<1>4. e \in Left /\ e \in PageOf(lister[w].dir)
  BY <1>3 DEF Left
<1>5. IsFolderEntry(e) =>
         /\ e.path \in SvFolders /\ e.path # SvRoot /\ SvIn[e.path] = lister[w].dir
         /\ e.path \notin Due
  <2>1. IsOnPage(e, lister[w].dir)
    BY <1>3, <1>4, PageIs
  <2>2. IsFolderEntry(e) => e.path \notin past \cup Due
    BY <1>1, <1>4 DEF PagesInv, FoldersOnce
  <2> QED BY <2>1, <2>2 DEF IsOnPage
<1>6. /\ lister'[w].at = "listing" /\ lister'[w].dir = lister[w].dir
      /\ lister'[w].left = lister[w].left \ {e} /\ lister'[w].found = more
      /\ OnlyMoves(w) /\ lister' \in [SvWorkers -> ListerStates]
  <2>1. more \subseteq SvFolders /\ lister[w].left \ {e} \subseteq SvEntries
    BY <1>2, <1>5 DEF ListerStates
  <2>2. lister' = [lister EXCEPT ![w] = [@ EXCEPT !.left = lister[w].left \ {e}, !.found = more]]
    BY <1>2
  <2> HIDE DEF more
  <2>3. [lister[w] EXCEPT !.left = lister[w].left \ {e}, !.found = more] \in ListerStates
    BY <1>2, <2>1 DEF ListerStates
  <2>4. /\ lister'[w] = [lister[w] EXCEPT !.left = lister[w].left \ {e}, !.found = more]
        /\ \A v \in SvWorkers \ {w} : lister'[v] = lister[v]
        /\ lister' \in [SvWorkers -> ListerStates]
    BY <1>2, <2>2, <2>3
  <2>5. /\ lister'[w].at = "listing" /\ lister'[w].dir = lister[w].dir
        /\ lister'[w].left = lister[w].left \ {e} /\ lister'[w].found = more
    BY <1>2, <1>3, <2>4 DEF ListerStates
  <2> QED BY <2>4, <2>5 DEF OnlyMoves
<1>7. /\ Due = toCrawl \cup FoundBut(w) \cup lister[w].found
      /\ Left = LeftBut(w) \cup lister[w].left
  BY OfOneLister
<1>8. /\ Due' = toCrawl' \cup FoundBut(w) \cup lister'[w].found
      /\ Left' = LeftBut(w) \cup lister'[w].left
  BY <1>6, OfOneListerNext
<1>9. LeftBut(w) \cap lister[w].left = {} /\ FoundBut(w) \cap toCrawl = {}
  BY <1>1, ListersApart
<1>10. Due' = DueWith(Due, e)
  BY <1>6, <1>7, <1>8 DEF DueWith
<1>11. Left' = Left \ {e}
  BY <1>6, <1>7, <1>8, <1>9
<1>12. ListerInv(past)'
  <2>1. lister'[w].left \subseteq PageOf(lister'[w].dir)
    BY <1>3, <1>6
  <2>2. \A f \in more : f # SvRoot /\ SvIn[f] = lister[w].dir /\ f \notin toCrawl'
    BY <1>3, <1>5, <1>7
  <2>3. \A v \in SvWorkers \ {w} : lister[v].at = "listing" => lister[v].dir # lister'[w].dir
    BY <1>1, <1>3, <1>6 DEF ListerInv
  <2>4. \A v \in SvWorkers : lister[v].at # "gone"
    BY <1>1, <1>3 DEF ListerInv
  <2>5. FoundBut(w) \cap toCrawl' = {}
    BY <1>9
  <2> HIDE DEF more
  <2> QED BY <1>1, <1>3, <1>6, <2>1, <2>2, <2>3, <2>4, <2>5, OneListerMoves
<1> QED BY <1>3, <1>4, <1>6, <1>10, <1>11, <1>12

(* Nothing of the line changes. *)
LEMMA LineFrame ==
    ASSUME LineInv, UNCHANGED <<svOptions, crawled, converter, converted>>,
           UNCHANGED <<got, gotTwice, logged>>,
           unsaid' \subseteq SvEntries, \A e \in unsaid' : e.ok = TRUE /\ e.kind # "error",
           unsaid \subseteq unsaid'
    PROVE  LineInv' /\ SentOn' = SentOn
<1>1. AtConverters' = AtConverters
  BY DEF AtConverters
<1>2. SentOn' = SentOn
  BY <1>1 DEF SentOn
<1>3. LineTypes'
  BY DEF LineInv, LineTypes
<1>4. PlaceInv'
  BY <1>1 DEF LineInv, PlaceInv
<1>5. ConversionInv'
  BY SkippedFrame DEF LineInv, ConversionInv
<1> QED BY <1>2, <1>3, <1>4, <1>5 DEF LineInv

(* A worker sends an entry. *)
LEMMA ListItemKeeps ==
    ASSUME CrawlTypes, LineInv, NEW past, CrawlInv(past), NEW w \in SvWorkers,
           NEW e \in lister[w].left, ListItem(w, e)
    PROVE  Keeps
<1>1. /\ e.kind # "prefix"
      /\ UNCHANGED <<svOptions, traverser, svResult, toCrawl, converter, converted, svOutcome>>
      /\ lister' = [lister EXCEPT ![w].left = @ \ {e},
                    ![w].found = IF e.kind = "folder" /\ svRecursive THEN @ \cup {e.path} ELSE @]
      /\ IF RepresentsAFolder(e) THEN UNCHANGED crawled ELSE Send(e)
      /\ PagesInv(past, Due, Left, SentOn, unsaid)
  BY DEF ListItem, CrawlInv
<1>2. UNCHANGED <<got, gotTwice, unsaid, logged, svFaults>>
  BY <1>1 DEF svOutcome
<1>3. IsFolderEntry(e) <=> e.kind = "folder"
  BY <1>1 DEF IsFolderEntry
<1>4. lister' = [lister EXCEPT ![w].left = @ \ {e},
                   ![w].found = IF IsFolderEntry(e) /\ svRecursive THEN @ \cup {e.path} ELSE @]
  BY <1>1, <1>3
<1>5. /\ lister' \in [SvWorkers -> ListerStates] /\ ListerInv(past)'
      /\ Due' = DueWith(Due, e) /\ Left' = Left \ {e}
      /\ e \in Left /\ lister[w].dir \in SvFolders /\ e \in PageOf(lister[w].dir)
  BY <1>1, <1>4, ComeTo
<1>6. /\ e \in SvEntries /\ e.ok = TRUE /\ e.kind # "error" /\ What(e) = e
      /\ EntryKey(e) = e /\ e \notin SentOn
  <2>1. /\ What(e) \in SvEntries /\ What(e).ok = TRUE /\ What(e).kind # "error" /\ What(e) = e
    BY <1>1, <1>5, WhatIs
  <2>2. What(e) \notin SentOn
    BY <1>1, <1>5, LeftIsUnsent
  <2> QED BY <2>1, <2>2, KeyFacts
<1>7. /\ LineInv'
      /\ IF IsToBeSent(e) THEN SentOn' = SentOn \cup {What(e)} ELSE SentOn' = SentOn
  <2>1. CASE RepresentsAFolder(e)
    <3>1. ~IsToBeSent(e)
      BY <1>1, <2>1 DEF IsToBeSent
    <3>2. AreEntries(unsaid) /\ \A f \in unsaid : f.kind # "error"
      BY SentAre DEF LineInv
    <3> QED BY <1>1, <1>2, <2>1, <3>1, <3>2, LineFrame DEF AreEntries
  <2>2. CASE ~RepresentsAFolder(e)
    <3>1. IsToBeSent(e)
      BY <1>1, <2>2 DEF IsToBeSent
    <3>2. LineInv' /\ SentOn' = SentOn \cup {EntryKey(e)}
      BY <1>1, <1>2, <1>6, <2>2, SendKeeps
    <3> QED BY <1>6, <3>1, <3>2
  <2> QED BY <2>1, <2>2
<1>8. PagesInv(past, DueWith(Due, e), Left \ {e}, SentOn', unsaid')
  BY <1>1, <1>2, <1>5, <1>7, ListOne
<1>9. CrawlInv(past)'
  BY <1>1, <1>5, <1>8, PutTogether
<1>10. CrawlTypes'
  BY <1>1, <1>2, <1>5 DEF CrawlTypes
<1> QED BY <1>7, <1>9, <1>10 DEF Keeps

(* A worker comes to a folder, and sends its stub, if there is one.        *)
LEMMA ListPrefixKeeps ==
    ASSUME CrawlTypes, LineInv, NEW past, CrawlInv(past), NEW w \in SvWorkers,
           NEW e \in lister[w].left, ListPrefix(w, e)
    PROVE  Keeps
<1>1. /\ e.kind = "prefix"
      /\ UNCHANGED <<svOptions, traverser, svResult, toCrawl, converter, converted>>
      /\ UNCHANGED <<got, gotTwice, logged>>
      /\ lister' = [lister EXCEPT ![w].left = @ \ {e},
                                  ![w].found = IF svRecursive THEN @ \cup {e.path} ELSE @]
      /\ \/ /\ IsSentAsStub(e)
            /\ Send(EntryOf("folder", e.path)) /\ UNCHANGED <<unsaid, svFaults>>
         \/ /\ ~IsSentAsStub(e)
            /\ UNCHANGED <<crawled, unsaid, svFaults>>
         \/ /\ IsSentAsStub(e) /\ SvMayFail("properties") /\ SvFail
            /\ unsaid' = unsaid \cup {EntryOf("folder", e.path)} /\ UNCHANGED crawled
      /\ PagesInv(past, Due, Left, SentOn, unsaid)
  BY DEF ListPrefix, CrawlInv, IsSentAsStub
<1>2. IsFolderEntry(e)
  BY <1>1 DEF IsFolderEntry
<1>3. lister' = [lister EXCEPT ![w].left = @ \ {e},
                   ![w].found = IF IsFolderEntry(e) /\ svRecursive THEN @ \cup {e.path} ELSE @]
  BY <1>1, <1>2
<1>4. UNCHANGED svOptions /\ UNCHANGED toCrawl
  BY <1>1
<1>5. /\ lister' \in [SvWorkers -> ListerStates] /\ ListerInv(past)'
      /\ Due' = DueWith(Due, e) /\ Left' = Left \ {e}
      /\ e \in Left /\ lister[w].dir \in SvFolders /\ e \in PageOf(lister[w].dir)
  BY <1>3, <1>4, ComeTo
<1>6. /\ What(e) = EntryOf("folder", e.path)
      /\ What(e) \in SvEntries /\ What(e).ok = TRUE /\ What(e).kind # "error"
      /\ EntryKey(What(e)) = What(e) /\ What(e) \notin SentOn
  <2>1. /\ What(e) \in SvEntries /\ What(e).ok = TRUE /\ What(e).kind # "error"
    BY <1>5, WhatIs
  <2>2. What(e) \notin SentOn
    BY <1>1, <1>5, LeftIsUnsent
  <2>3. EntryKey(What(e)) = What(e)
    BY <2>1, KeyFacts
  <2> QED BY <1>1, <2>1, <2>2, <2>3 DEF What
<1>7. AreEntries(unsaid) /\ \A f \in unsaid : f.kind # "error"
  BY SentAre DEF LineInv
<1>8. /\ LineInv'
      /\ IF IsToBeSent(e)
         THEN \/ SentOn' = SentOn \cup {What(e)} /\ unsaid' = unsaid
              \/ SentOn' = SentOn /\ unsaid' = unsaid \cup {What(e)} /\ e.kind = "prefix"
         ELSE SentOn' = SentOn /\ unsaid' = unsaid
      /\ svFaults' = svFaults \/ (SvMayFail("properties") /\ SvFail)
  <2>1. IsToBeSent(e) <=> IsSentAsStub(e)
    BY <1>1 DEF IsToBeSent
  <2>2. CASE IsSentAsStub(e) /\ Send(EntryOf("folder", e.path)) /\ UNCHANGED <<unsaid, svFaults>>
    <3>1. Send(What(e))
      BY <1>6, <2>2
    <3>2. LineInv' /\ SentOn' = SentOn \cup {EntryKey(What(e))}
      BY <1>1, <1>6, <2>2, <3>1, SendKeeps
    <3> QED BY <1>6, <2>1, <2>2, <3>2
  <2>3. CASE ~IsSentAsStub(e) /\ UNCHANGED <<crawled, unsaid, svFaults>>
    BY <1>1, <1>7, <2>1, <2>3, LineFrame DEF AreEntries
  <2>4. CASE /\ IsSentAsStub(e) /\ SvMayFail("properties") /\ SvFail
             /\ unsaid' = unsaid \cup {EntryOf("folder", e.path)} /\ UNCHANGED crawled
    <3>1. unsaid' = unsaid \cup {What(e)}
      BY <1>6, <2>4
    <3>2. unsaid' \subseteq SvEntries /\ \A f \in unsaid' : f.ok = TRUE /\ f.kind # "error"
      BY <1>6, <1>7, <3>1 DEF AreEntries
    <3>3. LineInv' /\ SentOn' = SentOn
      BY <1>1, <2>4, <3>1, <3>2, LineFrame
    <3> QED BY <1>1, <2>1, <2>4, <3>1, <3>3
  <2> QED BY <1>1, <2>2, <2>3, <2>4
<1>9. PagesInv(past, DueWith(Due, e), Left \ {e}, SentOn', unsaid')
  <2>1. SentOn \subseteq SentOn' /\ unsaid \subseteq unsaid'
    BY <1>8
  <2> QED BY <1>1, <1>5, <1>8, <2>1, ListOne
<1>10. CrawlInv(past)'
  BY <1>4, <1>5, <1>9, PutTogether
<1>11. CrawlTypes'
  BY <1>1, <1>5, <1>8, ServiceScanAssumption DEF CrawlTypes, SvMayFail, SvFail
<1> QED BY <1>8, <1>10, <1>11 DEF Keeps

(* A page fails. *)
LEMMA PageFailsKeeps ==
    ASSUME CrawlTypes, LineInv, NEW past, CrawlInv(past), NEW w \in SvWorkers, PageFails(w)
    PROVE  Keeps
<1>1. /\ lister[w].at = "listing" /\ SvMayFail("page") /\ SvFail
      /\ Send(ErrorAt(lister[w].dir))
      /\ lister' = [lister EXCEPT ![w].left = {}]
      /\ UNCHANGED <<svOptions, traverser, svResult, toCrawl, converter, converted>>
      /\ UNCHANGED <<got, gotTwice, unsaid, logged>>
      /\ past \subseteq SvFolders /\ ListerInv(past) /\ PagesInv(past, Due, Left, SentOn, unsaid)
  BY DEF PageFails, CrawlInv
<1>2. lister[w] \in ListerStates /\ lister \in [SvWorkers -> ListerStates]
  BY DEF CrawlTypes
<1>3. /\ lister[w].dir \in past /\ lister[w].dir \in SvFolders
      /\ lister[w].left \subseteq PageOf(lister[w].dir)
      /\ \A f \in lister[w].found : f # SvRoot /\ SvIn[f] = lister[w].dir /\ f \notin toCrawl
  BY <1>1 DEF ListerInv
<1>4. /\ lister'[w].at = "listing" /\ lister'[w].dir = lister[w].dir
      /\ lister'[w].left = {} /\ lister'[w].found = lister[w].found
      /\ OnlyMoves(w) /\ lister' \in [SvWorkers -> ListerStates]
  <2>1. [lister[w] EXCEPT !.left = {}] \in ListerStates
    BY <1>2 DEF ListerStates
  <2>2. /\ lister'[w] = [lister[w] EXCEPT !.left = {}]
        /\ \A v \in SvWorkers \ {w} : lister'[v] = lister[v]
        /\ lister' \in [SvWorkers -> ListerStates]
    BY <1>1, <1>2, <2>1
  <2>3. /\ lister'[w].at = "listing" /\ lister'[w].dir = lister[w].dir
        /\ lister'[w].left = {} /\ lister'[w].found = lister[w].found
    BY <1>1, <1>2, <2>2 DEF ListerStates
  <2> QED BY <2>2, <2>3 DEF OnlyMoves
<1>5. /\ Due = toCrawl \cup FoundBut(w) \cup lister[w].found
      /\ Left = LeftBut(w) \cup lister[w].left
  BY OfOneLister
<1>6. /\ Due' = toCrawl' \cup FoundBut(w) \cup lister'[w].found
      /\ Left' = LeftBut(w) \cup lister'[w].left
  BY <1>4, OfOneListerNext
<1>7. LeftBut(w) \cap lister[w].left = {} /\ FoundBut(w) \cap toCrawl = {}
  BY <1>1, ListersApart
<1>8. Due' = Due /\ Left' \subseteq Left /\ Left \ Left' \subseteq PageOf(lister[w].dir)
  BY <1>1, <1>3, <1>4, <1>5, <1>6
<1>9. ListerInv(past)'
  <2>1. \A v \in SvWorkers \ {w} : lister[v].at = "listing" => lister[v].dir # lister'[w].dir
    BY <1>1, <1>4 DEF ListerInv
  <2>2. \A v \in SvWorkers : lister[v].at # "gone"
    BY <1>1 DEF ListerInv
  <2>3. FoundBut(w) \cap toCrawl' = {}
    BY <1>1, <1>7
  <2>4. lister'[w].left \subseteq PageOf(lister'[w].dir)
    BY <1>4
  <2> QED BY <1>1, <1>3, <1>4, <2>1, <2>2, <2>3, <2>4, OneListerMoves
<1>10. LineInv' /\ SentOn' = SentOn \cup {EntryOf("error", lister[w].dir)}
  <2>1. /\ ErrorAt(lister[w].dir) \in SvEntries /\ ErrorAt(lister[w].dir).kind = "error"
        /\ ~ErrorAt(lister[w].dir).ok
        /\ EntryKey(ErrorAt(lister[w].dir)) = EntryOf("error", lister[w].dir)
    BY <1>3, ErrorIs
  <2>2. PICK x : x = ErrorAt(lister[w].dir)
    OBVIOUS
  <2>3. LineInv' /\ SentOn' = SentOn \cup {EntryKey(x)}
    BY <1>1, <2>1, <2>2, SendKeeps
  <2> QED BY <2>1, <2>2, <2>3
<1>11. PagesInv(past, Due, Left', SentOn', unsaid)
  <2>1. AreEntries(unsaid) /\ \A e \in unsaid : e.kind # "error"
    BY SentAre DEF LineInv
  <2>2. PICK less : less = Left'
    OBVIOUS
  <2>3. PagesInv(past, Due, less, SentOn \cup {EntryOf("error", lister[w].dir)}, unsaid)
    BY <1>1, <1>3, <1>8, <2>1, <2>2, FailPage
  <2> QED BY <1>10, <2>2, <2>3
<1>12. CrawlInv(past)'
  BY <1>1, <1>8, <1>9, <1>11, PutTogether
<1>13. CrawlTypes'
  BY <1>1, <1>4, ServiceScanAssumption DEF CrawlTypes, SvMayFail, SvFail
<1> QED BY <1>10, <1>12, <1>13 DEF Keeps

(* A worker is done with a folder. *)
LEMMA FinishFolderKeeps ==
    ASSUME CrawlTypes, LineInv, NEW past, CrawlInv(past), NEW w \in SvWorkers, FinishFolder(w)
    PROVE  Keeps
<1>1. /\ lister[w].at = "listing" /\ lister[w].left = {}
      /\ toCrawl' = toCrawl \cup lister[w].found
      /\ lister' = [lister EXCEPT ![w] = Nobody]
      /\ UNCHANGED <<svOptions, traverser, svResult, crawled, converter, converted, svOutcome>>
      /\ past \subseteq SvFolders /\ ListerInv(past) /\ PagesInv(past, Due, Left, SentOn, unsaid)
  BY DEF FinishFolder, CrawlInv
<1>2. UNCHANGED <<got, gotTwice, unsaid, logged, svFaults>>
  BY <1>1 DEF svOutcome
<1>3. Nobody \in ListerStates /\ Nobody.at = "idle" /\ Nobody.left = {} /\ Nobody.found = {}
  BY ServiceScanAssumption DEF ListerStates, Nobody
<1>4. OnlyMoves(w) /\ lister'[w] = Nobody /\ lister' \in [SvWorkers -> ListerStates]
  BY <1>1, <1>3, ListerTypes
<1>5. /\ Due = toCrawl \cup FoundBut(w) \cup lister[w].found
      /\ Left = LeftBut(w) \cup lister[w].left
  BY OfOneLister
<1>6. /\ Due' = toCrawl' \cup FoundBut(w) \cup lister'[w].found
      /\ Left' = LeftBut(w) \cup lister'[w].left
  BY <1>4, OfOneListerNext
<1>7. Due' = Due /\ Left' = Left
  BY <1>1, <1>3, <1>4, <1>5, <1>6
<1>8. /\ FoundBut(w) \cap toCrawl = {}
      /\ \A d \in FoundBut(w) : SvIn[d] # lister[w].dir
  BY <1>1, ListersApart
<1>9. FoundBut(w) \cap toCrawl' = {}
  <2>1. \A d \in lister[w].found : SvIn[d] = lister[w].dir
    BY <1>1 DEF ListerInv
  <2> QED BY <1>1, <1>8, <2>1
<1>10. ListerInv(past)'
  <2>1. \A v \in SvWorkers : lister[v].at # "gone"
    BY <1>1 DEF ListerInv
  <2> QED BY <1>1, <1>3, <1>4, <1>9, <2>1, OneListerMoves
<1>11. LineInv' /\ SentOn' = SentOn
  <2>1. AreEntries(unsaid) /\ \A f \in unsaid : f.kind # "error"
    BY SentAre DEF LineInv
  <2> QED BY <1>1, <1>2, <2>1, LineFrame DEF AreEntries
<1>12. CrawlInv(past)'
  BY <1>1, <1>2, <1>7, <1>10, <1>11, PutTogether
<1>13. CrawlTypes'
  <2>1. toCrawl' \subseteq SvFolders
    BY <1>1 DEF CrawlTypes, ListerStates
  <2> QED BY <1>1, <1>2, <1>4, <2>1 DEF CrawlTypes
<1> QED BY <1>11, <1>12, <1>13 DEF Keeps

(* The crawl stands still while others take from its line. *)
LEMMA CrawlStandsStill ==
    ASSUME NEW past, CrawlInv(past), UNCHANGED <<svOptions, lister, toCrawl, unsaid>>,
           PagesInv(past, Due, Left, SentOn', unsaid)
    PROVE  CrawlInv(past)'
<1>1. ListerInv(past)'
  <2>1. ListerInv(past) /\ \A d : PageOf(d)' = PageOf(d)
    BY PageFrame DEF CrawlInv
  <2> QED BY <2>1 DEF ListerInv
<1>2. Due' = Due /\ Left' = Left
  BY DEF Due, Left
<1> QED BY <1>1, <1>2, PutTogether

(* A converter takes an entry, ... *)
LEMMA ReceiveStep ==
    ASSUME CrawlTypes, LineInv, NEW past, CrawlInv(past), NEW c \in SvConverters, Receive(c)
    PROVE  Keeps
<1>1. /\ UNCHANGED <<svOptions, traverser, svResult, lister, toCrawl, converted, svOutcome>>
      /\ PagesInv(past, Due, Left, SentOn, unsaid)
  BY DEF Receive, CrawlInv
<1>2. UNCHANGED <<got, gotTwice, unsaid, logged, svFaults>>
  BY <1>1 DEF svOutcome
<1>3. LineInv' /\ SentOn' = SentOn
  BY ReceiveKeeps
<1>4. CrawlInv(past)'
  BY <1>1, <1>2, <1>3, CrawlStandsStill
<1>5. CrawlTypes'
  BY <1>1, <1>2 DEF CrawlTypes
<1> QED BY <1>3, <1>4, <1>5 DEF Keeps

(* ... and sends it on. *)
LEMMA ConvertStep ==
    ASSUME CrawlTypes, LineInv, NEW past, CrawlInv(past), NEW c \in SvConverters, Convert(c)
    PROVE  Keeps
<1>1. /\ UNCHANGED <<svOptions, traverser, svResult, lister, toCrawl, crawled>>
      /\ UNCHANGED <<got, gotTwice, unsaid, logged>>
      /\ svFaults' = svFaults \/ (SvMayFail("properties") /\ SvFail)
      /\ PagesInv(past, Due, Left, SentOn, unsaid)
  BY DEF Convert, CrawlInv
<1>2. /\ LineInv' /\ SentOn' \subseteq SentOn /\ ~IsBlobListing
      /\ \A e \in SentOn \ SentOn' : IsSkipped(e)
  BY ConvertKeeps
<1>3. PagesInv(past, Due, Left, SentOn', unsaid)
  <2>1. lists = "share"
    BY <1>2 DEF IsBlobListing
  <2>2. PICK less : less = SentOn'
    OBVIOUS
  <2>3. PagesInv(past, Due, Left, less, unsaid)
    BY <1>1, <1>2, <2>1, <2>2, SkipOne
  <2> QED BY <2>2, <2>3
<1>4. CrawlInv(past)'
  BY <1>1, <1>3, CrawlStandsStill
<1>5. CrawlTypes'
  BY <1>1, ServiceScanAssumption DEF CrawlTypes, SvMayFail, SvFail
<1> QED BY <1>2, <1>4, <1>5 DEF Keeps

(* The traverser takes an entry, and goes on or gives up. *)
LEMMA TakeEntryStep ==
    ASSUME OptionTypes, CrawlTypes, LineInv, NEW past, CrawlInv(past), TakeEntry
    PROVE  /\ CrawlTypes' /\ LineTypes'
           /\ \/ UNCHANGED <<traverser, svResult>> /\ Keeps
              \/ traverser' = "returned" /\ svResult' = "error" /\ gotTwice' = {}
<1>1. /\ LineTypes' /\ gotTwice' = {}
      /\ UNCHANGED <<svOptions, lister, toCrawl, unsaid>>
      /\ svFaults' = svFaults \/ (SvMayFail("process") /\ SvFail)
      /\ \/ UNCHANGED <<traverser, svResult>> /\ LineInv' /\ SentOn' = SentOn
         \/ traverser' = "returned" /\ svResult' = "error"
  BY TakeEntryKeeps
<1>2. CrawlTypes'
  <2>1. svFaults' \in 0 .. MaxSvFaults
    BY <1>1, ServiceScanAssumption DEF CrawlTypes, SvMayFail, SvFail
  <2> QED BY <1>1, <2>1 DEF CrawlTypes
<1>3. CASE UNCHANGED <<traverser, svResult>> /\ LineInv' /\ SentOn' = SentOn
  <2>1. PagesInv(past, Due, Left, SentOn', unsaid)
    BY <1>3 DEF CrawlInv
  <2>2. CrawlInv(past)'
    BY <1>1, <2>1, CrawlStandsStill
  <2> QED BY <1>1, <1>2, <1>3, <2>2 DEF Keeps
<1> QED BY <1>1, <1>2, <1>3

-----------------------------------------------------------------------------
(* What a listing should hand on depends on the options, and on what was   *)
(* refused or logged.                                                      *)
LEMMA ExpectedFrame ==
    ASSUME UNCHANGED svOptions, UNCHANGED <<unsaid, logged>>
    PROVE  ExpectedBlobs' = ExpectedBlobs /\ ExpectedEntries' = ExpectedEntries
<1>1. /\ svRecursive' = svRecursive /\ lists' = lists /\ (IsBlobListing' <=> IsBlobListing)
      /\ dirStubs' = dirStubs /\ rootSlash' = rootSlash /\ atName' = atName /\ atSlash' = atSlash
      /\ permanentDelete' = permanentDelete
      /\ \A e : IsSkipped(e)' <=> IsSkipped(e)
  BY SkippedFrame DEF svOptions
<1>2. AtRoot' = AtRoot /\ RootEntry' = RootEntry
  BY <1>1 DEF AtRoot, RootEntry
<1>3. IsScheduledAsBlob' <=> IsScheduledAsBlob
  BY <1>1, <1>2 DEF IsScheduledAsBlob
<1>4. NamesBelow' = NamesBelow
  <2>1. /\ \A d : ItemsOf(d)' = ItemsOf(d)
        /\ \A e : RepresentsAFolder(e)' <=> RepresentsAFolder(e)
    BY PageFrame
  <2> QED BY <1>1, <2>1 DEF NamesBelow
<1>5. \A e : IsAskedFor(e)' <=> IsAskedFor(e)
  BY <1>1 DEF IsAskedFor
<1>6. StubsBelow' = StubsBelow
  <2>1. \A d : IsPrefix(d)' <=> IsPrefix(d)
    BY PageFrame
  <2>2. \A d : HasStub(d)' <=> HasStub(d)
    BY <1>1 DEF HasStub
  <2> QED BY <1>1, <1>2, <2>1, <2>2 DEF StubsBelow
<1>7. ExpectedBlobs' = ExpectedBlobs
  BY <1>2, <1>3, <1>4, <1>5, <1>6 DEF ExpectedBlobs
<1>8. Hidden' = Hidden
  BY DEF Hidden, Unreadable
<1>9. ExpectedEntries' = ExpectedEntries
  BY <1>1, <1>8 DEF ExpectedEntries
<1> QED BY <1>7, <1>9

(* When the workers and the converters are done, all that was sent has     *)
(* arrived, and nothing is due.                                            *)
LEMMA EndIsExact ==
    ASSUME OptionTypes, CrawlTypes, LineInv, NEW past, CrawlInv(past), EndOfListing
    PROVE  /\ lists = "parallel" => got = ExpectedBlobs
           /\ lists = "share" =>
                ExpectedEntries \subseteq got /\ \A e \in got : ~IsSkipped(e) /\ e \notin logged
<1>1. /\ CrawlEnded /\ ConversionEnded /\ crawled = <<>> /\ converted = <<>>
      /\ lists # "flat"
  BY DEF EndOfListing, Crawls
<1>2. past \subseteq SvFolders /\ ListerInv(past) /\ PagesInv(past, Due, Left, SentOn, unsaid)
  BY DEF CrawlInv
<1>3. toCrawl = {} /\ \A w \in SvWorkers : lister[w].left = {} /\ lister[w].found = {}
  BY <1>1, <1>2, ServiceScanAssumption DEF CrawlEnded, ListerInv
<1>4. Due = {} /\ Left = {}
  BY <1>3 DEF Due, Left
<1>5. SentOn = got \cup logged
  <2>1. \A c \in SvConverters : ~IsEntry(converter[c])
    BY <1>1 DEF ConversionEnded, Finished, NoEntry, IsEntry
  <2>2. AtConverters = {}
    BY <2>1 DEF AtConverters
  <2>3. KeysOf(crawled) = {} /\ KeysOf(converted) = {}
    BY <1>1, EmptyLine
  <2> QED BY <2>2, <2>3 DEF SentOn
<1>6. PagesInv(past, {}, {}, got \cup logged, unsaid)
  BY <1>2, <1>4, <1>5
<1>7. /\ AreEntries(got) /\ AreEntries(logged) /\ \A e \in got : e.kind # "error"
      /\ IsBlobListing => logged = {}
      /\ lists = "share" => EntryOf("folder", SvRoot) \in got \cup unsaid
      /\ lists = "share" => \A e \in got : ~IsSkipped(e)
      /\ got \cap logged = {}
  BY SentAre DEF LineInv, ConversionInv, PlaceInv
<1>8. CASE lists = "parallel"
  <2>1. got \cup logged = got
    BY <1>7, <1>8 DEF IsBlobListing
  <2>2. PagesInv(past, {}, {}, got, unsaid)
    BY <1>6, <2>1
  <2> QED BY <1>7, <1>8, <2>2, BlobsEnd
<1>9. CASE lists = "share"
  BY <1>6, <1>7, <1>9, ShareEnd
<1> QED BY <1>1, <1>8, <1>9 DEF OptionTypes

(* A flat listing: all items of the folders that it reaches. *)
FlatBlobs == {e \in FlatItems : ~RepresentsAFolder(e) /\ PassesFilters(e)}

(* It depends on the options. *)
LEMMA FlatFrame ==
    ASSUME UNCHANGED svOptions
    PROVE  FlatBlobs' = FlatBlobs /\ \A e : PassesFilters(e)' <=> PassesFilters(e)
<1>1. svRecursive' = svRecursive /\ permanentDelete' = permanentDelete
  BY DEF svOptions
<1>2. /\ \A d : ItemsOf(d)' = ItemsOf(d)
      /\ \A e : RepresentsAFolder(e)' <=> RepresentsAFolder(e)
  BY PageFrame
<1>3. FlatItems' = FlatItems
  BY <1>1, <1>2 DEF FlatItems
<1>4. \A x : (HasSnapshotId(x)' <=> HasSnapshotId(x)) /\ (HasVersionId(x)' <=> HasVersionId(x))
  BY <1>1 DEF HasSnapshotId, HasVersionId, IncludesSnapshots, IncludesVersions
<1>5. \A e : PassesFilters(e)' <=> PassesFilters(e)
  BY <1>1, <1>4 DEF PassesFilters, IncludesSnapshots, IncludesVersions, IsDeleted
<1> QED BY <1>2, <1>3, <1>5 DEF FlatBlobs

(* They are the blobs that are expected. *)
LEMMA FlatBlobsAre ==
    ASSUME OptionTypes, lists = "flat"
    PROVE  FlatBlobs \subseteq SvEntries /\ (\A e \in FlatBlobs : e.ok = TRUE /\ e.kind # "error")
           /\ FlatBlobs = ExpectedBlobs
<1>1. FlatBlobs = ExpectedBlobs
  BY FlatIsExact DEF FlatBlobs
<1>2. ASSUME NEW e \in FlatBlobs PROVE e \in SvEntries /\ e.ok = TRUE /\ e.kind # "error"
  <2>1. PICK d \in SvFolders : e \in ItemsOf(d)
    BY <1>2, FoldersArePaths DEF FlatBlobs, FlatItems
  <2>2. IsBlobListing
    BY DEF IsBlobListing
  <2> QED BY <2>1, <2>2, ItemIs DEF IsOnPage
<1> QED BY <1>1, <1>2

(* A flat listing hands on what it should, and ends with all of it.        *)
LEMMA ListFlatKeeps ==
    ASSUME OptionTypes, CrawlTypes, LineTypes, FlatKeeps, ListFlat
    PROVE  /\ OptionTypes' /\ CrawlTypes' /\ LineTypes'
           /\ \/ traverser' = "listing" /\ UNCHANGED svResult /\ FlatKeeps'
              \/ /\ traverser' = "returned" /\ gotTwice' = {}
                 /\ svResult' = "ok" => got' = ExpectedBlobs'
<1> DEFINE left == FlatBlobs \ got
<1>1. /\ traverser = "listing" /\ lists = "flat"
      /\ \/ \E e \in left : Take(e) /\ UNCHANGED <<traverser, svResult, svFaults>>
         \/ left = {} /\ Return("ok") /\ UNCHANGED <<got, gotTwice, svFaults>>
         \/ /\ SvMayFail("page") \/ (left # {} /\ SvMayFail("process"))
            /\ SvFail /\ Return("error") /\ UNCHANGED <<got, gotTwice>>
      /\ UNCHANGED <<svOptions, svCrawl, unsaid, logged>>
  BY DEF ListFlat, FlatBlobs
<1>2. got \subseteq FlatBlobs /\ gotTwice = {}
  BY DEF FlatKeeps, FlatBlobs
<1>3. OptionTypes'
  BY <1>1, OptionFrame
<1>4. FlatBlobs' = FlatBlobs /\ ExpectedBlobs' = ExpectedBlobs
  <2>1. FlatBlobs' = FlatBlobs
    BY <1>1, FlatFrame
  <2>2. ExpectedBlobs' = ExpectedBlobs
    BY <1>1, ExpectedFrame
  <2> QED BY <2>1, <2>2
<1>5. FlatBlobs \subseteq SvEntries /\ FlatBlobs = ExpectedBlobs
  BY <1>1, FlatBlobsAre
<1>6. got' \subseteq FlatBlobs /\ gotTwice' = {}
  <2>1. CASE \E e \in left : Take(e)
    BY <1>2, <2>1 DEF Take, FlatBlobs
  <2> QED BY <1>1, <1>2, <2>1
<1>7. UNCHANGED <<lister, toCrawl, crawled, converter, converted>>
  BY <1>1 DEF svCrawl
<1>8. LineTypes'
  BY <1>1, <1>5, <1>6, <1>7 DEF LineTypes
<1>9. CrawlTypes'
  <2>1. svFaults' \in 0 .. MaxSvFaults
    BY <1>1, ServiceScanAssumption DEF CrawlTypes, SvMayFail, SvFail
  <2>2. traverser' \in {"start", "listing", "returned"} /\ svResult' \in {"none", "ok", "error"}
    BY <1>1 DEF CrawlTypes, Return
  <2> QED BY <1>7, <2>1, <2>2 DEF CrawlTypes
<1>10. CASE UNCHANGED <<traverser, svResult>>
  <2>1. got' \subseteq FlatBlobs'
    BY <1>4, <1>6
  <2> QED BY <1>1, <1>3, <1>6, <1>8, <1>9, <1>10, <2>1 DEF FlatKeeps, FlatBlobs
<1>11. CASE left = {} /\ Return("ok") /\ UNCHANGED <<got, gotTwice, svFaults>>
  <2>1. got' = ExpectedBlobs'
    BY <1>2, <1>4, <1>5, <1>11
  <2> QED BY <1>3, <1>6, <1>8, <1>9, <1>11, <2>1 DEF Return
<1>12. CASE Return("error")
  BY <1>3, <1>6, <1>8, <1>9, <1>12 DEF Return
<1> QED BY <1>1, <1>10, <1>11, <1>12

-----------------------------------------------------------------------------
(* The crawl begins with the root, for which something may have been sent. *)
LEMMA CrawlBegins ==
    ASSUME OptionTypes, lists # "flat", crawled = <<>>, converted = <<>>, logged = {},
           StartCrawl, UNCHANGED <<svOptions, crawled, converted, logged>>,
           NEW s, NEW u, got' = s, unsaid' = u, s \subseteq RootsOwn, u \subseteq RootsOwn,
           s \cap u = {}, gotTwice' = {}, RootSettled(s, u)
    PROVE  LineTypes' /\ CrawlKeeps' /\ toCrawl' \subseteq SvFolders
           /\ lister' \in [SvWorkers -> ListerStates]
           /\ traverser' = "listing" /\ UNCHANGED svResult
<1>1. /\ traverser' = "listing" /\ UNCHANGED svResult /\ toCrawl' = {SvRoot}
      /\ lister' = [w \in SvWorkers |-> Nobody]
      /\ converter' = [c \in SvConverters |-> IF lists = "share" THEN NoEntry ELSE Finished]
      /\ crawled' = <<>> /\ converted' = <<>> /\ logged' = {}
      /\ lists' = lists /\ SvRoot \in SvFolders
  BY FoldersArePaths DEF StartCrawl, svOptions
<1>2. Nobody \in ListerStates /\ Nobody.at = "idle" /\ Nobody.left = {} /\ Nobody.found = {}
  BY ServiceScanAssumption DEF ListerStates, Nobody
<1>3. ~IsEntry(NoEntry) /\ ~IsEntry(Finished)
  BY DEF IsEntry, NoEntry, Finished
<1>4. \A c \in SvConverters : ~IsEntry(converter'[c])
  BY <1>1, <1>3
<1>5. ASSUME NEW e \in s \cup u
      PROVE  /\ e = EntryOf("folder", SvRoot) /\ e \in SvEntries /\ e.kind = "folder" /\ e.ok = TRUE
             /\ e.path = SvRoot
  <2>1. e = EntryOf("folder", SvRoot) /\ SvRoot \in SvPaths
    BY <1>1, <1>5, FoldersArePaths DEF RootsOwn
  <2> QED BY <2>1 DEF EntryOf, SvEntries, SvKinds
<1>6. LineTypes'
  <2>1. <<>> \in Seq(SvEntries) /\ Len(<<>>) = 0 /\ SvRoom \in Nat
    BY ServiceScanAssumption
  <2>2. converter' \in [SvConverters -> SvEntries \cup {NoEntry, Finished}]
    BY <1>1
  <2>3. got' \subseteq SvEntries /\ unsaid' \subseteq SvEntries
    BY <1>5
  <2>4. SvRoom >= 0
    BY <2>1
  <2> QED BY <1>1, <2>1, <2>2, <2>3, <2>4 DEF LineTypes
<1>7. AtConverters' = {}
  BY <1>4 DEF AtConverters
<1>8. /\ KeysOf(crawled') = {} /\ KeysOf(converted') = {} /\ OnLine(crawled') = {}
      /\ OnLine(converted') = {}
      /\ OncePerLine(crawled') /\ OncePerLine(converted')
  BY <1>1, EmptyLine
<1>9. PlaceInv'
  <2>1. /\ KeysOf(crawled)' = {} /\ KeysOf(converted)' = {}
        /\ OncePerLine(crawled)' /\ OncePerLine(converted)'
    BY <1>8 DEF KeysOf, OnLine, EntryKey, OncePerLine
  <2> QED BY <1>1, <1>4, <1>7, <2>1 DEF PlaceInv, Apart, IsEntry
<1>10. ConversionInv'
  <2>1. OnLine(crawled)' = {} /\ OnLine(converted)' = {}
    BY <1>8 DEF OnLine
  <2>2. \A e \in got' : ~IsSkipped(e)'
    BY <1>5 DEF IsSkipped
  <2>3. lists' = "share" => EntryOf("folder", SvRoot) \in got' \cup unsaid'
    BY <1>1 DEF RootSettled
  <2>4. \A e \in got' \cup logged' \cup unsaid' : e.ok
    BY <1>1, <1>5
  <2>5. \A e \in got' \cup unsaid' : e.kind # "error"
    BY <1>5
  <2>6. IsBlobListing' => \A c \in SvConverters : converter'[c] = Finished
    BY <1>1 DEF IsBlobListing
  <2> QED BY <1>1, <1>4, <2>1, <2>2, <2>3, <2>4, <2>5, <2>6 DEF ConversionInv, IsEntry
<1>11. Due' = {SvRoot} /\ Left' = {}
  BY <1>1, <1>2 DEF Due, Left
<1>12. SentOn' = s
  <2>1. KeysOf(crawled)' = {} /\ KeysOf(converted)' = {}
    BY <1>8 DEF KeysOf, OnLine, EntryKey
  <2> QED BY <1>1, <1>7, <2>1 DEF SentOn
<1>13. PagesInv({}, {SvRoot}, {}, s, u)
  <2>1. FoldersOnce({}, {SvRoot}, {})
    BY <1>1 DEF FoldersOnce
  <2>2. SentOnce({}, {}, s, u)
    BY <1>5 DEF SentOnce
  <2>3. AllSettled({}, {SvRoot}, {}, s, u)
    BY DEF AllSettled
  <2> QED BY <2>1, <2>2, <2>3 DEF PagesInv
<1>14. ListerInv({})'
  BY <1>1, <1>2 DEF ListerInv
<1>15. CrawlInv({})'
  BY <1>11, <1>12, <1>13, <1>14, PutTogether
<1>16. CrawlKeeps'
  <2>1. ListerInv({})' /\ PagesInv({}, Due, Left, SentOn, unsaid)'
    BY <1>15 DEF CrawlInv
  <2> QED BY <1>9, <1>10, <2>1 DEF CrawlKeeps
<1> QED BY <1>1, <1>2, <1>6, <1>16

(* Nothing has been done. *)
AtStart ==
    /\ svResult = "none" /\ crawled = <<>> /\ converted = <<>>
    /\ got = {} /\ gotTwice = {} /\ unsaid = {} /\ logged = {}

(* What is promised when Traverse returns. *)
Promised == NothingIsListedTwice /\ BlobListingIsExact /\ ShareListingIsExact

(* With an error, only that nothing came twice. *)
LEMMA ErrorPromisesLittle ==
    ASSUME gotTwice' = {}, svResult' = "error"
    PROVE  Promised'
BY DEF Promised, NothingIsListedTwice, BlobListingIsExact, ShareListingIsExact

(* The root of a listing. *)
LEMMA RootsAre ==
    /\ EntryOf("folder", SvRoot) \in SvEntries /\ ~IsSkipped(EntryOf("folder", SvRoot))
    /\ RootEntry \in SvEntries
    /\ RootsOwn = {EntryOf("folder", SvRoot)}
<1>1. SvRoot \in SvPaths
  BY FoldersArePaths
<1> QED BY <1>1 DEF EntryOf, SvEntries, SvKinds, RootEntry, RootsOwn, IsSkipped

(* The start of a listing of blobs, ... *)
LEMMA TraverseBlobsKeeps ==
    ASSUME OptionTypes, CrawlTypes, LineTypes, AtStart, TraverseBlobs
    PROVE  ListingIInv'
<1>1. /\ traverser = "start" /\ IsBlobListing /\ lists \in {"parallel", "flat"}
      /\ UNCHANGED <<svOptions, crawled, converted, unsaid, logged>>
      /\ UNCHANGED svOptions
  BY DEF TraverseBlobs, IsBlobListing, OptionTypes
<1>2. /\ svResult = "none" /\ crawled = <<>> /\ converted = <<>> /\ got = {} /\ gotTwice = {}
      /\ unsaid = {} /\ logged = {}
  BY DEF AtStart
<1>3. OptionTypes' /\ lists' = lists
  BY <1>1, OptionFrame DEF svOptions
<1>4. svFaults' \in 0 .. MaxSvFaults
  BY ServiceScanAssumption DEF TraverseBlobs, CrawlTypes, SvMayFail, SvFail
<1>5. /\ IsScheduledAsBlob => lists = "parallel" /\ ~IncludesDeleted
      /\ IsScheduledAsStub => lists = "parallel"
  BY <1>1 DEF OptionTypes, IsScheduledAsBlob, IsScheduledAsStub, IncludesDeleted
<1>6. CASE /\ IsScheduledAsBlob /\ Take(RootEntry)
           /\ Return("ok") /\ UNCHANGED <<toCrawl, lister, converter>>
  <2>1. got' = {RootEntry} /\ gotTwice' = {}
    <3>1. got' = got \cup {RootEntry} /\ gotTwice' = gotTwice \cup (got \cap {RootEntry})
      BY <1>5, <1>6, NothingIsFiltered
    <3> QED BY <1>2, <3>1
  <2>2. ExpectedBlobs' = {RootEntry}
    <3>1. ExpectedBlobs' = ExpectedBlobs
      BY <1>1, ExpectedFrame
    <3> QED BY <1>6, <3>1 DEF ExpectedBlobs
  <2>3. Promised'
    <3>1. got' = ExpectedBlobs'
      BY <2>1, <2>2
    <3>2. lists' # "share"
      BY <1>1, <1>3
    <3> QED BY <2>1, <3>1, <3>2 DEF Promised, NothingIsListedTwice, BlobListingIsExact,
               ShareListingIsExact
  <2>4. LineTypes'
    BY <1>1, <1>6, <2>1, RootsAre DEF LineTypes
  <2>5. CrawlTypes' /\ traverser' = "returned"
    BY <1>4, <1>6 DEF CrawlTypes, Return
  <2> QED BY <1>3, <2>3, <2>4, <2>5 DEF ListingIInv, Promised
<1>7. CASE Return("error") /\ UNCHANGED <<toCrawl, lister, converter, got, gotTwice>>
  <2>1. Promised'
    BY <1>2, <1>7, ErrorPromisesLittle DEF Return
  <2>2. LineTypes'
    BY <1>1, <1>7 DEF LineTypes
  <2>3. CrawlTypes' /\ traverser' = "returned"
    BY <1>4, <1>7 DEF CrawlTypes, Return
  <2> QED BY <1>3, <2>1, <2>2, <2>3 DEF ListingIInv, Promised
<1>8. ASSUME NEW s, got' = s, gotTwice' = {}, s \subseteq RootsOwn, StartCrawl, lists = "parallel",
             EntryOf("folder", SvRoot) \in s <=> IsScheduledAsStub, ~IsScheduledAsBlob
      PROVE  ListingIInv'
  <2>1. PICK none : none = {}
    OBVIOUS
  <2>2. RootSettled(s, none) /\ none \subseteq RootsOwn /\ s \cap none = {} /\ unsaid' = none
    BY <1>1, <1>2, <1>8, <2>1 DEF RootSettled
  <2>3. /\ LineTypes' /\ CrawlKeeps' /\ toCrawl' \subseteq SvFolders
        /\ lister' \in [SvWorkers -> ListerStates]
        /\ traverser' = "listing" /\ svResult' = "none"
    BY <1>1, <1>2, <1>8, <2>2, CrawlBegins
  <2>4. CrawlTypes'
    BY <1>4, <1>8, <2>3 DEF CrawlTypes, StartCrawl
  <2> QED BY <1>3, <1>8, <2>3, <2>4 DEF ListingIInv
<1>9. CASE ~IsScheduledAsBlob /\ IsScheduledAsStub /\ Take(EntryOf("folder", SvRoot)) /\ StartCrawl
  <2>1. PICK x : x = EntryOf("folder", SvRoot)
    OBVIOUS
  <2>2. got' = got \cup {x} /\ gotTwice' = gotTwice \cup (got \cap {x})
    BY <1>5, <1>9, <2>1, NothingIsFiltered
  <2>3. got' = {x} /\ gotTwice' = {} /\ {x} \subseteq RootsOwn
    BY <1>2, <2>1, <2>2, RootsAre
  <2> QED BY <1>5, <1>8, <1>9, <2>1, <2>3
<1>10. CASE ~(IsScheduledAsBlob \/ IsScheduledAsStub) /\ StartCrawl /\ UNCHANGED <<got, gotTwice>>
  <2>1. CASE lists = "parallel"
    <3>1. got' = {} /\ gotTwice' = {}
      BY <1>2, <1>10
    <3> QED BY <1>8, <1>10, <2>1, <3>1
  <2>2. CASE lists = "flat"
    <3>1. got' = {} /\ gotTwice' = {} /\ FlatKeeps'
      BY <1>2, <1>10 DEF FlatKeeps
    <3>2. LineTypes'
      BY <1>1, <1>10, <2>2, <3>1 DEF LineTypes, StartCrawl
    <3>3. Nobody \in ListerStates
      BY ServiceScanAssumption DEF ListerStates, Nobody
    <3>4. CrawlTypes' /\ traverser' = "listing" /\ svResult' = "none"
      BY <1>2, <1>4, <1>10, <3>3, FoldersArePaths DEF CrawlTypes, StartCrawl
    <3> QED BY <1>3, <2>2, <3>1, <3>2, <3>4 DEF ListingIInv
  <2> QED BY <1>1, <2>1, <2>2
<1>11. \/ /\ IsScheduledAsBlob /\ Take(RootEntry)
          /\ Return("ok") /\ UNCHANGED <<toCrawl, lister, converter>>
       \/ Return("error") /\ UNCHANGED <<toCrawl, lister, converter, got, gotTwice>>
       \/ ~IsScheduledAsBlob /\ IsScheduledAsStub /\ Take(EntryOf("folder", SvRoot)) /\ StartCrawl
       \/ ~(IsScheduledAsBlob \/ IsScheduledAsStub) /\ StartCrawl /\ UNCHANGED <<got, gotTwice>>
  <2>1. CASE IsScheduledAsBlob
    BY <1>5, <2>1 DEF TraverseBlobs
  <2>2. CASE ~IsScheduledAsBlob
    BY <2>2 DEF TraverseBlobs
  <2> QED BY <2>1, <2>2
<1> QED BY <1>6, <1>7, <1>9, <1>10, <1>11

(* ... and of a share. *)
LEMMA TraverseShareKeeps ==
    ASSUME OptionTypes, CrawlTypes, LineTypes, AtStart, TraverseShare
    PROVE  ListingIInv'
<1> DEFINE root == EntryOf("folder", SvRoot)
<1>1. /\ traverser = "start" /\ lists = "share"
      /\ UNCHANGED <<svOptions, crawled, converted, logged>> /\ UNCHANGED svOptions
      /\ \/ Take(root) /\ StartCrawl /\ UNCHANGED <<unsaid, svFaults>>
         \/ /\ SvMayFail("properties") \/ SvMayFail("process")
            /\ SvFail /\ Return("error")
            /\ UNCHANGED <<toCrawl, lister, converter, got, gotTwice, unsaid>>
         \/ /\ ~rootSlash /\ SvMayFail("properties") /\ SvFail
            /\ unsaid' = unsaid \cup {root} /\ StartCrawl
            /\ UNCHANGED <<got, gotTwice>>
  BY DEF TraverseShare
<1>2. /\ svResult = "none" /\ crawled = <<>> /\ converted = <<>> /\ got = {} /\ gotTwice = {}
      /\ unsaid = {} /\ logged = {}
  BY DEF AtStart
<1>3. OptionTypes' /\ lists' = lists
  BY <1>1, OptionFrame DEF svOptions
<1>4. svFaults' \in 0 .. MaxSvFaults
  BY <1>1, ServiceScanAssumption DEF CrawlTypes, SvMayFail, SvFail
<1>5. RootsOwn = {root}
  BY RootsAre
<1> HIDE DEF root
<1>6. CASE Return("error") /\ UNCHANGED <<toCrawl, lister, converter, got, gotTwice, unsaid>>
  <2>1. Promised'
    BY <1>2, <1>6, ErrorPromisesLittle DEF Return
  <2>2. LineTypes'
    BY <1>1, <1>6 DEF LineTypes
  <2>3. CrawlTypes' /\ traverser' = "returned"
    BY <1>4, <1>6 DEF CrawlTypes, Return
  <2> QED BY <1>3, <2>1, <2>2, <2>3 DEF ListingIInv, Promised
<1>7. ASSUME NEW s, NEW u, got' = s, unsaid' = u, gotTwice' = {}, s \cup u = {root},
             s \cap u = {}, StartCrawl
      PROVE  ListingIInv'
  <2>1. RootSettled(s, u) /\ s \subseteq RootsOwn /\ u \subseteq RootsOwn
    BY <1>1, <1>5, <1>7 DEF RootSettled, root
  <2>2. /\ LineTypes' /\ CrawlKeeps' /\ toCrawl' \subseteq SvFolders
        /\ lister' \in [SvWorkers -> ListerStates]
        /\ traverser' = "listing" /\ svResult' = "none"
    BY <1>1, <1>2, <1>7, <2>1, CrawlBegins
  <2>3. CrawlTypes'
    BY <1>4, <1>7, <2>2 DEF CrawlTypes, StartCrawl
  <2> QED BY <1>1, <1>3, <2>2, <2>3 DEF ListingIInv
<1>8. CASE Take(root) /\ StartCrawl /\ UNCHANGED unsaid
  <2>1. got' = got \cup {root} /\ gotTwice' = gotTwice \cup (got \cap {root})
    BY <1>1, <1>8, NothingIsFiltered
  <2>2. got' = {root} /\ gotTwice' = {} /\ unsaid' = {}
    BY <1>2, <1>8, <2>1
  <2> QED BY <1>7, <1>8, <2>2
<1>9. CASE unsaid' = unsaid \cup {root} /\ StartCrawl /\ UNCHANGED <<got, gotTwice>>
  <2>1. got' = {} /\ gotTwice' = {} /\ unsaid' = {root}
    BY <1>2, <1>9
  <2> QED BY <1>7, <1>9, <2>1
<1> QED BY <1>1, <1>6, <1>8, <1>9

(* The invariant holds at first, ... *)
LEMMA ListingBegins == SVInit => ListingIInv
<1> SUFFICES ASSUME SVInit PROVE ListingIInv
  OBVIOUS
<1> USE ServiceScanAssumption
<1>1. OptionTypes
  <2>1. lists \in {"parallel", "flat", "share"}
    BY DEF SVInit
  <2>2. /\ svRecursive \in BOOLEAN /\ dirStubs \in BOOLEAN /\ (dirStubs => lists = "parallel")
        /\ permanentDelete \in {"none", "snapshots", "versions", "both"}
        /\ (permanentDelete # "none" => lists = "flat")
        /\ skipLinks \in BOOLEAN /\ rootSlash \in BOOLEAN /\ (lists = "flat" => rootSlash)
    BY DEF SVInit
  <2>3. PICK d \in {SvRoot, SvNamed}, n \in AtName, s \in AtName :
           atName = OnlyAt(d, n) /\ atSlash = OnlyAt(d, s)
    <3>1. "nothing" \in AtName
      BY DEF AtName
    <3> QED BY <3>1 DEF SVInit
  <2>4. /\ atName \in [SvFolders -> AtName] /\ atSlash \in [SvFolders -> AtName]
        /\ \A f \in SvFolders \ {SvRoot, SvNamed} : atName[f] = "nothing" /\ atSlash[f] = "nothing"
    BY <2>3 DEF OnlyAt, AtName
  <2> QED BY <2>1, <2>2, <2>4 DEF OptionTypes
<1>2. CrawlTypes
  <2>1. Gone \in ListerStates
    BY DEF ListerStates, Gone, Nobody
  <2> QED BY <2>1 DEF SVInit, CrawlTypes
<1>3. LineTypes
  BY DEF SVInit, LineTypes
<1> QED BY <1>1, <1>2, <1>3 DEF SVInit, ListingIInv

(* While the crawl goes on, a step keeps its invariant, or ends it. *)
LEMMA ListingCrawlStep ==
    ASSUME ListingIInv, CrawlKeeps, traverser = "listing", lists # "flat", SVNext
    PROVE  ListingIInv'
<1>1. LineInv /\ OptionTypes /\ CrawlTypes
  BY DEF ListingIInv, LineInv, CrawlKeeps
<1>2. PICK past : CrawlInv(past)
  BY DEF CrawlInv, CrawlKeeps
<1>3. ASSUME Keeps, UNCHANGED svOptions, UNCHANGED <<traverser, svResult>>
      PROVE  ListingIInv'
  <2>1. OptionTypes' /\ lists' = lists
    BY <1>1, <1>3, OptionFrame DEF svOptions
  <2>2. LineInv' /\ CrawlTypes' /\ \E now : CrawlInv(now)'
    BY <1>3 DEF Keeps
  <2>3. CrawlKeeps'
    BY <2>2 DEF LineInv, CrawlInv, CrawlKeeps
  <2>4. svResult' = "none"
    BY <1>3 DEF ListingIInv
  <2> QED BY <1>3, <2>1, <2>2, <2>3, <2>4 DEF ListingIInv, LineInv
<1>4. ASSUME NEW w \in SvWorkers, ListerStep(w) PROVE ListingIInv'
  <2>1. CASE TakeFolder(w)
    BY <1>1, <1>2, <1>3, <2>1, TakeFolderKeeps DEF TakeFolder
  <2>2. CASE PageFails(w)
    BY <1>1, <1>2, <1>3, <2>2, PageFailsKeeps DEF PageFails
  <2>3. CASE FinishFolder(w)
    BY <1>1, <1>2, <1>3, <2>3, FinishFolderKeeps DEF FinishFolder
  <2>4. ASSUME NEW e \in lister[w].left, ListPrefix(w, e) PROVE ListingIInv'
    BY <1>1, <1>2, <1>3, <2>4, ListPrefixKeeps DEF ListPrefix
  <2>5. ASSUME NEW e \in lister[w].left, ListItem(w, e) PROVE ListingIInv'
    BY <1>1, <1>2, <1>3, <2>5, ListItemKeeps DEF ListItem
  <2> QED BY <1>4, <2>1, <2>2, <2>3, <2>4, <2>5 DEF ListerStep
<1>5. ASSUME NEW c \in SvConverters, ConverterStep(c) PROVE ListingIInv'
  <2>1. CASE Receive(c)
    BY <1>1, <1>2, <1>3, <2>1, ReceiveStep DEF Receive
  <2>2. CASE Convert(c)
    BY <1>1, <1>2, <1>3, <2>2, ConvertStep DEF Convert
  <2> QED BY <1>5, <2>1, <2>2 DEF ConverterStep
<1>6. CASE TakeEntry
  <2>1. /\ CrawlTypes' /\ LineTypes'
        /\ \/ UNCHANGED <<traverser, svResult>> /\ Keeps
           \/ traverser' = "returned" /\ svResult' = "error" /\ gotTwice' = {}
    BY <1>1, <1>2, <1>6, TakeEntryStep
  <2>2. UNCHANGED svOptions
    BY <1>6 DEF TakeEntry
  <2>3. CASE UNCHANGED <<traverser, svResult>> /\ Keeps
    BY <1>3, <2>2, <2>3
  <2>4. CASE traverser' = "returned" /\ svResult' = "error" /\ gotTwice' = {}
    BY <2>1, <2>2, <2>4, OptionFrame, ErrorPromisesLittle DEF ListingIInv, Promised
  <2> QED BY <2>1, <2>3, <2>4
<1>7. CASE EndOfListing
  <2>1. /\ UNCHANGED <<svOptions, svCrawl, svOutcome>> /\ UNCHANGED svOptions
        /\ traverser' = "returned" /\ svResult' = "ok"
    BY <1>7 DEF EndOfListing, Return
  <2>2. /\ lists = "parallel" => got = ExpectedBlobs
        /\ lists = "share" =>
             ExpectedEntries \subseteq got /\ \A e \in got : ~IsSkipped(e) /\ e \notin logged
    BY <1>1, <1>2, <1>7, EndIsExact
  <2>3. /\ UNCHANGED <<lister, toCrawl, crawled, converter, converted>>
        /\ UNCHANGED <<got, gotTwice, unsaid, logged, svFaults>>
    BY <2>1 DEF svCrawl, svOutcome
  <2>4. OptionTypes' /\ CrawlTypes' /\ LineTypes' /\ lists' = lists
    BY <1>1, <2>1, <2>3, OptionFrame DEF CrawlTypes, LineTypes, LineInv, svOptions
  <2>5. ExpectedBlobs' = ExpectedBlobs /\ ExpectedEntries' = ExpectedEntries
    BY <2>1, <2>3, ExpectedFrame
  <2>6. NothingIsListedTwice'
    BY <1>1, <2>3 DEF NothingIsListedTwice, LineInv, PlaceInv
  <2>7. BlobListingIsExact'
    <3>1. IsBlobListing' => lists = "parallel"
      BY <2>4 DEF IsBlobListing, OptionTypes
    <3> QED BY <2>2, <2>3, <2>5, <3>1 DEF BlobListingIsExact
  <2>8. ShareListingIsExact'
    <3>1. \A e : IsSkipped(e)' <=> IsSkipped(e)
      BY <2>1, SkippedFrame
    <3> QED BY <2>2, <2>3, <2>4, <2>5, <3>1 DEF ShareListingIsExact
  <2> QED BY <2>1, <2>4, <2>6, <2>7, <2>8 DEF ListingIInv
<1>8. ~TraverseBlobs /\ ~TraverseShare /\ ~ListFlat
  BY DEF TraverseBlobs, TraverseShare, ListFlat
<1> QED BY <1>4, <1>5, <1>6, <1>7, <1>8 DEF SVNext, TraverserStep

(* ... after every step, ... *)
LEMMA ListingStep == ListingIInv /\ SVNext => ListingIInv'
<1> SUFFICES ASSUME ListingIInv, SVNext PROVE ListingIInv'
  OBVIOUS
<1>1. OptionTypes /\ CrawlTypes /\ LineTypes
  BY DEF ListingIInv
<1>2. CASE traverser = "start"
  <2>1. TraverseBlobs \/ TraverseShare
    BY <1>2 DEF SVNext, TraverserStep, ListerStep, ConverterStep, ListFlat, TakeEntry, EndOfListing,
                TakeFolder, PageFails, FinishFolder, ListPrefix, ListItem, Receive, Convert, Crawls
  <2>2. AtStart
    BY <1>2 DEF ListingIInv, AtStart
  <2> QED BY <1>1, <2>1, <2>2, TraverseBlobsKeeps, TraverseShareKeeps
<1>3. CASE traverser = "listing" /\ lists = "flat"
  <2>1. ListFlat
    BY <1>3 DEF SVNext, TraverserStep, ListerStep, ConverterStep, TraverseBlobs, TraverseShare,
                TakeEntry, EndOfListing,
                TakeFolder, PageFails, FinishFolder, ListPrefix, ListItem, Receive, Convert, Crawls
  <2>2. FlatKeeps
    BY <1>3 DEF ListingIInv
  <2>3. /\ OptionTypes' /\ CrawlTypes' /\ LineTypes'
        /\ \/ traverser' = "listing" /\ UNCHANGED svResult /\ FlatKeeps'
           \/ /\ traverser' = "returned" /\ gotTwice' = {}
              /\ svResult' = "ok" => got' = ExpectedBlobs'
    BY <1>1, <2>1, <2>2, ListFlatKeeps
  <2>4. lists' = lists
    BY <2>1 DEF ListFlat, svOptions
  <2>5. CASE traverser' = "listing" /\ UNCHANGED svResult /\ FlatKeeps'
    BY <1>3, <2>3, <2>4, <2>5 DEF ListingIInv
  <2>6. CASE /\ traverser' = "returned" /\ gotTwice' = {}
             /\ svResult' = "ok" => got' = ExpectedBlobs'
    <3>1. NothingIsListedTwice' /\ BlobListingIsExact' /\ ShareListingIsExact'
      BY <1>3, <2>4, <2>6 DEF NothingIsListedTwice, BlobListingIsExact, ShareListingIsExact
    <3> QED BY <2>3, <2>6, <3>1 DEF ListingIInv
  <2> QED BY <2>3, <2>5, <2>6
<1>4. CASE traverser = "listing" /\ lists # "flat"
  <2>1. CrawlKeeps
    BY <1>4 DEF ListingIInv
  <2> QED BY <1>1, <1>4, <2>1, ListingCrawlStep
<1>5. CASE traverser = "returned"
  <2>1. FALSE
    BY <1>5 DEF SVNext, TraverserStep, ListerStep, ConverterStep, TraverseBlobs, TraverseShare,
                ListFlat, TakeEntry, EndOfListing,
                TakeFolder, PageFails, FinishFolder, ListPrefix, ListItem, Receive, Convert, Crawls
  <2> QED BY <2>1
<1> QED BY <1>1, <1>2, <1>3, <1>4, <1>5 DEF CrawlTypes

(* ... and after none. *)
LEMMA ListingStutters == ListingIInv /\ UNCHANGED svVars => ListingIInv'
<1> SUFFICES ASSUME ListingIInv, UNCHANGED svVars PROVE ListingIInv'
  OBVIOUS
<1>1. /\ UNCHANGED svOptions /\ UNCHANGED <<traverser, svResult>>
      /\ UNCHANGED <<lister, toCrawl, crawled, converter, converted>>
      /\ UNCHANGED <<got, gotTwice, unsaid, logged, svFaults>>
  BY DEF svVars, svCrawl, svOutcome
<1>2. OptionTypes' /\ CrawlTypes' /\ LineTypes' /\ lists' = lists
  BY <1>1, OptionFrame DEF ListingIInv, CrawlTypes, LineTypes, svOptions
<1>3. CASE traverser = "start"
  BY <1>1, <1>2, <1>3 DEF ListingIInv
<1>4. CASE traverser = "listing" /\ lists = "flat"
  <2>1. FlatBlobs' = FlatBlobs /\ FlatKeeps
    BY <1>1, <1>4, FlatFrame DEF ListingIInv
  <2>2. FlatKeeps'
    BY <1>1, <2>1 DEF FlatKeeps, FlatBlobs
  <2> QED BY <1>1, <1>2, <1>4, <2>2 DEF ListingIInv
<1>5. CASE traverser = "listing" /\ lists # "flat"
  <2>1. LineInv /\ CrawlKeeps
    BY <1>5 DEF ListingIInv, LineInv, CrawlKeeps
  <2>2. PICK past : CrawlInv(past)
    BY <2>1 DEF CrawlInv, CrawlKeeps
  <2>3. LineInv' /\ SentOn' = SentOn
    <3>1. AreEntries(unsaid) /\ \A f \in unsaid : f.kind # "error"
      BY <2>1, SentAre DEF LineInv
    <3> QED BY <1>1, <2>1, <3>1, LineFrame DEF AreEntries
  <2>4. CrawlInv(past)'
    <3>1. PagesInv(past, Due, Left, SentOn', unsaid)
      BY <2>2, <2>3 DEF CrawlInv
    <3> QED BY <1>1, <2>2, <3>1, CrawlStandsStill
  <2>5. CrawlKeeps'
    BY <2>3, <2>4 DEF LineInv, CrawlInv, CrawlKeeps
  <2> QED BY <1>1, <1>2, <1>5, <2>5 DEF ListingIInv
<1>6. CASE traverser = "returned"
  <2>1. NothingIsListedTwice /\ BlobListingIsExact /\ ShareListingIsExact
    BY <1>6 DEF ListingIInv
  <2>2. ExpectedBlobs' = ExpectedBlobs /\ ExpectedEntries' = ExpectedEntries
    BY <1>1, ExpectedFrame
  <2>3. \A e : IsSkipped(e)' <=> IsSkipped(e)
    BY <1>1, SkippedFrame
  <2>4. NothingIsListedTwice' /\ BlobListingIsExact' /\ ShareListingIsExact'
    BY <1>1, <1>2, <2>1, <2>2, <2>3
       DEF NothingIsListedTwice, BlobListingIsExact, ShareListingIsExact, IsBlobListing
  <2> QED BY <1>1, <1>2, <1>6, <2>4 DEF ListingIInv
<1> QED BY <1>2, <1>3, <1>4, <1>5, <1>6 DEF ListingIInv, CrawlTypes

(* The invariant of a listing: while it crawls, every folder that it has   *)
(* come across is due, being listed or past; no entry is in two places on  *)
(* its way to the processor; and what a listed page has is left on it,     *)
(* sent, or needs no sending.                                              *)
THEOREM ListingInvariant == SVSpec => []ListingIInv
<1>1. ListingIInv /\ [SVNext]_svVars => ListingIInv'
  BY ListingStep, ListingStutters
<1> QED BY <1>1, ListingBegins, PTL DEF SVSpec

(* What the invariant says when Traverse has returned. *)
LEMMA ListingIsExact == ListingIInv => ServiceScanInv
<1> SUFFICES ASSUME ListingIInv PROVE ServiceScanInv
  OBVIOUS
<1>1. SVTypeOK
  BY DEF ListingIInv, CrawlTypes, LineTypes, SVTypeOK
<1>2. CASE traverser = "start"
  BY <1>1, <1>2 DEF ListingIInv, ServiceScanInv, NothingIsListedTwice, BlobListingIsExact,
     ShareListingIsExact
<1>3. CASE traverser = "listing"
  <2>1. gotTwice = {}
    BY <1>3 DEF ListingIInv, FlatKeeps, CrawlKeeps, PlaceInv
  <2>2. svResult # "ok"
    BY <1>3 DEF ListingIInv
  <2> QED BY <1>1, <2>1, <2>2 DEF ServiceScanInv, NothingIsListedTwice, BlobListingIsExact,
             ShareListingIsExact
<1>4. CASE traverser = "returned"
  BY <1>1, <1>4 DEF ListingIInv, ServiceScanInv
<1> QED BY <1>2, <1>3, <1>4 DEF ListingIInv, CrawlTypes

(* Nothing is handed on twice; a listing that ends without an error has    *)
(* handed on exactly what there is.                                        *)
THEOREM ServiceScanInvHolds == SVSpec => []ServiceScanInv
BY ListingInvariant, ListingIsExact, PTL

-----------------------------------------------------------------------------
(* What is found on a disk or listed by a service is handed on exactly,    *)
(* for any tree, links, names and numbers of goroutines, as long as        *)
(* something hashes (the traversers' Traverse).                            *)
THEOREM EveryScanIsExactHolds ==
    ASSUME HashThreads # 0
    PROVE  ScansSpec => []EveryScanIsExact
<1>1. ScanInv /\ ServiceScanInv => EveryScanIsExact
  BY DEF EveryScanIsExact
<1>2. LSSpec => []ScanInv
  BY ScanInvHolds
<1> QED BY <1>1, <1>2, ServiceScanInvHolds, PTL DEF ScansSpec
=============================================================================
