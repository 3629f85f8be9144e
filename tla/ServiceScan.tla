----------------------------- MODULE ServiceScan -----------------------------
(***************************************************************************)
(* The listing of a container (BlobTraverser.Traverse) and of a share      *)
(* (fileTraverser.Traverse): the workers of parallel.Crawl list one        *)
(* folder each and send what they find to a bounded channel; for a share   *)
(* the workers of parallel.Transform take it from there, get the           *)
(* properties of each entry and send it on; the traverser's goroutine      *)
(* applies the filters and calls the processor.  A container can also be   *)
(* listed flat, by that goroutine alone.                                   *)
(*                                                                         *)
(* A container has no folders: a folder is the beginning of a name, and    *)
(* there may be a blob of that very name, with and without a slash at its  *)
(* end, which is a stub when its metadata say so.  LocalScan has the       *)
(* finer steps of the crawl; what goroutines still do after Traverse has   *)
(* returned is left out, and so are tags, a URL that is a single file of a *)
(* share, and the root of a container with a hierarchical namespace.       *)
(***************************************************************************)
EXTENDS Integers, Sequences, FiniteSets

CONSTANTS SvFolders, SvRoot, SvLeaves,
          SvIn,            \* the folder that each folder and each leaf is in
          SvForm,          \* of each leaf, as a blob
          SvFileType,      \* of each leaf, as a file of a share
          SvNamed,         \* the folder whose name may also be a blob's
          SvHollow,        \* folders without any leaf below them, and without the named one
          SvWorkers, SvConverters,
          SvRoom,          \* the capacity of the channels
          SvListings,      \* a subset of {"parallel", "flat", "share"}
          SvFaultKinds, MaxSvFaults

SvPaths == SvFolders \cup SvLeaves
BlobForms == {"base", "snapshot", "version", "deletedBase", "deletedSnapshot", "deletedVersion"}
AtName == {"nothing", "blob", "stub"}

ASSUME ServiceScanAssumption ==
    /\ SvRoot \in SvFolders /\ SvNamed \in SvFolders /\ SvFolders \cap SvLeaves = {}
    /\ SvIn \in [SvPaths -> SvFolders]
    /\ SvHollow \subseteq SvFolders
    /\ \A p \in (SvPaths \ SvHollow) \cup {SvNamed} : p # SvRoot => SvIn[p] \notin SvHollow
    /\ SvWorkers # {}
    /\ SvForm \in [SvLeaves -> BlobForms]
    /\ SvFileType \in [SvLeaves -> {"regular", "hardlink", "symlink", "special"}]
    /\ SvRoom \in Nat \ {0} /\ MaxSvFaults \in Nat
    /\ SvListings \subseteq {"parallel", "flat", "share"}
    /\ SvFaultKinds \subseteq {"page", "properties", "process"}

VARIABLES
    lists, svRecursive,
    dirStubs,           \* BlobTraverserIncludeOption.DirStubs
    permanentDelete,    \* "none", "snapshots", "versions" or "both"
    skipLinks,          \* of a share: --hardlinks skip, and no --preserve-symlinks
    rootSlash,          \* the URL ends in a slash; of a share, it names no folder in it
    atName, atSlash,    \* the blobs with the names of folders, without and with a slash
    traverser,          \* "start", "listing" or "returned"
    svResult,
    lister,             \* [at, dir, left, found] of each crawl worker
    toCrawl, crawled,
    converter,          \* what each worker of Transform has, or its end
    converted,
    got, gotTwice,      \* the entries that the processor got
    unsaid,             \* folders whose properties could not be had
    logged,             \* what could not be scanned and was logged
    svFaults

svOptions == <<lists, svRecursive, dirStubs, permanentDelete, skipLinks, rootSlash,
               atName, atSlash>>
svCrawl == <<lister, toCrawl, crawled, converter, converted>>
svOutcome == <<got, gotTwice, unsaid, logged, svFaults>>
svVars == <<svOptions, traverser, svResult, svCrawl, svOutcome>>

Nobody == [at |-> "idle", dir |-> SvRoot, left |-> {}, found |-> {}]
Gone == [Nobody EXCEPT !.at = "gone"]
NoEntry == [kind |-> "none", path |-> SvRoot, ok |-> TRUE]
Finished == [NoEntry EXCEPT !.kind = "finished"]
EntryOf(k, p) == [kind |-> k, path |-> p, ok |-> TRUE]
ErrorAt(p) == [kind |-> "error", path |-> p, ok |-> FALSE]

IsBlobListing == lists # "share"

-----------------------------------------------------------------------------
(* What a service lists. *)
OnlyAt(d, what) == [e \in SvFolders |-> IF e = d THEN what ELSE "nothing"]

Directly(d) == {p \in SvPaths \ {SvRoot} : SvIn[p] = d}

(* Everything below a folder: what is in it, and in the folders among that. *)
HoldsAllBelow(s, d) == Directly(d) \subseteq s /\ \A e \in s \cap SvFolders : Directly(e) \subseteq s

Below ==
    [d \in SvFolders |->
       {p \in SvPaths : \A s \in SUBSET SvPaths : HoldsAllBelow(s, d) => p \in s}]

(* FromInputs. *)
IncludesDeleted == permanentDelete # "none"
IncludesSnapshots == permanentDelete \in {"snapshots", "both"}
IncludesVersions == permanentDelete \in {"versions", "both"}

IsListed(form) ==
    /\ form \in {"deletedBase", "deletedSnapshot", "deletedVersion"} => IncludesDeleted
    /\ form \in {"snapshot", "deletedSnapshot"} => IncludesSnapshots
    /\ form \in {"version", "deletedVersion"} => IncludesVersions

LeavesIn(d) ==
    {x \in SvLeaves : SvIn[x] = d /\ (IsBlobListing => IsListed(SvForm[x]))}

(* Listing with a delimiter shows a folder when a name begins with it.     *)
IsPrefix(d) == d # SvRoot /\ (d \notin SvHollow \/ atSlash[d] # "nothing")

ItemsOf(d) ==
    {EntryOf("leaf", x) : x \in LeavesIn(d)}
    \cup {EntryOf("name", e) : e \in {f \in SvFolders \ {SvRoot} :
                                        SvIn[f] = d /\ atName[f] # "nothing"}}
    \cup {EntryOf("slash", e) : e \in {f \in {d} : atSlash[f] # "nothing"}}

BlobPage(d) ==
    ItemsOf(d) \cup {EntryOf("prefix", e) : e \in {f \in SvFolders \ {SvRoot} :
                                                     SvIn[f] = d /\ IsPrefix(f)}}

SharePage(d) ==
    {EntryOf("leaf", x) : x \in LeavesIn(d)}
    \cup {EntryOf("folder", e) : e \in {f \in SvFolders \ {SvRoot} : SvIn[f] = d}}

PageOf(d) == IF IsBlobListing THEN BlobPage(d) ELSE SharePage(d)

(* A blob that represents a folder is not processed as a blob. *)
RepresentsAFolder(e) ==
    \/ e.kind = "name" /\ atName[e.path] = "stub"
    \/ e.kind = "slash" /\ atSlash[e.path] = "stub"

(* The two names that are tried for the stub of a folder. *)
HasStub(d) == atName[d] = "stub" \/ atSlash[d] = "stub"

-----------------------------------------------------------------------------
SVInit ==
    /\ lists \in SvListings /\ svRecursive \in BOOLEAN
    /\ dirStubs \in IF lists = "parallel" THEN BOOLEAN ELSE {FALSE}
    /\ permanentDelete \in IF lists = "flat" THEN {"none", "snapshots", "versions", "both"}
                           ELSE {"none"}
    /\ skipLinks \in IF lists = "share" THEN BOOLEAN ELSE {FALSE}
    /\ rootSlash \in IF lists = "flat" THEN {TRUE} ELSE BOOLEAN
    /\ \E d \in {SvRoot, SvNamed} : \E n, s \in IF lists = "share" THEN {"nothing"} ELSE AtName :
         atName = OnlyAt(d, n) /\ atSlash = OnlyAt(d, s)
    /\ traverser = "start" /\ svResult = "none"
    /\ lister = [w \in SvWorkers |-> Gone] /\ toCrawl = {} /\ crawled = <<>>
    /\ converter = [c \in SvConverters |-> Finished] /\ converted = <<>>
    /\ got = {} /\ gotTwice = {} /\ unsaid = {} /\ logged = {} /\ svFaults = 0

SvMayFail(kind) == kind \in SvFaultKinds /\ svFaults < MaxSvFaults
SvFail == svFaults' = svFaults + 1

Return(outcome) == traverser' = "returned" /\ svResult' = outcome

(* PermDeleteFilter, and the identifiers it looks at: with snapshots among *)
(* what is listed, those of versions are not kept (createStoredObject-     *)
(* ForBlob).                                                               *)
HasSnapshotId(x) == IncludesSnapshots /\ SvForm[x] \in {"snapshot", "deletedSnapshot"}
HasVersionId(x) ==
    ~IncludesSnapshots /\ IncludesVersions /\ SvForm[x] \in {"version", "deletedVersion"}
IsDeleted(x) == SvForm[x] \in {"deletedBase", "deletedSnapshot", "deletedVersion"}

MutPassesFilters(e) ==  \* a version counts whether it is deleted or not
    permanentDelete # "none" =>
        /\ e.kind = "leaf"
        /\ \/ IncludesSnapshots /\ HasSnapshotId(e.path)
           \/ IncludesVersions /\ HasVersionId(e.path)

PassesFilters(e) ==
    permanentDelete # "none" =>
        /\ e.kind = "leaf" /\ IsDeleted(e.path)
        /\ \/ IncludesSnapshots /\ HasSnapshotId(e.path)
           \/ IncludesVersions /\ HasVersionId(e.path)

(* ProcessIfPassedFilters *)
Take(e) ==
    IF PassesFilters(e)
    THEN /\ gotTwice' = gotTwice \cup (got \cap {e})
         /\ got' = got \cup {e}
    ELSE UNCHANGED <<got, gotTwice>>

-----------------------------------------------------------------------------
(* The root of a blob listing: what its URL points to (getPropertiesIf-    *)
(* SingleBlob tries the name with its slash first, when it has one).       *)
AtRoot ==
    IF rootSlash /\ atSlash[SvRoot] # "nothing" THEN atSlash[SvRoot] ELSE atName[SvRoot]

RootEntry ==
    IF rootSlash /\ atSlash[SvRoot] # "nothing" THEN EntryOf("slash", SvRoot)
    ELSE EntryOf("name", SvRoot)

IsScheduledAsBlob == AtRoot = "blob" /\ ~rootSlash
IsScheduledAsStub == AtRoot = "stub" /\ dirStubs /\ svRecursive

StartCrawl ==
    /\ traverser' = "listing" /\ toCrawl' = {SvRoot}
    /\ lister' = [w \in SvWorkers |-> Nobody]
    /\ converter' = [c \in SvConverters |-> IF lists = "share" THEN NoEntry ELSE Finished]
    /\ UNCHANGED svResult

TraverseBlobs ==
    /\ traverser = "start" /\ IsBlobListing
    /\ \/ /\ IsScheduledAsBlob \/ IsScheduledAsStub
          /\ \/ /\ Take(IF IsScheduledAsBlob THEN RootEntry ELSE EntryOf("folder", SvRoot))
                /\ UNCHANGED svFaults
                /\ IF IsScheduledAsBlob /\ ~IncludesDeleted
                   THEN Return("ok") /\ UNCHANGED <<toCrawl, lister, converter>>
                   ELSE StartCrawl
             \/ /\ SvMayFail("process") /\ SvFail
                /\ Return("error") /\ UNCHANGED <<toCrawl, lister, converter, got, gotTwice>>
       \/ /\ ~(IsScheduledAsBlob \/ IsScheduledAsStub)
          /\ StartCrawl /\ UNCHANGED <<got, gotTwice, svFaults>>
    /\ UNCHANGED <<svOptions, crawled, converted, unsaid, logged>>

(* The root of a share's listing: its properties are needed. A folder whose *)
(* properties are refused at first is left out.                            *)
TraverseShare ==
    /\ traverser = "start" /\ lists = "share"
    /\ \/ Take(EntryOf("folder", SvRoot)) /\ StartCrawl /\ UNCHANGED <<unsaid, svFaults>>
       \/ /\ SvMayFail("properties") \/ SvMayFail("process")
          /\ SvFail /\ Return("error")
          /\ UNCHANGED <<toCrawl, lister, converter, got, gotTwice, unsaid>>
       \/ /\ ~rootSlash /\ SvMayFail("properties") /\ SvFail
          /\ unsaid' = unsaid \cup {EntryOf("folder", SvRoot)} /\ StartCrawl
          /\ UNCHANGED <<got, gotTwice>>
    /\ UNCHANGED <<svOptions, crawled, converted, logged>>

-----------------------------------------------------------------------------
(* serialList: all names that begin with the prefix, in pages.             *)
FlatItems ==
    LET folders == {SvRoot} \cup (Below[SvRoot] \cap SvFolders)
    IN UNION {ItemsOf(d) : d \in IF svRecursive THEN folders ELSE {SvRoot}}

ListFlat ==
    /\ traverser = "listing" /\ lists = "flat"
    /\ LET left == {e \in FlatItems : ~RepresentsAFolder(e) /\ PassesFilters(e)} \ got
       IN \/ \E e \in left : Take(e) /\ UNCHANGED <<traverser, svResult, svFaults>>
          \/ left = {} /\ Return("ok") /\ UNCHANGED <<got, gotTwice, svFaults>>
          \/ /\ SvMayFail("page") \/ (left # {} /\ SvMayFail("process"))
             /\ SvFail /\ Return("error") /\ UNCHANGED <<got, gotTwice>>
    /\ UNCHANGED <<svOptions, svCrawl, unsaid, logged>>

-----------------------------------------------------------------------------
(* The crawl's workers. *)
Crawls == traverser = "listing" /\ lists # "flat"

TakeFolder(w) ==
    /\ Crawls /\ lister[w].at = "idle"
    /\ \/ \E d \in toCrawl :
            /\ lister' = [lister EXCEPT ![w] = [at |-> "listing", dir |-> d, left |-> PageOf(d),
                                                found |-> {}]]
            /\ toCrawl' = toCrawl \ {d}
       \/ /\ toCrawl = {} /\ \A v \in SvWorkers : lister[v].at # "listing"
          /\ lister' = [lister EXCEPT ![w] = Gone] /\ UNCHANGED toCrawl
    /\ UNCHANGED <<svOptions, traverser, svResult, crawled, converter, converted, svOutcome>>

Send(e) == Len(crawled) < SvRoom /\ crawled' = Append(crawled, e)

(* enumerateOneDir, entry by entry. A folder whose properties cannot be    *)
(* had under either name is taken for one without a stub.                  *)
ListPrefix(w, e) ==
    /\ Crawls /\ e \in lister[w].left /\ e.kind = "prefix"
    /\ lister' = [lister EXCEPT ![w].left = @ \ {e},
                                ![w].found = IF svRecursive THEN @ \cup {e.path} ELSE @]
    /\ \/ /\ svRecursive /\ dirStubs /\ HasStub(e.path)
          /\ Send(EntryOf("folder", e.path)) /\ UNCHANGED <<unsaid, svFaults>>
       \/ /\ ~(svRecursive /\ dirStubs /\ HasStub(e.path))
          /\ UNCHANGED <<crawled, unsaid, svFaults>>
       \/ /\ svRecursive /\ dirStubs /\ HasStub(e.path) /\ SvMayFail("properties") /\ SvFail
          /\ unsaid' = unsaid \cup {EntryOf("folder", e.path)} /\ UNCHANGED crawled
    /\ UNCHANGED <<svOptions, traverser, svResult, toCrawl, converter, converted>>
    /\ UNCHANGED <<got, gotTwice, logged>>

ListItem(w, e) ==
    /\ Crawls /\ e \in lister[w].left /\ e.kind # "prefix"
    /\ lister' = [lister EXCEPT ![w].left = @ \ {e},
                    ![w].found = IF e.kind = "folder" /\ svRecursive THEN @ \cup {e.path} ELSE @]
    /\ IF RepresentsAFolder(e) THEN UNCHANGED crawled ELSE Send(e)
    /\ UNCHANGED <<svOptions, traverser, svResult, toCrawl, converter, converted, svOutcome>>

(* A page cannot be had: the error is sent instead of the rest. *)
PageFails(w) ==
    /\ Crawls /\ lister[w].at = "listing" /\ SvMayFail("page") /\ SvFail
    /\ Send(ErrorAt(lister[w].dir))
    /\ lister' = [lister EXCEPT ![w].left = {}]
    /\ UNCHANGED <<svOptions, traverser, svResult, toCrawl, converter, converted>>
    /\ UNCHANGED <<got, gotTwice, unsaid, logged>>

FinishFolder(w) ==
    /\ Crawls /\ lister[w].at = "listing" /\ lister[w].left = {}
    /\ toCrawl' = toCrawl \cup lister[w].found
    /\ lister' = [lister EXCEPT ![w] = Nobody]
    /\ UNCHANGED <<svOptions, traverser, svResult, crawled, converter, converted, svOutcome>>

CrawlEnded == \A w \in SvWorkers : lister[w].at = "gone"

-----------------------------------------------------------------------------
(* processOneObject of Transform. *)
Receive(c) ==
    /\ Crawls /\ converter[c] = NoEntry
    /\ \/ /\ crawled # <<>>
          /\ converter' = [converter EXCEPT ![c] = Head(crawled)] /\ crawled' = Tail(crawled)
       \/ /\ crawled = <<>> /\ CrawlEnded
          /\ converter' = [converter EXCEPT ![c] = Finished] /\ UNCHANGED crawled
    /\ UNCHANGED <<svOptions, traverser, svResult, lister, toCrawl, converted, svOutcome>>

(* evaluateAndLogNFSFileType *)
IsSkipped(e) ==
    e.kind = "leaf" /\ \/ SvFileType[e.path] = "special"
                       \/ skipLinks /\ SvFileType[e.path] \in {"symlink", "hardlink"}

(* An error is passed on; what is skipped is not.                          *)
Convert(c) ==
    /\ Crawls /\ converter[c].kind \notin {"none", "finished"}
    /\ \/ /\ \/ ~converter[c].ok
             \/ ~IsSkipped(converter[c])
          /\ Len(converted) < SvRoom /\ converted' = Append(converted, converter[c])
          /\ UNCHANGED svFaults
       \/ /\ converter[c].ok /\ IsSkipped(converter[c])
          /\ UNCHANGED <<converted, svFaults>>
       \/ /\ converter[c].ok /\ SvMayFail("properties") /\ SvFail
          /\ Len(converted) < SvRoom
          /\ converted' = Append(converted, [converter[c] EXCEPT !.ok = FALSE])
    /\ converter' = [converter EXCEPT ![c] = NoEntry]
    /\ UNCHANGED <<svOptions, traverser, svResult, lister, toCrawl, crawled>>
    /\ UNCHANGED <<got, gotTwice, unsaid, logged>>

ConversionEnded == \A c \in SvConverters : converter[c] = Finished

-----------------------------------------------------------------------------
(* The traverser takes from the end of the line. A listing of blobs ends   *)
(* with the first error; that of a share logs those of its workers.        *)
TakeEntry ==
    LET line == IF lists = "share" THEN converted ELSE crawled
        e == Head(line)
    IN /\ Crawls /\ line # <<>>
       /\ IF lists = "share" THEN converted' = Tail(line) /\ UNCHANGED crawled
          ELSE crawled' = Tail(line) /\ UNCHANGED converted
       /\ \/ /\ e.ok /\ Take(e)
             /\ UNCHANGED <<traverser, svResult, logged, svFaults>>
          \/ /\ e.ok /\ SvMayFail("process") /\ SvFail
             /\ Return("error") /\ UNCHANGED <<got, gotTwice, logged>>
          \/ /\ ~e.ok /\ IsBlobListing
             /\ Return("error") /\ UNCHANGED <<got, gotTwice, logged, svFaults>>
          \/ /\ ~e.ok /\ ~IsBlobListing
             /\ logged' = logged \cup {[e EXCEPT !.ok = TRUE]}
             /\ UNCHANGED <<traverser, svResult, got, gotTwice, svFaults>>
       /\ UNCHANGED <<svOptions, lister, toCrawl, converter, unsaid>>

MutEndOfListing ==  \* the crawl's end is taken for that of the conversion
    /\ Crawls /\ CrawlEnded /\ crawled = <<>> /\ converted = <<>>
    /\ Return("ok")
    /\ UNCHANGED <<svOptions, svCrawl, svOutcome>>

EndOfListing ==
    /\ Crawls /\ CrawlEnded /\ ConversionEnded /\ crawled = <<>> /\ converted = <<>>
    /\ Return("ok")
    /\ UNCHANGED <<svOptions, svCrawl, svOutcome>>

ListerStep(w) ==
    \/ TakeFolder(w) \/ PageFails(w) \/ FinishFolder(w)
    \/ \E e \in lister[w].left : ListPrefix(w, e) \/ ListItem(w, e)

ConverterStep(c) == Receive(c) \/ Convert(c)

TraverserStep == TraverseBlobs \/ TraverseShare \/ ListFlat \/ TakeEntry \/ EndOfListing

SVNext ==
    \/ TraverserStep
    \/ \E w \in SvWorkers : ListerStep(w)
    \/ \E c \in SvConverters : ConverterStep(c)

(* Every goroutine is scheduled, and every request is answered. *)
SVFairness ==
    /\ WF_svVars(TraverserStep)
    /\ \A w \in SvWorkers : WF_svVars(ListerStep(w))
    /\ \A c \in SvConverters : WF_svVars(ConverterStep(c))

SVSpec == SVInit /\ [][SVNext]_svVars /\ SVFairness

-----------------------------------------------------------------------------
SVTypeOK ==
    /\ traverser \in {"start", "listing", "returned"} /\ svResult \in {"none", "ok", "error"}
    /\ toCrawl \subseteq SvFolders
    /\ Len(crawled) <= SvRoom /\ Len(converted) <= SvRoom
    /\ svFaults \in 0 .. MaxSvFaults

(* The blobs below the URL, by their names alone. *)
NamesBelow ==
    LET folders == {SvRoot} \cup (Below[SvRoot] \cap SvFolders)
    IN {e \in UNION {ItemsOf(d) : d \in folders} :
          /\ ~RepresentsAFolder(e)
          /\ svRecursive \/ (e.kind \in {"leaf", "name"} /\ SvIn[e.path] = SvRoot)
                         \/ e = EntryOf("slash", SvRoot)}

(* ... of which those that were soft-deleted when they are to be deleted   *)
(* for good; when both kinds are, versions are left out.                   *)
IsAskedFor(e) ==
    permanentDelete # "none" =>
        /\ e.kind = "leaf"
        /\ SvForm[e.path] \in CASE permanentDelete = "versions" -> {"deletedVersion"}
                                [] OTHER -> {"deletedSnapshot"}

StubsBelow ==
    IF dirStubs /\ svRecursive
    THEN {EntryOf("folder", d) : d \in {f \in {SvRoot} \cup (Below[SvRoot] \cap SvFolders) :
                                    IF f = SvRoot THEN AtRoot = "stub"
                                    ELSE IsPrefix(f) /\ HasStub(f)}}
    ELSE {}

ExpectedBlobs ==
    IF IsScheduledAsBlob THEN {RootEntry}
    ELSE {e \in NamesBelow : IsAskedFor(e)} \cup (StubsBelow \ unsaid)

(* The entries of a share that are below nothing that was logged. *)
Unreadable == {e.path : e \in {f \in logged : f.kind = "error"}}
Hidden == UNION {Below[d] : d \in Unreadable}

ExpectedEntries ==
    LET here == IF svRecursive THEN Below[SvRoot] ELSE Directly(SvRoot)
        all == {EntryOf(IF p \in SvFolders THEN "folder" ELSE "leaf", p) : p \in here \ Hidden}
    IN ({EntryOf("folder", SvRoot)} \ unsaid) \cup ({e \in all : ~IsSkipped(e)} \ logged)

(* Nothing is handed on twice, by whichever of its names it is found       *)
(* (enumerateOneDir, getPropertiesIfSingleBlob).                           *)
NothingIsListedTwice == gotTwice = {}

(* A listing of blobs that ends without an error has handed on what a list *)
(* of all names says there is, and no more: parallel or flat, whatever     *)
(* blobs there are with the names of folders (Traverse).                   *)
BlobListingIsExact ==
    svResult = "ok" /\ IsBlobListing => got = ExpectedBlobs

(* That of a share has handed on, skipped, or logged everything            *)
(* (processOneObject, Traverse).                                           *)
ShareListingIsExact ==
    svResult = "ok" /\ lists = "share" =>
        /\ ExpectedEntries \subseteq got
        /\ \A e \in got : ~IsSkipped(e) /\ e \notin logged

ServiceScanInv ==
    /\ SVTypeOK
    /\ NothingIsListedTwice
    /\ BlobListingIsExact
    /\ ShareListingIsExact

(* Every listing ends. *)
ServiceScanEnds == <>(traverser = "returned")
=============================================================================
