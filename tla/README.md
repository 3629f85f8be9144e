# AzCopy in TLA+

A specification of AzCopy: TLA+ modules translated from the Go source,
configurations that check them with TLC on small instances, and theorems that TLAPS
proves for every instance.

## 1. The system

AzCopy is one process. A *front end* (`cmd/`) enumerates what there is to transfer
(`traverser/`) and orders *job parts*; a *transfer engine* (`ste/`) runs them. A part
is a plan file (memory-mapped) with up to 10000 transfers; what it holds lets a later
process resume the job. What the pieces keep and how they interact:

| Component | State | Operations and partners | What is hard | What makes it correct |
|---|---|---|---|---|
| Job manager, `ste/mgr-JobMgr.go` | the parts, the final-part flag, parts done, the job's context | parts are added and queued by the front end, `reportJobPartDoneHandler` counts what part managers report, `CancelPauseJobOrder` is called by users and by transfers that meet a 403 | parts finish while others are being ordered; the status in the plan of part 0 is read and written by many goroutines | a job completes once, when everything is done; a cancelled one ends |
| Job status manager, `ste/jobStatusManager.go` | the summary | receives created parts and finished transfers over channels, answers summary requests | channels are closed and set to nil while others send | the summary of a completed job is exact, nobody waits for ever |
| Job part manager, `ste/mgr-JobPartMgr.go` | counters of its transfers | schedules its transfers; each transfer reports to it; the last one reports the part | two counters per report | one transfer reports the part, with the right counts |
| Transfer manager, `ste/mgr-JobPartTransferMgr.go` and the `xfer-*.go` | status, chunks done, destination lock | a transfer schedules its chunks; the last chunk runs the epilogue | failure or cancellation at any chunk | each transfer is reported once, its destination is unlocked, success means all chunks succeeded |
| Plan files and resume, `ste/JobPartPlanFileName.go`, `jobsAdmin/`, `cmd/jobsResume.go` | plan files | a process writes them, a later one rebuilds the job from them | death between two stores; parts and transfers are reported again | nothing is lost or done twice; strings are read back as written |
| Resumable download, `ste/chunkProgressFile.go`, `ste/downloader-http.go` | temporary file, progress file | written by chunks, read on resume | death between data, progress and renaming; a source that changes | a delivered file is whole and of one version |
| Cache and file-count limiters, `common/cacheLimiter.go` | one counter | goroutines wait until their count fits | failing attempts are visible to others | the limit, the reserve, no count lost |
| Chunked file writer, `common/chunkedFileWriter.go` | chunks that came out of order | chunks are enqueued by their downloads, one worker writes them in order | errors, cancellation, `Flush` | the file is the chunks in order, memory is given back |
| Chunk reader, `common/singleChunkReader.go` | one buffer | prefetch, read, retry, close | close during use | buffer returned once, limiter balanced |
| Folder trackers, `ste/folderCreationTracker.go`, `common/folderDeletionManager.go` | folders created, folders to delete | used by transfers of folders and of their contents | parents and children in any order, the lock is not held during requests | properties set only where allowed, folders deleted when empty |
| Pool sizer and tuner, `ste/mgr-JobMgr.go`, `ste/concurrencyTuner.go` | goroutines of the pool, a search's state | workers report entry and exit; the two exchange messages in turn | scale-back while starting | the pool reaches its target, the target is a value that worked |
| Pacers, `ste/pacer-*.go` | tokens | requests wait for tokens | atomic additions that overlap | the rate, no token lost |
| Sync, `cmd/sync*.go`, `traverser/syncIndexer.go` | index of one side | compares both sides | deletion of what was not seen | the right set is copied and deleted |
| Local scan, `common/parallel/`, `traverser/zc_traverser_local.go` | queue of directories, paths seen, files to hash | workers, a consumer, hashing threads | termination, cyclic links, a failing thread | every entry is handed on, once |
| Service listings, `common/parallel/Transformer.go`, `traverser/zc_traverser_blob.go`, `zc_traverser_file.go` | folders to list, entries to convert, what was handed on | listers, converters, one consumer | termination over two pools, entries that fail to convert, marker blobs and prefixes of the same name | every entry that passes the filters is handed on, once |
| Dialogue, `cmd/uihooks.go`, `ste/overwritePrompter.go` | message queue, line read | printer, watcher, reporter, transfers that ask | answers and questions overtake one another | answers reach their question, the process ends |
| What is kept with the data, `ste/sender-azureFile*.go`, `ste/downloader-azureFiles*.go`, `ste/securityInfoPersistenceManager.go`, `sddl/` | headers to apply, a cache of permission keys | read from a share or a disk, sent or set in an order, once or twice | keys of other shares, a text that cannot be read back, steps that undo one another, failures between them | who may do what, owner, attributes and times are the source's |
| The copy command, `cmd/copy.go`, `copyValidation.go`, `flagsValidation.go`, `credentialUtil.go`, `copyEnumeratorInit.go` | the options, the credentials, what becomes of the top directory | options are cooked, validated, both ends authenticated, objects enumerated and given their destinations | each stage relies on what the earlier ones have refused; some forty directions, a hundred options, three systems | no panic behind validation, nothing preserved where it cannot be, no login for a foreign host, one destination per object |

Interactions: order (front end to job manager to scheduler), report (chunk to transfer
to part to job), summary (everyone to the status manager, the front end back), cancel
(front end or transfer to job manager, and down by context), resume (plan files to a new
process).

## 2. The modules

| Module | What it is |
|---|---|
| `CacheLimiter` | the limiter of RAM and of open files, at the grain of its atomic additions |
| `JobStatusManager` | the goroutine that owns a job's summary, its channels, and the functions that send to it |
| `JobMgr` | extends `JobStatusManager` with the front end, the scheduler, the part managers, the handler of finished parts, and `CancelPauseJobOrder` |
| `JobOrder` | what a job nobody cancels promises; `JobMgr` implements it |
| `JobMgrInvariant`, `JobMgrProofs` | the inductive invariant of `JobMgr`, and the proofs |
| `TransferManager` | what a transfer keeps while it runs, and the operations uploads and downloads share |
| `SendTransfer` | extends it with uploads and service-to-service copies to block blobs, the chunk reader's RAM, and the service |
| `ChunkedFileWriter` | extends it with the writer that puts downloaded chunks in order |
| `DownloadTransfer`, `DownloadTransferProofs` | extends that with the downloads themselves: temporary file, epilogue, renaming; proofs about what they deliver |
| `ConcurrencyTuner` | `poolSizer` and the automatic tuner it asks |
| `TokenBucket` | the token bucket, `pacerBody`, the tuner of a pacer's rate and the reader that undoes requests |
| `Limits`, `LimiterProofs` | the tuner and the pacer side by side; proofs about them and about `CacheLimiter`: the limiter and the pool keep their limits, the pacer its accounts and bounds |
| `PlanFile` | the layout of a plan file, written by `Create` and read by `TransferSrcDstStrings` |
| `RemoveJob` | the transfers that delete, and `folderDeletionManager`, over several processes |
| `FolderCreation` | the folders of a copy, their tracker, and resuming them |
| `CopyCommand` | a copy command from its options to where each object lands and the code that takes it |
| `SyncCommand` | extends it with a sync command, from its options to how its enumerator lists and addresses both ends |
| `SecurityDescriptor` | the two forms of a security descriptor and the conversions between them |
| `FileProperties` | extends it with what the transfers of a job keep of permissions, attributes and times |
| `SyncJob`, `SyncJobProofs` | both orders of enumeration of a sync, the copies and the deletions it orders, the end of the program; the proof that these are the difference of the two sides |
| `LocalScan` | the parallel crawl of a local folder, the walk along symbolic links, the hashing threads |
| `ServiceScan` | the listing of a container or a share, with the transformer that converts what was listed |
| `Scans`, `ScansProofs` | these two side by side; the proofs that what they hand on is what there is |
| `Console` | questions and answers, Ctrl-C, the end of the process |
| `ResumableDownload` | a download with a progress file, over processes that are killed and machines that lose power |
| `ResumeJob` | a job over several processes: what lasts is in the plan files |
| `Runs` | joins the properties of a command with those of what its transfers keep, and those of what is left to later processes |
| `RunsProofs` | proofs about `Runs` and the modules it extends (`CopyCommand`, `SyncCommand`, `SecurityDescriptor`, `FileProperties`, `ResumableDownload`, `ResumeJob`), `Console` and `PlanFile` |
| `InPlaceSend` | sending a file to a page blob, a managed disk, an append blob, a share or ADLS |
| `DestinationProofs` | proofs about `RemoveJob`, `FolderCreation` and `InPlaceSend`: only failures keep a folder, folders of others keep their properties, a file written in place is whole or gone at the end |
| `SendTransferProofs` | proofs about `SendTransfer` |
| `MC*` | small instances, with one configuration per run; `MCCopyCommand`, `MCSyncCommand` and `MCFileProperties` hold the data of three parts of `MCRuns` |

**Grain.** A goroutine's code between two places where another goroutine can see or change
what it uses is one action. So `CancelPauseJobOrder` is four actions (read the status;
write it; cancel the context; send the zero message), `jobPartMgr.ReportTransferDone` is
four (count; add the outcome; read the counters; send them), and the handler's reaction to
the last part is four. A `pc` variable per goroutine says where it is: `orderPc` and
`fePc` for the two halves of the front end, `xpc` for a transfer, `hpc` for the handler,
`cpc` for a caller of `CancelPauseJobOrder`, `chunk` for a chunk, `wpc` for a writer's
worker. Where a process can die between two stores to a file, the two stores are two
actions. The names of actions are those of the functions they come from.

**CacheLimiter.** `value` is the `int64`; `state[c]` says whether a goroutine is waiting,
holding, or has failed and is about to subtract (`backingOut`). A failing `TryAdd` is
`TryAddOverLimit` followed by `SubtractBack`.

**JobStatusManager, JobMgr.** `xferDone` is a channel with its state (`open`, `closed`,
`nil`): the code closes it, drains it and sets it to nil, and which of the three a sender
meets decides whether its outcome counts, is dropped by the `recover`, or is awaited for
ever. `planStatus` is the status in the plan of part 0, which is the job's;
`partsDone` and `progress` are the locals of `reportJobPartDoneHandler`; `wasLast[x]` says
that transfer `x` found itself the last of its part; `jppi[x]` is the message it composed;
`statusRead` is what the handler read before it writes. A transfer is its outcome here:
`FinishTransfer` stands for everything `SendTransfer` and `DownloadTransfer` do.

**SendTransfer.** One goroutine schedules a transfer's chunks and reads local data ahead;
chunk workers (at most `NumWorkers` at a time) send the chunks; the last to report runs the
epilogue in its own goroutine. `buffer` and `ram` are the readers' memory; `blocks`,
`content` and `commits` are the service, which is external: a blob has a committed content
and uncommitted blocks, a commit names the blocks it wants and discards the others, and a
request may be taken although its caller sees a failure.

**InPlaceSend.** A chunk is one cell of the file; `destFile` is the file at the
destination, cell by cell, and `appended` what ADLS has taken and not shown yet.
`sourcePages` and `destPages` are what the two page range optimizers know, `NoPages` when
the list could not be got. `soleChunk` is the holder of the append blob's semaphore, and
`timeoutFromCtx` what the retry notification policy has noted. A request may be carried
out although its answer is lost, and the SDK may then repeat it; a deletion or a creation
whose answer is lost is remembered in `unknown`.

**ChunkedFileWriter, DownloadTransfer.** `queue` is the channel of downloaded chunks,
`unsaved` the map by offset, `temp` and `final` the files under the temporary and the
final name, as sequences of chunks. The `select` of Go takes any case that is ready: so the
worker takes the closed channel or the cancellation, and `EnqueueChunk` the channel or the
writer's end, whichever order they became ready in.

**ConcurrencyTuner.** The tuner's goroutine is in one of its calls (`tunerPc`); values are
in hundredths, and how a speed compares with the desired one is an input. The pool is four
counters: workers that are starting, live, exiting, and the count the sizer keeps.

**TokenBucket.** The three atomics are variables of their own, and an attempt that finds
too little takes and puts back in two steps. Time is ticks of `pacerBody`.

**PlanFile.** The file is a sequence of cells marked with what they belong to, and lengths
are signed integers up to `MaxLen` that wrap, as the `int16` of the code do.

**RemoveJob.** `children` is the manager's count per folder, `at[x]` the folder at which
the recursion of transfer `x` is. `exists` is the service. A new process starts with an
empty manager.

**FolderCreation.** `there` and `withProperties` are the destination, `fcStatus` the plan
file, `contents` and `unregisteredButCreated` the tracker, `mu` its lock. `before` and
`forgotten` are remembered for the properties only.

**SyncJob.** `pair` says what both sides have under a path; `indexMap` is the index, keyed
as the code keys it (lower-case on some systems); `sentParts` and `transfers` are what
`copyTransferProcessor` has sent and collects. The reporter may end the program as soon as
the job is done.

**CopyCommand.** `asked` is the command line with what is found at its two ends; it never
changes. Flags are a set, and one member stands for a group whose members are treated
alike: `s2sOption` for the four options of copies between services, `tier` for both tiers,
`headers` for the content headers and metadata, `patterns` for the filters that apply to
files only. `stage` is how far the command has come: `raw`, `options`, `validated`,
`authenticating` (or `redirecting`, for pipes), `authenticated`, `enumerating`,
`scheduling`, `started`; `rejected` is an error message and `panicked` a panic. Every stage
may also be rejected for what is not modelled. A scan is the set of objects that a
traverser hands on, by their container and path.

**SyncCommand.** The same `asked`, with the option for trailing dots, what there is at both
ends and the protocol of a share. It goes through `raw`, `options`, `validated`,
`authenticated` (the destination), `authenticating` (the source too), `enumerating` and
`scheduling`; `listsStubs` and `scansDots` are settings of both traversers, `jobDots` of
both clients. `SyncJob` goes on from there.

**SecurityDescriptor, FileProperties.** A descriptor is the record that the cifs client
reads and writes; a text is the sequence of its sections, and a list's `form` of a name
says whether a SID is numeric, a short name, relative to a domain, or unreadable. Each
conversion comes with its kind: `ok`, `error` or `panic`. `fpJob` is a job with the source
of each transfer; `fpPc` is the step a transfer takes next. `fpHeaders` is what a sender
has collected (`smbPropertiesToApply`, `permissionsToApply`, `nfsPropertiesToApply`),
`fpDst` the object at the destination, `fpTexts` what has been added to a share's table of
permissions, whose indices are its keys, and `fpCache` the cache that all transfers use.
Times are `source` or `now`. Calls of the service and of the system fail up to
`MaxFpFaults` times.

**LocalScan.** `unstartedDirs` and `dirInProgressCount` are the crawler's, `output` its
channel, `seenPaths` the list that filters and walks share, `hashTargetChannel` the
backlog of the hashing threads. `panicked` is a send on a closed channel.

**ServiceScan.** `lists` is the work of the crawler that lists folders, `output` what it
hands to the transformer, whose own crawl converts the entries. `unsaid` are the entries
whose errors nobody learns of: the property says what is left out besides them.

**Console.** Times are numbers: of questions that had been printed when a line was read.
`msgQueue`, the token on `waitForUserResponse` (`prompt`), and the cancel channel are the
life-cycle manager's.

**ResumableDownload.** The content of a chunk is the version of the source it came from.
`temp`, `final`, `progress` are on disk, `synced` is the progress file that would survive
a power failure; marking a chunk is two steps (hash, status).

**ResumeJob.** `txStatus` and `jobStatus` are the plan files; `ResurrectJob` begins a
process with nothing else. What `JobMgr` splits (the steps inside a report and inside the
handler) is taken together here.

## 3. What the runs show

All runs use `CHECK_DEADLOCK FALSE`, because the process really ends: the front end exits,
or all transfers have been reported, or a panic stops it. That nothing stops too early is
the business of the liveness properties.

| Run | Instance | What it shows |
|---|---|---|
| `cache_limiter` | 3 goroutines, 2 calls each, limit 8 | What is held stays within the limit although failing attempts show in the counter; strict callers leave the last quarter (`HeldWithinLimit`); no count is lost; every waiter is served |
| `job_mgr` | parts of 2 and 1 transfers, channels of one slot, nobody cancels | `JobOrder` is implemented, liveness included (`PromiseKept`); nobody reports to a closed or nil channel; the front end exits |
| `job_mgr_cancel` | 2 parts of 1 transfer, a user who cancels or pauses, a transfer that may meet a 403 | A status that says the job ran to its end is right, `xferDone` is never closed twice, the summary is exact and agrees with the status, and the inductive invariant holds |
| `job_mgr_cancel_one_part` | 1 part of 2 transfers, a user, a 403 | The front end exits, whatever the order |
| `send_transfer` | 3 transfers to one name: a resumed upload, a copy in two blocks, a small copy that does not overwrite; every fault; a cancellation | Success means that every chunk was written and the content committed; the commit finds all its blocks; a transfer is reported once and last; the bytes in active files come back to 0; the destination changes only under its lock |
| `send_transfer_ram` | uploads of 2 and 3 chunks, RAM for 2, one retry per request | RAM counted is RAM held, and retries and prefetches do not starve each other |
| `download_transfer` | 2 downloads to one name, of 3 chunks and 1; every fault; a cancellation | Only whole files get the final name; success means a whole file is there; no temporary file, lock, place or RAM is left; files change only under their lock |
| `download_transfer_limits` | 3 downloads of 2 chunks, 2 places among the open files, RAM for 3 chunks, a channel of one slot | Every download is reported, and RAM counted is that of the chunks in progress |
| `engine_parts` | the chunk pool and its tuner; a pacer; a plan file; a removal; a copy of folders; a file written in place; a sync | see the first table below |
| `runs` | a copy command; what transfers keep of permissions and times; a local scan; a service listing; a dialogue; a resumable download; a job over two processes | see the second table below |

`engine_parts` and `runs` put components side by side that share no state. `chosen` says which one
a behaviour is about; the others stay in an initial state, so the run's states are the sum
of theirs, not the product. Each component has an invariant of its own that joins its named
parts, and one liveness property of the run joins theirs. (`[]<>` and `<>[]` of "the chosen
one has ended" are what the components' own liveness properties say of it.)

| `engine_parts` | Instance | Invariant and its parts | In the end |
|---|---|---|---|
| `ConcurrencyTuner` | pools that start with 1 or 5, up to 20: from 5 the tuner comes to its limit by a step and measures it again | `PoolInv`: the pool never goes beyond its limit (`PoolWithinLimit`), and the tuner does not settle for a value that it went back from as slower and never found fast enough later (`SettlesForWhatWorked`) | the search ends, and the pool has the size that was found |
| `TokenBucket` | 2 requesters, sizes 1 and 2, fixed and tuned rates | `PacerInv`: never more is given out than was put in (`NeverOverdrawn`), and no token is lost or made (`TokensAreConserved`) | every request is answered, and a new cap takes effect |
| `PlanFile` | 2 transfers, integers from -4 to 3 for `int16` | `PlanInv`: what is read back is what was written (`PlanReadsBack`) and aligned (`RecordsAreAligned`), and `Create` panics only for sums that do not fit (`OnlyLongSumsPanic`) | (no waiting) |
| `RemoveJob` | root/d/e/g and root/d/f, 2 processes, shares and blobs | `RemovalInv`: a folder stays only when something in it could not be removed (`OnlyFailuresKeepAFolder`); success means that it is gone (`SuccessMeansRemoved`) | every removal ends |
| `FolderCreation` | top/d/e/f, local, share and blob, 2 processes | `FolderInv`: with `--overwrite=false`, only folders that this job did not make keep their properties (`OnlyForeignFoldersAreSkipped`, `ForeignFoldersKeepTheirs`); success means created (`SuccessMeansCreated`); no folder is forgotten too soon (`EveryFolderIsTracked`) | every copy ends |
| `InPlaceSend` | 2 chunks, 2 attempts, one chunk per flush, all five destinations | `InPlaceInv`: a success has the source's data, skipped zeros included (`SuccessMeansSame`); nothing incomplete is left (`NothingIncompleteIsLeft`); what could not be replaced is left alone (`UntouchedIsKept`); appends come in turn (`AppendsComeInTurn`); a flush finds its chunks (`FlushFindsItsChunks`) | every transfer ends |
| `SyncJob` | 3 objects, parts of 2, uploads first or downloads first, prompts for deletions | `SyncInv`: what is deleted is not at the source or could not be read there (`OnlyExtrasAreDeleted`), each difference is settled once (`EveryDifferenceIsSettled`), no object is in two parts and all parts but the last are full (`PartsAreProper`), the program does not end before the deletions (`DeletionsComeFirst`) | (no waiting) |

| `runs` | Instance | Invariant and its parts | In the end |
|---|---|---|---|
| `CopyCommand` | every direction with every flag, on three systems; eleven directions with every login; six with every combination of places and of the options about them | `CopyInv`: what passes one stage does not panic in a later one, but for the known cases (`OnlyKnownPanics`); properties and permissions are kept only where both ends know them (`PreservedWhereBothCan`); a login is used for Azure's hosts only (`LoginsAreForTrustedHosts`); no two objects land at one path (`DestinationsAreDistinct`); a container copied onto a container becomes no folder in it, with its root or without (`ContainersLandOnEachOther`) | (no waiting) |
| `SyncCommand` | every direction with every flag, on three systems; every direction with every option for trailing dots and what is found at both ends; five directions with every login | `SyncCommandInv`: those of `CopyInv` that apply, with the panics of sync (`OnlyKnownSyncPanics`); both listings show folders when the job takes folders (`FoldersAreListedAlike`); a dotted name that the scan lets through is addressed with its dots (`DottedNamesAreKeptApart`) | (no waiting) |
| `FileProperties` | uploads, copies and downloads of files and folders, between SMB, between NFS and from one to the other, with and without permissions and properties; six descriptors, eleven texts, four shares; two transfers at once where they meet in the cache; one fault | `FilePropertiesInv`: what reaches a share lets in whom the source lets in, by a text or by a key of that share (`AccessIsSent`); what reaches a disk too, protected at the root of the transfer (`AccessIsRestored`); attributes and times are the source's in the end (`InfoIsKept`), and owner and mode between NFS and NFS (`ModeIsKept`); a file whose sending failed is removed (`NoHalfSentFile`) | (no waiting) |
| `LocalScan` | 3 directories, 4 files, 5 links (to a folder that is walked anyway, to one that is not, back to the root, to a file, to nothing), 2 crawlers, 2 hashing threads, 2 faults | `ScanInv`: nothing is handed on twice, but for links to files (`NothingIsSentTwice`); a scan that returns no error has handed on everything, unless its walk was broken off or a directory's names were lost (`QuietScanIsComplete`) and has forgotten no file that was deferred to the hashing threads (`DeferredFilesAreProcessed`) | the scan returns, unless it waits for hashing threads that have ended |
| `ServiceScan` | 3 folders, 3 leaves, 2 listers, 2 converters, one fault; containers listed in parallel or serially, shares | `ServiceScanInv`: nothing is listed twice (`NothingIsListedTwice`); a listing of blobs that returns no error is what the filters let through (`BlobListingIsExact`); so is a listing of a share, but for what was left out without a word (`ShareListingIsExact`) | the listing returns |
| `Console` | a reporter and 2 transfers that ask, a queue of one message, a line typed, a Ctrl-C | `ConsoleInv`: an answer was typed after its question (`AnswersComeAfterTheirQuestion`), no question after "for all" (`NoQuestionAfterAnswerForAll`), a copy that exits with success was not cancelled (`SuccessIsNotCancelled`) | a process whose work is done exits |
| `ResumableDownload` | 2 chunks, 2 versions of the source, 3 processes | `DownloadInv`: a final file is whole (`FinalFilesAreWhole`), success means the version that this process has found (`SuccessMeansDelivered`), or the plan's, when it has its hash (`PlanHashIsHonoured`), no partial file is left that no later process could take up (`NoOrphans`) | every start ends |
| `ResumeJob` | parts of 1 and 2 transfers, 2 processes, a cancellation | `ResumeInv`: a job that has settled has nothing pending (`SettledJobHasNothingPending`), the resumed summary is exact (`ResumedSummaryIsExact`), no part is missed (`NoPartIsMissedAtTheEnd`) | the process ends |

`LimitsInv` of `Limits` in `engine_parts` joins `PoolInv` and `PacerInv`; `CommandInv` of
`Runs` in `runs` joins `FilePropertiesInv` with `SyncCommandInv` when the command is a sync,
else with `CopyInv`. `EveryScanIsExact` of `Scans` joins `ScanInv` and `ServiceScanInv`.
`NothingIsLost` of `Runs` joins two action properties: a later process keeps the partial data
of a download that has progress, and never takes a success back.

Type invariants are checked with what they are needed for: `CLTypeOK` in
`ValueAccountsForEveryCount`, `TypeOK` of `SendTransfer` in `ActiveBytesAreTakenBack`, of
`DownloadTransfer` in `NothingIsLeftBehind`, of `JobMgr` in `IndInv`, the others in their
component's invariant.

Two runs show where the code and what it says of itself part; each checks one property:

- `job_mgr_hang`: a job that completes while `CancelPauseJobOrder` is between its read and
  its write of the status (`ste/mgr-JobMgr.go:1122`, `:1155`) stays Cancelling, because the
  handler has started to count parts anew and there are none left; the front end polls for
  ever. With one part (`job_mgr_cancel_one_part`) the zero message of `Cancel` is as many
  parts as there are, and the job ends.
- `send_transfer_resend`: `ChunkAlreadyTransferred` has its test the wrong way round, so
  blocks found uncommitted at a restart are sent again.

### Observations

What was seen while modelling. Where a property is named, the module can be made to check
it or its counterexample was found with the constants given; the others come from reading.

*Jobs.*
- `jobPartMgr.ReportTransferDone` counts a transfer before it adds its outcome
  (`ste/mgr-JobPartMgr.go:587`), so the last transfer can send counters in which another's
  failure is missing: with two transfers in a part `JobStatusTellsTheOutcomes` fails, the
  job's status being Completed with a failed transfer, or Failed with a successful one.
- The zero message of `Cancel` (`ste/mgr-JobMgr.go:745`) counts as a finished part, so with
  several parts a cancelled job becomes Cancelled while parts are still running.
- `CancelPauseJobOrder` can replace a completed status it has not seen (`:1155`).
- `GetJobSummary` reads the summary before the status (`jobsAdmin/init.go:296`, `:305`), so
  the final status can come with a summary that is not final.
- `updateJobPartProgress` has no case for `TierAvailabilityCheckFailure`
  (`ste/mgr-JobPartMgr.go:569`), which the status manager counts as a failure.
- A job without transfers that is cancelled while its part is being announced can end with
  the part's message still in `partCreated`: the status manager leaves after the answer at
  `ste/jobStatusManager.go:193`, and the front end never sees the order as complete.
- A resume hangs with more one-transfer parts than the channel of parts has room for:
  `ResumeTransfers` queues them under the lock of `jobPartMgrs` (`ste/mgr-JobMgr.go:587`),
  which the handler takes for every report (`:670`), and the scheduler reports skipped
  transfers itself (`ste/mgr-JobPartMgr.go:308`). `ResumeJob` with four parts and a channel
  of one slot shows it; the instance above has parts that grow, so that it does not arise.
- A transfer skipped in one process and skipped again in the next is counted twice; parts
  are queued in the order of a Go map; a final plan file that is torn is taken as complete.

*Sending.*
- `RamIsGivenBack` fails with faults: chunks of a failed upload that are not run have been
  read ahead, nobody closes their readers (`ste/sender.go:196`), and the RAM stays counted.
- A sender's clean-up cannot tell failure from cancellation, since a failing transfer
  cancels its own context first (`ste/mgr-JobPartTransferMgr.go:847`,
  `ste/sender-blockBlob.go:372`, `:389`).
- The prologues of page and append blobs say that they have not modified the destination
  when the answer to `Create` is lost, although it may have been carried out; the comment
  in `ste/sender.go` asks for true in such a case. An emptied blob is then left
  (`unknown` in `NothingIncompleteIsLeft`). Those of shares and ADLS say so before any
  request, so that a failing creation makes `Cleanup` delete a file the transfer had not
  touched.
- An append that was carried out, and repeated after a lost connection instead of a 500
  `OperationTimedOut`, fails the transfer although the block is there.

*Downloading.*
- `commonDownloaderCompletion` looks twice at whether the transfer is live
  (`ste/xfer-remoteToLocal-file.go:812`, `:837`) and panics if it was cancelled in between;
  this is in `DownloadTransfer` as `Succeed`.
- After a cancellation the writer's worker may see the closed channel first; `Flush` then
  returns no error for a file with chunks missing (the transfer is dead, so the file is
  deleted), and both `Flush` and the worker give back the RAM of unsaved chunks
  (`common/chunkedFileWriter.go:224`, `:260`). This is why `NothingIsLeftBehind` says
  `ram <= 0`.
- The length check's error does not prevent the renaming, because it is another `err`
  (`ste/xfer-remoteToLocal-file.go:649`, `:662`).
- Resumable downloads: with `TornMarks = TRUE` (the two bytes of a mark are not written
  together) `FinalFilesAreWhole` fails (`ste/chunkProgressFile.go:330`,
  `ste/xfer-remoteToLocal-file.go:407`). A resumed run truncates the temporary file before
  it reads the progress file, so every marked chunk fails its verification and is
  downloaded again, where the README and `docs/resumable-downloads.md` promise that it is
  not. `ValidateSourceMetadata` compares the plan with itself. A prologue that fails
  reports the transfer twice, which panics (`ste/mgr-JobPartTransferMgr.go:1005`).

*Permissions, attributes and times.*
- The read-only attribute is lost on the way to a share: `Prologue` clears it in the
  structure that `createOptions.SMBProperties` points to, which is `smbPropertiesToApply`
  itself, so that the epilogue does not set it either (`ste/sender-azureFile.go:199`-`206`,
  "We'll set it in epilogue, if necessary"; `ste/sender-azureFile-helper.go:106`).
  `InfoIsKept` therefore leaves this attribute out for files that are sent.
- `PutSDDL` looks into the cache under a read lock, but looking moves the entry to the front of
  the LRU list: a data race (`ste/securityInfoPersistenceManager.go:38`).
- `getCachedProperties` keeps a failure: the first caller gets the error, later ones empty
  properties without one (`ste/sourceInfoProvider-File.go:266`). The first failure fails the
  transfer, so nobody is misled at present; `MutGetPropertiesFails` shows what would happen.
- The process panics on permissions that cannot be brought to the binary form: entries of a
  system list, a SID relative to a domain (`sddl/sddlHelper_linux.go:825`), and, when
  ownership is to be kept, a text without owner or group. An empty list without flags does
  not survive `ParseSDDL` and fails the download.
- On NFS the setuid bit is lost on the way to a disk, because `os.FileMode` has it elsewhere
  (`ste/downloader-azureFiles_linux.go:312`). `GetNFSDefaultPerms` uses the current user
  before it looks at the error (`ste/sourceInfoProvider-Local_linux.go:317`).
- A folder copied from NFS to SMB is given NFS properties
  (`ste/sender-azureFile.go:327`); such folders are not among the jobs.
- A download whose properties cannot be set is failed but its data stays in place.

*Folders and removals.*
- A folder's stub that is deleted because it may be overwritten is not created anew, and
  the transfer succeeds all the same (`ste/sender-blobFolders.go:144`).
- A cancellation drops queued deletions (`ste/sender.go:195`), whose transfers are then
  never reported, against the comment at `ste/xfer-deleteFile.go:20`.
- A folder's removal is Success when it has been handed to the deletion manager
  (`ste/xfer-deleteFile.go:52`), so it is not asked for again in a resumed job.

*Pool and pacers.*
- `pacerBody` keeps the target in a local that overwrites what `rateTunerBody` has set
  (`ste/pacer-tokenBucketPacer.go:157`, comment at `:68`): a tuned rate may be lost.
- An allocation granted while the target is 0 takes no token, and undoing it adds one. A
  request that is larger than the bucket after the target was lowered waits for ever.
- When the tuner has hit the maximum but was too slow there, its final state says "hit max"
  with the value it has gone back to.

*Front end.*
- What cannot be read at the source is logged and skipped
  (`traverser/zc_traverser_file.go:438`, `traverser/zc_traverser_local.go:247`), and then
  deleted at the destination as extra (`cmd/sync.go:972`). "Already in sync" is also said
  after a No to the prompt.
- Local scan: an error of the processor ends the walk, but `WalkWithSymlinks` returns nil;
  the type of an entry is kept across iterations of the loop
  (`traverser/zc_traverser_local.go:820`); closing the reader closes a channel workers
  still send to, which panics. A link to a file is not remembered
  (`traverser/zc_traverser_local.go:364`), so it is handed on again with each walk of the
  folder it is in, of which there may be several: `NothingIsSentTwice` leaves these links
  out. A hashing thread ends at its first error (`:516`), and with one CPU there are none
  (`:485`): when none is left and the backlog is full, the walk waits for ever
  (`HashingIsGivenUp`, which `ScanEnds` leaves out). With one CPU and a backlog that is not
  full it is worse: the files in it stay there, nobody is waited for, and the scan returns
  no error without them, though the comment at `:645` says "File will be processed later":
  with `HashThreads = 0`, one file and no faults, `DeferredFilesAreProcessed` fails.
- Service listings: `Transform` drops an error whose item is nil
  (`common/parallel/Transformer.go:91`), and a failed page of a share has none, so it is
  only logged, though the comment at `traverser/zc_traverser_file.go:445` says that a removal
  stops. The root folder of a share is left out when the request for its properties
  fails (`:336`). The serial listing of a container has no stubs of virtual directories, the
  parallel one has. When soft-deleted versions are to be deleted for good,
  `createStoredObjectForBlob` keeps no version IDs (`traverser/zc_traverser_blob.go:546`),
  so that the filter lets none of them through.
- Copy command, panics (`OnlyKnownPanics` lists them): `PipeFile` is offered by the help of
  `--from-to` and reaches `panic("Invalid Source")` (`cmd/copy.go:990`) unless it is rejected
  before; `FilePipe` is refused only when the destination's level is determined.
  `AZCOPY_CRED_TYPE` of `S3PublicBucket` is unknown to `checkAuthSafeForTarget`. A source that
  does not parse is used before its error is looked at (`cmd/copyUtil.go:76`), and so is a
  destination with keys for encryption (`cmd/copyValidation.go:88`). A benchmark's traverser
  takes no filters. With `--overwrite=posixproperties`, hard links reach a routine that
  knows files only.
- Copy command, validation: `--blob-tags` is refused for `BlobFSNone` only, because its last
  comparison is `!=` where the two before it are `==` (`cmd/copyValidation.go:59`). The switch
  over directions leaves out service-to-service copies to and from ADLS, between NFS and
  SMB, and HTTP downloads, which therefore accept any of the options it refuses to others.
- Sync command: the option for trailing dots is turned off after both traversers have got it
  (`cmd/syncEnumerator.go:232`), when one end has no such names; a share is then scanned with
  dots and addressed without (`:306`), so that the deletion of an extra "a." asks for "a".
  With `AllowToUnsafeDestination` the clients drop dots too, because they compare with
  `Enable` where the traversers ask `IsEnabled`. `DottedNamesAreKeptApart` leaves both out.
- Sync command: `--preserve-posix-properties` makes a job take folders, and a listing of blobs
  shows none without `--include-directory-stub` (`cmd/syncEnumerator.go:61`);
  `FoldersAreListedAlike` leaves it out. A share's `IsDirectory` fails for a file, so a
  directory onto a file is not refused there. The error of the destination's client is
  shadowed and never looked at (`:323`); its token is made from the source's credential
  (`:312`). A place that is named to be remote and does not parse panics (`cmd/sync.go:156`).
- Dialogue: with quiet output, or without standard input, a Ctrl-C during the enumeration
  suppresses the prompt, and the reporter waits for ever (`cmd/uihooks.go:614`). A line typed
  before a question uses up the token that its answer needs. A cancellation that races with
  the completion gives exit code 1 for a completed job; a resumed job that is cancelled
  exits with 0.

### Bounds, and why they are enough

- Channels have one slot (`XferDoneCap`, `PartCreatedCap`, `PartsChannelSize`, `QueueCap`,
  `PartsQueueSize`, `MsgRoom`, `OutputRoom`, `SvRoom`, `HashBacklog`), where the code's have hundreds or
  thousands: a full channel is where goroutines wait for one another, and it must happen with
  few messages.
- Two parts are the fewest for which "all parts known so far are done" differs from "all
  parts are done"; two transfers in a part the fewest of which both could think they are
  the last. What depends on the numbers is proved for all of them (section 5).
- Three chunks with one worker ahead of another give every order of arrival that matters to
  the writer: in order, one behind, and all behind the first. One chunk is the path on which
  the transfer's only chunk is also its last, and for block blobs the one that needs no
  commit. In `InPlaceSend` two chunks suffice for "one is in progress, one waits" and for a
  flush in two pieces; what is proved of it is for all numbers.
- Two transfers to one name are the fewest that compete for a lock, and a third lets one
  come when another has finished. `RamLimit` and `FileLimit` are below what the transfers
  want together, so that they wait.
- Processes: `MaxProcesses` and `MaxRuns` of 2 or 3. One process leaves something behind,
  the next finds it; a third meets what a resumed one has left.
- `MaxLen = 3` makes the sums of a plan file's lengths wrap with strings of a few
  characters. Folders are nested twice, so that one has a parent and a child.
- `MaxRetries`, `MaxAttempts` bound the SDK's retries of one request; `MaxRequests`,
  `MaxPacerRequests` the calls a client makes; `MaxFaults`, `MaxSvFaults`, `MaxFpFaults`, `MaxLines`, `MaxSignals`,
  `MaxUpdates` what comes from outside. A chunk counts as one byte everywhere.
- A copy command: its stages look at the direction, at single flags and at pairs of them,
  so every flag is asked by itself and the pairs that meet together, in all directions and
  on the three systems that the code distinguishes; the other two dimensions (logins and
  hosts; levels of both ends) are crossed in full for directions of each kind. Two
  containers and two levels of folders are enough for two objects to fall together.
- What is kept with the data: texts of two entries make one that goes into a header and one
  that does not (`MaxShortAces`); four shares are two sources and two destinations, in which
  equal keys stand for different texts; two transfers meet in the cache in every order.
- No symmetry is used: transfers and goroutines play different roles.

### Fairness

Weak fairness of each goroutine: the Go scheduler runs every goroutine that can go on, and
a request is answered, if only by a timeout. It is stated per goroutine, never for `Next`
as a whole, and conjoined with "the process is alive"; in the two runs that put components
side by side, with "it is the chosen one". Nobody has to cancel, pause, fail, type or meet a
403. (In `Console` a user who is there answers a question that is shown; `UserIsThere`
says whether one is.) The limiter needs strong fairness besides: it waits by trying again
after a random sleep (`common/cacheLimiter.go:93`), so with weak fairness two waiters could
make each other fail for ever; its comment says that the sleep is randomised to prevent this.

## 4. Correspondence that is not one to one

- A transfer that is cancelled during its epilogue keeps the status Started in the plan. The
  status manager and `updateJobPartProgress` take that like Cancelled, and `JobMgr` has
  one value for both.
- `failActiveTransfer` cancels the context and then sets the status; in `TransferManager`
  and `InPlaceSend` that is one step. The transfer is dead after either, and its epilogue
  waits for the chunk that is failing.
- `fileCountLimiter` and the RAM limiter inside the transfer modules are the limit only; how
  a failing attempt shows to others is in `CacheLimiter`.
- The pool sizer's timer fires when no worker is about to say that it has started or left:
  between two of its ticks are seconds.
- In `ResumeJob` the steps inside a report and inside the handler are one; `JobMgr` has them
  apart. In `InPlaceSend` the chunks' readers and their RAM are left out; `SendTransfer` has
  them.
- The service keeps what it committed and reports what it keeps, and the SDK closes the
  body of a request it is done with: this is assumed of code that is not in this repository.

## 5. What is proved

### JobMgrProofs

For any number of parts and transfers, any capacity of the channels, any users and any set
of transfers that may meet a 403:

| Theorem | Statement |
|---|---|
| `IndInvHolds` | `Spec => []IndInv` |
| `TypeCorrect` | `Spec => []TypeOK` |
| `PartReportedOnce` | one transfer of a part reports it, after all have been counted |
| `NeverCompletedEarly` | a job whose status says it ran to its end has all parts ordered and all transfers counted |
| `NeverClosedTwice` | the handler never closes `xferDone` when it is closed |
| `SummaryIsExact` | the summary of a job whose status says it ran to its end counts every transfer's outcome, each once |
| `OutcomesFindAListener` | in a job nobody cancels, a transfer that reports finds the channel open |
| `StatusTellsTheOutcomes` | in a job of one transfer per part without checks of the tier, the status it ends with tells which outcomes its transfers had |
| `ImplementsJobOrder` | without users and 403s, `JobMgr` implements the safety part of `JobOrder` |

The assumptions are `JobAssumption`, `CancellerAssumption` and those of the status manager:
only a job without transfers has an empty part (which is how `addTransfer` dispatches
parts), users are not transfers, and channels have at least one slot.

The argument goes along the parts of `IndInv`. `CountInv` says that a part's counter is the
number of transfers past the counting step, so that the one that brings it to the total is
unique (`OneTransferReportsThePart`) and finds all others counted. `OrderInv` and
`ScheduleInv` tie the parts known to the handler to the front end's place, so that the
final-part flag is only set with all parts known. `HandlerInv` is the heart: as long as
nobody has written the status, the handler's counter is exactly the number of parts that
reported, and when it has decided to complete the job, all have. It is needed because the
property itself says nothing of the time between the decision and the write, in which a
canceller can come: what the handler has read keeps its meaning, and after a cancellation
the counter has none. `XferDoneInv` says that the channel is closed only while the handler
waits for the drain.

The exact summary needs two more parts. `SummaryInv` says that what the status manager has
counted and what is still in its channel are together the outcomes of the transfers that
have told it (`Told`), kind by kind, as cardinalities of sets that grow by one transfer or
one place of the buffer in a step. It speaks of a job that may still complete
(`MayComplete`): a cancelled one loses outcomes on a channel that is closed. `DrainInv` says
that the handler does not write the status before the channel is drained, and that nothing
comes into it afterwards; so at that moment nothing is on the way, and by
`NeverCompletedEarly` all have told. For `OutcomesFindAListener`, `ListenerInv` says that
the channel of a job nobody cancels is not closed before all parts have reported; a
cancellation may close it under its senders, and their outcomes are lost.
`TellsInv` follows the counters of one transfer from its part's tally (`TallyInv`) through
the message to the handler's sums (`ProgressInv`). Its hypotheses are the bounds of what is
true: with two transfers in a part, the last one to be counted may read the tally before the
other has added to it (an observation, above), and a failed check of the tier is counted as
a failure by the summary and under no heading by the part.

The proof that a step preserves the invariant goes over the actions,
using a lemma (`Footprint`) that says which action touches which variable.
`job_mgr_cancel` checks `IndInv` on a small instance, with the same definitions.

### SendTransferProofs

For any transfers and any names they share, any number of chunks, workers and retries, any
amount of RAM, and all faults of the service and the source:

| Theorem | Statement |
|---|---|
| `SendInvHolds` | `Spec => []SendInv` |
| `TypeCorrect` | `Spec => []TypeOK` |
| `SuccessIsCommitted` | a success has written all its chunks and has been committed |
| `BlocksAreFound` | a commit finds the blocks of all its chunks |
| `ReportedLast` | a transfer is reported once, after everything else of it |
| `DestinationIsLocked` | a name's content and blocks change only under its lock |
| `BytesAreTakenBack` | the bytes of active files are those of the transfers that are not over |
| `RamIsOfReaders` | if no chunk fails and the job is not cancelled, the RAM that is counted is that of the open readers and of the prefetch, within the limit |

The assumptions are `TransferAssumption` and `SendAssumption`: every transfer has at least
one chunk and a name to write to, and the limits are natural numbers.

`SendInv` says of each transfer (`TransferInv`) how far it has got and what it may rely on.
`ChunksOf` ties the place of the scheduling goroutine to the chunks: those before
`nextChunk` have been handed on, those after it are untouched, and all are done when the
epilogue begins. `CountOf` says that the counter of `ReportChunkDone` is the number of done
chunks; as it is raised in the step that ends a chunk, the one that brings it to the number
of chunks is the last, and starts the one epilogue. `LockOf` and `OneHolder` give the lock
of a name to one transfer at a time, from before its first chunk until after its clean-up.
`BlocksOf` holds the property together: the identifiers kept by the sender, the counter of
written chunks and the blocks at the service agree as long as nothing has happened to the
transfer; it says nothing of a transfer whose context is done, for its blocks may be in any
state. `SettledOf` says that a status is final only in the last steps.

Two observations carry the proof. First, a step of one transfer leaves alone all that
`TransferInv` says of another (`SameView`, `Elsewhere`): the only thing two transfers share
in it is a name, and whoever touches its blocks has its lock. Secondly, chunks only go
forward (`DoneGrows`, `WrittenGrows`), so both counters are cardinalities of sets that grow
by one chunk in the step that raises the counter. `ChunkAlreadyTransferred` is never true,
whatever blocks a restart has found (a finding, below the runs): without that, the proof
would have to show that the skipped blocks are still at the service when it commits.

The two counters that all transfers share are cardinalities too. `BytesInv` counts the pairs
of a transfer that is not over and the number of a byte it has sent; a report takes all pairs
of its transfer away at once. `RamInv` counts the chunks whose reader has data or is reading
them ahead (`Holders`). `RamIsOfReaders` has the hypothesis `NothingHappens`, because the
code does not keep the promise otherwise: a failed transfer may report while its readers
still have their RAM (an observation, above).

### DownloadTransferProofs

For any transfers and any names they share, any number of chunks, workers and retries, any
limits, and all faults of the service, the disk and the user:

| Theorem | Statement |
|---|---|
| `DownInvHolds` | `Spec => []DownInv` |
| `TypeCorrect` | `Spec => []TypeOK` |
| `FilesAreWhole` | a file under its final name has all chunks of one transfer, in order |
| `SuccessIsDelivered` | a success has its file under its final name |
| `NothingStays` | when all is over, there is no temporary file, no lock and no open file left |
| `FilesAreLocked` | the files of a name change only under its lock |
| `RamIsOfPending` | where no request, write or epilogue fails and nobody cancels, the RAM that is counted is that of the chunks scheduled and not saved |

The assumptions are `TransferAssumption`, `WriterAssumption` and `DownloadAssumption`: the
limits are numbers, three quarters of the RAM limit are not nothing, and a missing file is
not a sequence of chunks.

The argument follows a chunk from the service to the disk. `QueueOf` says that an index is
at most once in the writer's channel or in its map of early chunks, and is not saved yet;
`OrderOf` that, as long as nothing has happened to the transfer, every chunk that has arrived
is saved or on its way, and that the writer does not wait while it has the next chunk.
`ContentOf` puts the two together: the temporary file is the first `nextToSave` chunks, and
when the writer ends with the hash all have come, so that the file which is renamed is whole.
A dead transfer's channel may be in any state, and its file is only deleted. `PlaceOf` ties
the scheduler, the chunks and the worker, `CountOf` is the counter that starts the one
epilogue, as in `SendTransfer`. `LockOf` and `OneHolder` make the owner of a name unique
and count the open files; `TempIsOwned` says that a temporary file has an owner that will
rename or delete it. `RamInv` is an inequality only, with a set of chunks whose RAM is still
counted as its witness (`Holds`): after a cancellation the worker and the transfer's `Flush`
may both give back the RAM of a chunk that is not saved.

`RamIsOfPending` has the hypothesis `NothingHappens`, for that reason. Its invariant adds to
`DownInv` that each transfer has reserved as much as it has chunks `Pending`
(`RamOfPending`), and that nothing disturbs a transfer (`Undisturbed`): its context is not
done before it is over, and its worker stops only with all chunks saved, so that neither the
worker nor `Flush` has anything left to give back. That a worker which finds its channel closed
has saved them all (`AllSaved`) is where `OrderOf` and `PlaceOf` come in.

### RunsProofs

Components that share no state are in one: what surrounds the transfers of a process, and
what the next process finds.

**ResumableDownload.** For any number of chunks, versions of the source and processes, and a death at any step:

| Theorem | Statement |
|---|---|
| `TypeCorrect` | `RDSpec => []RDTypeOK` |
| `ProgressIsKept` | a file that is being downloaded is taken away only by the step that renames it, and no transfer that is over without being a success loses its progress file |
| `DownloadInvHolds` | if no process dies between the two stores of `MarkChunkComplete`, what is delivered is whole, of the version that was found, and of the plan's hash |

The assumption is `ResumableAssumption`: there is at least one chunk and one version, chunks
are numbered from 0, and a hole, a missing hash and a missing file are none of the contents.

`PlaceInv` and `FileInv` say where the scheduler is and which of the three files there are.
`MarksInv` says that a mark which is set has a hash; it is what a death between the two
stores breaks, and why `DownloadInvHolds` has `~TornMarks` (with it the property is false: an
observation, above). `PendingInv` is what the proof is really about: the temporary
file is made anew by every process, so no mark of an earlier one is confirmed by its content,
and either all chunks are pending or none is. `ContentInv` then says that every chunk this
process has written is of the version it found.

**Console.** For any transfers that ask, any room in the message queue, any number of typed
lines and interrupts:

| Theorem | Statement |
|---|---|
| `ConsoleInvHolds` | `CNSpec => []ConsoleInv`: an answer that is taken was typed after its question was printed, after an answer for all nobody asks again, and a copy that exits with success was not cancelled |

`ConsoleAssumption` keeps the names of the transfers apart from the marks `none` and `free`.
A line is stamped with the number of the questions printed before it, and a question with
its own number. `QuestionInv` says that a question is in the queue or on the screen at most
once and is not answered while it is, so that its number is settled when the printer takes
a line: one with an older stamp is dropped, however it came into the queue.
`AskerInv` ties whoever asks to the lock under which `shouldPromptUser` was read, which is
why an answer for all reaches the next one before it asks. `EndInv` says that the message
which ends the process tells the status the reporter has read (`TellsTheOutcome`), which a
cancellation cannot change any more: a job is over once.

**ResumeJob.** For any parts and transfers, any capacity of the channel of parts, any
number of processes, and a death or a cancellation at any step (`ResumeAssumption`: there
is a part, and no part is empty):

| Theorem | Statement |
|---|---|
| `ResumeInvariant` | `RJSpec => []ResInv` |
| `ResumeInvHolds` | a job whose plan says it ran to its end has all its parts and no transfer pending; the summary of the process that completes it counts each success and failure once; when the handler settles a job nobody cancelled, no part is missing |
| `SuccessesStay` | a transfer that succeeded keeps its status and is not queued again, by any process |

With `ProgressIsKept` the last one is `NothingIsLost` (`NothingIsLostHolds`), which `runs` checks.
A transfer `IsScheduled` when its part is neither queued nor still to be queued, and the
scheduler is past it: a definition, from which `TxInv` says where each transfer can be, and
that one which is not on its way is a success of an earlier process. A part's counter is the
number of its transfers that were reported to it or found done (`DoneInv`), so that it is
full once. `ReportInv` then follows the reports as one number, `Messages`: those waiting, in
the handler's hands and counted are as many as the parts that are finished. It is an
inequality after a cancellation, which sends a report of its own; and nothing is said of a
job that was settled, whose handler may be told of parts again. So when a handler decides to
settle a job nobody cancelled, all parts are finished. `SummaryInv` counts, by sets of
transfers, what the summary has taken from the plans (successes) and from the status manager
(`InSummary`): a restarted transfer leaves the one set before it can come into the other,
and failures are taken out of the summary between the two. `SettledInv` adds that nothing
moves in a job that is settled (`AllAtRest`), until its process is over.

**PlanFile.** For any number of transfers, any lengths of their strings, any size of the
header and integers of any width (`LayoutAssumption`):

| Theorem | Statement |
|---|---|
| `PlanInvariant` | `PFSpec => []PlanIInv` |
| `PlanInvHolds` | a plan file that `Create` closes is read back as it was ordered, whether or not a sum of lengths wraps; `Create` panics only if the strings of one transfer are together longer than an `int16` |

The invariant compares two ways of counting: the offset in a record is that of the record
before it and the sum of its lengths as `Create` computes it (`OffsetsAddUp`), while the end
of the file moves by the real lengths (`WhileStrings`). They agree as long as every transfer
but the last has a sum that fits (`NoWrap`), and where they do not, the comparison before the
strings of the next transfer panics (`PanicIsFounded`). So whatever was written lies where its
record says (`StringsLieIn`); nobody reads past the strings of the last transfer, whose sum
may wrap unnoticed and without harm.

**CopyCommand, SyncCommand.** For any set of command lines, on any system:

| Theorem | Statement |
|---|---|
| `CopyInvHolds` | `CCSpec => []CopyInv`: the five properties of section 3 |
| `SyncCommandInvHolds` | `SCSpec => []SyncCommandInv` |

Nothing is assumed of a copy's command lines; of a sync's, that the option for trailing dots
has one of its three values (`SyncAskedAssumption`). The invariants say what a later stage relies
on. `CookedInv` is what the options have let through: a direction there is, no POSIX properties
over NFS, a stripped top directory only with a wildcard. `NoPipe` is why a pipe's source is never
asked for credentials, which would panic. `BackupInv` takes the check of the backup mode from
validation to the start, where it is a panic. `LandingInv` ties `stripTopDir` and `asSubdir` to
the direction and to whether the root is kept, from which `CopiesAreDistinct` and
`CopiedContainersAreMerged` follow for the scan of any command: a path below a container's name
says which container it is (`PrefixesSeparate`), and one root has no two objects at a path.

**SecurityDescriptor, FileProperties.** For any number of transfers, jobs, sources, shares with
any texts in their tables, any length that fits into a header, and any calls that fail:

| Theorem | Statement |
|---|---|
| `FilePropertiesInvHolds` | `FPSpec => []FilePropertiesInv`: the five properties of section 3 |

`SharePermissionsAssumption` says that a text in a share's table has at most one section of a
kind, as the service returns them. `FpJobsAssumption` says that a source's key is in its share's
table or there is none, that its descriptor has the shape of the binary form (`IsBinary`: no list
means no entries, and flags of entries have one name), that its mode bits are among those
modelled, and that `unset`, which stands for no attributes, is not one of them.

The conversions come first. `DescriptorIsWritten`: the text made of a descriptor, and its
portable form, mean what the descriptor says. `TextIsRead`: a text that is converted without an
error means what the descriptor says; the one way in which it could not is a list that
`ParseSDDL` reads as none, which lets everybody in, and `NothingVanishes` says that the
conversion then fails. What a text means (`Meaning`) is defined by the service's reading and not
by the code's. Both are about lists of any length, entry by entry.

`CacheIsSound` is the other half: an entry of the job's cache is a key of that share and stands
for that text, and because texts are only ever added to a table, at its end (`AddedAtTheEnd`),
it still does when another transfer uses it. So each transfer has an invariant of its own
(`TransferInv`), of the table of its destination only, that a step of another transfer keeps
(`OneMoves`, and `CreatePermissionKeeps` for the step that adds a text): where it may be
(`RouteOk`), what a failure leaves (`FailureOk`), what a sender is going to apply
(`HeadersOk`), what is in the share (`SentOk`) and on the disk (`DiskOk`) after each step.

**Runs.** `CommandInvHolds` is `(CCSpec \/ SCSpec) /\ FPSpec => []CommandInv`, and
`NothingIsLostHolds` is `RDSpec /\ RJSpec => NothingIsLost`: the two properties as the run
checks them. In the models the commands share their variables, and the command lines of a sync
are those with an option for trailing dots (`CommandsAssumption`, `IsSync`); neither command
changes its line.

### DestinationProofs

**RemoveJob.** For any tree of files and folders (`TreeAssumption`: finite, and without cycles, stated as
every set of entries having one that is no other's parent), any number of processes and any
faults:

| Theorem | Statement |
|---|---|
| `TypeCorrect` | `RMSpec => []RMTypeOK` |
| `OnlyFailuresKeepFolders` | a folder that is left at the end is there because of a failure below it, of its own, or of an earlier process |
| `RemovalInvHolds` | of shares and blob containers, also: what is reported as removed is gone |

`RemInv` has the count of children at its centre. `CountInv` says that a folder's count is at
most the number of children that still matter (`Pending`): two goroutines may record the same
child, so it is no equality, and that is enough, for a count that is too small only makes
an attempt early. `TriedInv` is the converse, and what makes the property true: a folder that
is waited for, is empty and has not failed has somebody about to try it, or a child that
still matters. At the end nobody is about to do anything, so the lemma `FoldersAtTheEnd`
goes down from a folder to a child that matters, which the assumption on the tree ends.
ADLS is left out of `RemovalInvHolds` because `transferDone` takes an error without a
response for a success there, and the property is false (an observation, above).

**FolderCreation.** For any tree of folders and order of the plan files (`CopyAssumption`:
any set of folders has an outermost one, each transfer is in one plan once), any destination,
any number of processes, deaths and cancellations:

| Theorem | Statement |
|---|---|
| `FolderInvariant` | `FCSpec => []FolderInd` |
| `FolderInvHolds` | a success has its folder and the ones above it; with `--overwrite=false` folders of others get no properties from the job, and its own are passed over only when it has forgotten them; the tracker finds every folder registered |

`PathTo` is defined as the least set of folders with the folder and the parents of its
members (`HasItsParents`), because all the proof needs of a path is that it is such a set
(`PathLemma`) and is within every other (`PathIsLeast`): a transfer is at a folder of its path
(`Place`), and what exists is such a set too (`PathInv`), so the folder a success needs brings
its path with it. `AccountedInv` is the invariant behind the properties: a folder that exists
was there before, or has its mark in the plan, or is in the tracker's memory, or its maker
holds the lock and is about to write that down, or is forgotten. `OwnStep` collects what
the steps that make no folder have in common, so that five of the actions have one proof.

**InPlaceSend.** `InPlaceInvHolds`: `IPSpec => []InPlaceInv`, for any kinds of destination,
any number of chunks, any threshold for flushing and any number of attempts (`InPlaceAssumption`).

The inductive invariant is `SendInv`. Its `ControlInv` ties the scheduler's place to the
chunks: those beyond it are untouched, all are done when the epilogue begins (`ChunkPlaceInv`);
a live transfer has a destination that it made (`ModifiedInv`); after a chunk that could not
be read all others are unread too (`UnreadInv`), without which a chunk of an append blob
could be sent with a gap before it. `DataInv` is what is known of the destination
while the transfer is live, by kind: a done cell is right and a cell that is not sent is
right as it is (`RangesInv`), an append blob has exactly the blocks up to the one that may
be sent, or one more when an answer was lost (`AppendInv`), an ADLS file shows what was
flushed (`FlushInv`). Nothing of it is claimed of a dead transfer, whose late requests may
do anything; `KeptInv` says what clean-up can rely on then. That a repeated append is right
to go on (`PositionIsNotMet`) follows from `AppendInv`: the blob is one block longer, and
the block is this one.

### LimiterProofs

**CacheLimiter.** For any finite set of clients, any limit and any counts up to it:

| Theorem | Statement |
|---|---|
| `CLInvHolds` | `CLSpec => []CLInv` |
| `EveryCountIsAccounted` | the counter is what is held and what failing attempts have not taken back |
| `EntrantsKeepTheLimit` | whoever is let in finds no more held than the limit of its kind, strict or relaxed |
| `NeverOverTheLimit` | no more than the limit is ever held |

A sum of counts is the number of the units the clients have (`UnitsOf`), so that the library's
facts about cardinalities give what a sum does when a client comes or goes (`TotalOfMore`,
`TotalOfLess`). The counter may be over the limit: it also shows what failing attempts have
added. It never shows less than what is held, and so the sum that lets a client in bounds it.

**TokenBucket.** For any finite set of requesters, and any sizes, rates and updates of them
(`BucketAssumption`: all are numbers, and there is a largest size, as buffers have one, and a
largest rate, as rates are 64-bit integers):

| Theorem | Statement |
|---|---|
| `PacerKeepsItsAccounts` | no more is granted than was released; with no attempt under way, the bucket has what was released and not granted |
| `PacerInvHolds` | that, and the bounds: of the bucket, the grand total, the rates, the requesters' sizes |

An attempt that found too little has taken tokens which it will put back: `Owed` is their sum,
over the requesters between the two steps, and `BucketInd` says that the bucket and what it is
owed are what was released less what was granted. So the bucket only ever shows too little,
and who finds enough in it is granted what was there.

The bucket may hold more than `MaxAllowedUnsentBytes`: `pacerBody` trims it while attempts that
overlap have yet to put their tokens back, and `UndoRequest` puts back what was never taken
from it when there was no limit at the time. `Due` is what a requester may still put in that
way, `Counted` what it may still take off the grand total; `PacerKeeps` says that the bucket
and all that is due are within `TokenBound`, and that the grand total covers what may be taken
off. Each step of a requester changes its own share by what it does to the bucket
(`AmountsOfOneMove`), so an action is proved by comparing two numbers.

**ConcurrencyTuner.** For any first values below any limit, and any zones (`TunerAssumption`):

| Theorem | Statement |
|---|---|
| `PoolInvHolds` | never more goroutines than the limit and one; what is recommended is within the limit; a search that is not a benchmark ends at a value it did not go back from |
| `LimitsInvHolds` | with `PacerInvHolds`, the property that the run checks |

`SizerKeeps` counts the workers of whom the sizer has not heard yet: the one it waits for, and
one more once `RequestTuneSlowly` has woken it up in between, which happens once; none when the
measuring interval is over. That is where the one in excess comes from. `TunerKeeps` needs that
each multiplier is between one and four: a probe over the limit is cut to the limit by a
quotient (`ProbeTypes`), and of the multipliers the loop in the code tries, one counts
(`BumpedTypes`), so there is a first one: `LeastNumber`, from the library's well-foundedness
of `<` on the numbers.

### SyncJobProofs

For any objects on the two sides, any size of a part, both orders of listing, every
comparison and all answers to the prompts (`SyncAssumption`):

| Theorem | Statement |
|---|---|
| `SyncIInvHolds` | `SYSpec => []SyncIInv` |
| `TypeCorrect` | `SYSpec => []SYTypeOK` |
| `SyncInvHolds` | what is ordered and deleted is the difference of the two sides, the parts are proper, and the program does not end before it has dealt with the extra objects |

Both orders are one argument: `Primary` is the side that is indexed, `Secondary` the other.
`ListingInv` says that the index holds the paths of `Primary` which `Secondary`'s listing has
not come to, and `SettledInv` that what has been ordered, deleted or kept is the difference
of the two sides on the paths that are past, for each phase its own set of them. `OptionsInv`
makes the keys of the index plain in both orders: a path is spelt in capitals only where the
case is ignored, and then it is lowered. `PartsInv` says that the part being filled is not
empty once one was sent, so that the last part can be sent at all.

### ScansProofs

**LocalScan.** For any tree of folders, files and links (`ScanAssumption`: a path is one thing
only, and no folder is within itself; links may lead anywhere, also back), any numbers of
crawlers and hashing threads, any capacities of the channels and any faults:

| Theorem | Statement |
|---|---|
| `ScanInvariant` | `LSSpec => []ScanIInv` |
| `ScanTypesHold` | `LSSpec => []LSTypeOK` |
| `NothingIsEverSentTwice` | nothing is handed on twice but links to files |
| `ScanInvHolds` | also: a scan that returns no error, of which no walk was broken off and no name was lost, has handed on everything there is |
| `DeferredFilesAreHashed` | no file is left in the backlog when a scan returns no error (`DeferredFilesAreProcessed`) |

The last two assume `HashThreads # 0`, because without threads they are false (an
observation, above).

That nothing is handed on twice has two reasons, one for each way to go. Where links are
followed, `seenPaths` is what keeps walks apart: whatever is held anywhere between the walk
function and the processor has been seen, and so has the target of a link that was, links to
files apart (`SeenInv`). Otherwise there is one walk, and nothing remembers anything: `OnceInv` says that
there is a set `ahead` of paths that the walk has yet to come to, with all that is below
its folders, and that no two workers have the same folder, no folder in hand is ahead, and
nothing that is ahead is held. The set is not a variable of the code, so it is quantified, and
each step of a worker takes out of it what the worker takes on. `OneInv` says that a path,
unless it is a link to a file, is held in one place: the walk function's hand, the backlog, a
thread, or what was processed.

That everything is handed on is `WalkAccounted`, as long as all was well (`Fine`, `AllRead`):
there is a set of folders that have been read, and what is in them is known (read, in the
queue of walks or in hand), on its way, or handled, which is to say held, filtered out or a
link whose target is known. When the walks are over, nothing is in the queue or in hand, so
the folders read are closed under what the scan follows; `Reached` is the least set of that
kind, hence within them. `ErrorInv` ties the result to the hashing threads: a thread is gone
because of an error, which is the result then, or because the backlog was closed and empty.

**ServiceScan.** For any folders and leaves, any forms of blobs and types of files, any numbers
of crawlers and converters, any capacity of the channels and any faults:

| Theorem | Statement |
|---|---|
| `ListingInvariant` | `SVSpec => []ListingIInv` |
| `ServiceScanInvHolds` | nothing is listed twice; a listing that returns no error is what the filters let through, but for what a share leaves out without a word |

The assumptions (`ServiceScanAssumption`) are about the data: folders and leaves are
different things, and `SvHollow`, the folders that a service of blobs does not show because
nothing is in them, have no leaf and not the named folder below them. And there is a crawler
(`SvWorkers`: `AZCOPY_CONCURRENT_SCAN`, 16 unless it is set).

A folder is `Due` (to be crawled, or found by a worker that is not done with its page) or
past (its page was begun). `FoldersOnce` says that no folder is both, that all are below the
root, and that the folders left on a page are neither, so each is listed once. `SentOnce`
says that what was sent comes from a page and is no longer left on it; `AllSettled` is the
converse, that what is not left on a page has been sent, has become due, or had no need to
be sent, unless the error of the page was sent instead. Past folders are nowhere in the
code, so `CrawlKeeps` quantifies them. The way from there to the processor is
`PlaceInv`: what was sent is on one of the lines, with a converter, handed on or logged,
and in one of these places only; `ConversionInv` says what was looked at where. When
nothing is due or left and the lines are empty, the past folders are closed, and `Below`,
defined as the least set that holds what is in its folders (`HoldsAllBelow`), is within them.

Together they are `EveryScanIsExactHolds`: `ScansSpec => []EveryScanIsExact`, the property
that the run checks, where something hashes.

### What is only model-checked

All liveness, the fairness of `JobOrder` in `PromiseKept` included: fairness and `ENABLED` are
out of the prover's reach.

Of the modules with theorems, nothing is proved beyond their hypotheses, outside of which
most of these properties are false (the observations say how).

Every invariant and every action property that a passing run checks is stated by a theorem.

## 6. What is not modelled

- **Block blobs**: headers, tiers, tags and access conditions; `InPlaceSend` leaves out
  files of no bytes, the benchmark source (whose append is not verified by its hash),
  symbolic links, and requests that arrive after the service has taken a later
  one.
- **The chunk reader's own locks** (`common/singleChunkReader.go`): reading, retrying and
  closing are single steps.
- **Downloads** of empty files, to the null device, of folders and links; the downloaders of
  Azure Files and ADLS, which make one request per chunk like that of blobs. What the former
  sets at the end is in `FileProperties`.
- **Permissions and properties** on Windows, of symbolic links and hard links, in extended attributes of
  blobs, and the bytes of the binary forms; a retry of a creation whose parent is missing.
- **Folders** with a hierarchical namespace and transfers of access control lists only;
  setting properties.
- **The pool's** shutdown and its callbacks on stability.
- **The copy command's** block sizes, metadata and tags (values are only looked at one by
  one), the escaping of names, the creation of the destination's containers, the check for
  system containers, list-of-versions.
- **Sync** of folders (their comparison); **the scan's** hard links, Windows paths and stores
  of hashes.
- **Dialogue**: JSON output, progress messages, input from end-to-end tests.
- **Slice pools, checksums, URL parts, name resolvers**:
  conversions, without a protocol.
- **Traversers** of S3, Google Cloud Storage and lists of files; of a single file; roots with
  a hierarchical namespace, and tags of blobs; **token caches**, **logs**, **the other commands' options, help and output**, **the client
  library**, **policies for retries and statistics**: requests to services, I/O and wrappers;
  where a later module depends on them, they are nondeterministic choices in it.

## 7. What is left

1. Slice pools and the rotating log writer, which are shared between goroutines.
2. A composition of `ResumeJob` with `JobMgr`'s finer steps.
