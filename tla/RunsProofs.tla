----------------------------- MODULE RunsProofs ------------------------------
(***************************************************************************)
(* Proofs about the command a process is given, what it does with its user *)
(* and leaves to the next one: CopyCommand and SyncCommand, for any set of *)
(* command lines; SecurityDescriptor and FileProperties, for any shares,   *)
(* texts, jobs and sources, any number of transfers and any faults;        *)
(* ResumableDownload (the types, that no progress is lost and, when a mark *)
(* of a chunk is written as a whole, what is delivered), for any number of *)
(* chunks, versions of the source and processes, and for a death at any    *)
(* step; Console, for any transfers that ask, any number of lines and      *)
(* signals; ResumeJob, for any parts, transfers and processes; PlanFile,   *)
(* for any number of transfers, any lengths of their strings and integers  *)
(* of any width; Runs, which joins them.                                   *)
(***************************************************************************)
EXTENDS Runs, Console, PlanFile, FiniteSetTheorems, FunctionTheorems, SequenceTheorems, TLAPS

-----------------------------------------------------------------------------
(* ResumableDownload.                                                      *)

(* RDTypeOK but for the number of chunks that have been scheduled. *)
TypedVars ==
    /\ sourceHasMd5 \in BOOLEAN /\ source \in Versions /\ runs \in 0 .. MaxRuns
    /\ status \in {"Started", "Success", "Failed", "Cancelled"}
    /\ temp \in Contents \cup {NoFile} /\ final \in Contents \cup {NoFile}
    /\ progress \in Marks \cup {NoFile} /\ synced \in Marks \cup {NoFile}
    /\ pc \in {"down", "over", "create", "prologue", "open", "reopen", "fresh", "schedule",
               "chunks", "epilogue", "finalize", "rename", "delete", "complete", "report"}
    /\ mode \in {"standard", "resumable"} /\ ctxDone \in BOOLEAN
    /\ pending \subseteq Chunks /\ nextChunk \in 0 .. ChunkCount /\ reports \in 0 .. 2
    /\ chunk \in [Chunks -> {"idle", "queued", "mark", "markMd5", "count", "done"}]

(* The scheduler's place, and what it tells about the chunks. *)
PlaceInv ==
    /\ \A c \in Chunks : chunk[c] # "idle" <=> c < nextChunk
    /\ pc \in {"create", "prologue", "open", "reopen", "fresh"} => nextChunk = 0
    /\ pc = "schedule" => nextChunk < ChunkCount
    /\ pc = "chunks" => nextChunk = ChunkCount
    /\ pc \in {"epilogue", "finalize", "rename", "delete"} => \A c \in Chunks : chunk[c] = "done"
    /\ pc \in {"complete", "report", "over", "down"} =>
           \A c \in Chunks : chunk[c] \in {"idle", "done"}
    /\ pc \in {"create", "prologue"} => reports = 0
    /\ pc \notin {"over", "down"} => reports <= 1

(* Which files there are, and what the end of a transfer leaves of them.   *)
FileInv ==
    /\ pc \in {"prologue", "open", "reopen", "fresh", "schedule", "chunks", "epilogue",
               "finalize", "rename"} => temp # NoFile
    /\ pc \in {"open", "reopen", "fresh"} => mode = "resumable"
    /\ \A c \in Chunks :
           chunk[c] \in {"mark", "markMd5"} => mode = "resumable" /\ temp[c] = source
    /\ mode = "resumable" /\ pc \in {"reopen", "schedule", "chunks", "epilogue", "finalize",
                                     "rename", "delete"} => progress # NoFile
    /\ pc = "create" => status = "Started"
    /\ status = "Success" => pc \in {"report", "over", "down"}
    /\ pc = "delete" => temp = NoFile
    /\ pc = "complete" /\ ~Dead =>
           temp = NoFile /\ (mode = "resumable" => progress = NoFile)
    /\ pc \in {"report", "over"} =>
           /\ temp # NoFile => status # "Success" /\ progress # NoFile
           /\ status = "Success" /\ mode = "resumable" => progress = NoFile

StageInv == RDTypeOK /\ PlaceInv /\ FileInv

(* A chunk that is marked has the hash of what was written. *)
MarksInv ==
    /\ progress # NoFile =>
           \A c \in Chunks :
               progress[c].done /\ chunk[c] # "markMd5" => progress[c].md5 \in Versions
    /\ synced # NoFile => \A c \in Chunks : synced[c].done => synced[c].md5 \in Versions

(* The temporary file is new in every process, so that no mark of an       *)
(* earlier one is confirmed: either all chunks are pending or none is.     *)
PendingInv ==
    /\ pc \in {"prologue", "open", "reopen"} => temp = Empty
    /\ pc \in {"create", "prologue", "open", "fresh"} => pending = {}
    /\ pc = "reopen" => pending = GetPendingChunks
    /\ pc = "schedule" /\ mode = "resumable" => pending \in {{}, Chunks}

IsDelivered == final = Whole(source) /\ (sourceHasMd5 => final = Whole(PlanVersion))

(* What a chunk of this process has written is this process's version.     *)
ContentInv ==
    /\ pc \in {"schedule", "chunks", "epilogue", "finalize"} /\ ~ctxDone =>
           \A c \in Chunks : chunk[c] \in {"count", "done"} => temp[c] = source
    /\ pc = "rename" =>
           temp = Whole(source) /\ (sourceHasMd5 => temp = Whole(PlanVersion))
    /\ pc = "delete" \/ (pc = "complete" /\ ~Dead) \/ status = "Success" => IsDelivered
    /\ FinalFilesAreWhole

KeptInv == StageInv /\ MarksInv /\ PendingInv /\ ContentInv

-----------------------------------------------------------------------------
(* The chunks are numbered from 0. *)
LEMMA ChunkNumbers == ChunkCount \in Nat \ {0} /\ Chunks = 0 .. ChunkCount - 1
BY ResumableAssumption, FS_CardinalityType, FS_EmptySet DEF ChunkCount

(* The chunks before the n-th are n.                                       *)
LEMMA ChunksBefore ==
    ASSUME NEW n \in 0 .. ChunkCount, NEW where,
           \A c \in Chunks : where[c] # "idle" <=> c < n
    PROVE  n = Cardinality({c \in Chunks : where[c] # "idle"})
<1>1. {c \in Chunks : where[c] # "idle"} = 0 .. n - 1
  BY ChunkNumbers
<1>2. Cardinality(0 .. n - 1) = n
  BY ChunkNumbers, FS_Interval
<1> QED BY <1>1, <1>2

(* When all chunks but one are counted as done, it is the others that are. *)
LEMMA LastChunk ==
    ASSUME NEW c \in Chunks, chunk[c] # "done", ChunksDone = ChunkCount - 1
    PROVE  \A d \in Chunks \ {c} : chunk[d] = "done"
<1> DEFINE Done == {d \in Chunks : chunk[d] = "done"}
<1>1. IsFiniteSet(Done) /\ c \notin Done /\ Done \cup {c} \subseteq Chunks
  BY ResumableAssumption, FS_Subset
<1>2. Cardinality(Done) = Cardinality(Chunks) - 1
  BY DEF ChunksDone, ChunkCount
<1> HIDE DEF Done
<1>3. Cardinality(Done \cup {c}) = Cardinality(Chunks)
  <2>1. Cardinality(Done \cup {c}) = Cardinality(Done) + 1
    BY <1>1, FS_AddElement
  <2>2. Cardinality(Chunks) \in Nat
    BY ChunkNumbers DEF ChunkCount
  <2> QED BY <1>2, <2>1, <2>2
<1>4. Done \cup {c} = Chunks
  BY <1>1, <1>3, ResumableAssumption, FS_Subset
<1> QED BY <1>4 DEF Done

(* The scheduler's place is kept by every step.                            *)
LEMMA PlaceStep ==
    ASSUME RDTypeOK, PlaceInv, RDNext
    PROVE  PlaceInv'
<1> USE ChunkNumbers DEF RDTypeOK, PlaceInv, planVars, diskVars, EpilogueFrame
<1>1. CASE StartProcess
  BY <1>1 DEF StartProcess
<1>2. CASE CreateDestinationFile
  BY <1>2 DEF CreateDestinationFile
<1>3. CASE Prologue
  BY <1>3 DEF Prologue
<1>4. CASE OpenChunkProgressFile
  BY <1>4 DEF OpenChunkProgressFile
<1>5. CASE VerifyCompletedChunks
  BY <1>5 DEF VerifyCompletedChunks
<1>6. CASE CreateChunkProgressFile
  BY <1>6 DEF CreateChunkProgressFile
<1>7. CASE ScheduleChunk
  <2>1. nextChunk \in Chunks /\ chunk[nextChunk] = "idle"
    BY <1>7 DEF ScheduleChunk
  <2>2. \A c \in Chunks : chunk'[c] # "idle" <=> c < nextChunk'
    BY <1>7, <2>1 DEF ScheduleChunk
  <2>3. pc' = "epilogue" => \A c \in Chunks : chunk'[c] = "done"
    BY <1>7, <2>1, LastChunk DEF ScheduleChunk
  <2>4. /\ pc' \in {"schedule", "epilogue", "chunks"}
        /\ pc' = "schedule" => nextChunk' < ChunkCount
        /\ pc' = "chunks" => nextChunk' = ChunkCount
    BY <1>7, <2>1 DEF ScheduleChunk
  <2> QED BY <1>7, <2>2, <2>3, <2>4 DEF ScheduleChunk
<1>8. ASSUME NEW c \in Chunks, DownloadChunk(c) PROVE PlaceInv'
  BY <1>8 DEF DownloadChunk, MoveChunk
<1>9. ASSUME NEW c \in Chunks, MarkStatus(c) PROVE PlaceInv'
  BY <1>9 DEF MarkStatus, MoveChunk
<1>10. ASSUME NEW c \in Chunks, MarkMd5(c) PROVE PlaceInv'
  BY <1>10 DEF MarkMd5, MoveChunk
<1>11. ASSUME NEW c \in Chunks, ReportChunkDone(c) PROVE PlaceInv'
  <2>1. chunk[c] = "count" /\ pc \in {"schedule", "chunks"}
    BY <1>11 DEF ReportChunkDone
  <2>2. pc' = "epilogue" => \A d \in Chunks : chunk'[d] = "done"
    BY <1>11, <2>1, LastChunk DEF ReportChunkDone, MoveChunk
  <2> QED BY <1>11, <2>1, <2>2 DEF ReportChunkDone, MoveChunk
<1>12. CASE EnterEpilogue
  BY <1>12 DEF EnterEpilogue
<1>13. CASE FinalizeFile
  BY <1>13 DEF FinalizeFile
<1>14. CASE Rename
  BY <1>14 DEF Rename
<1>15. CASE DeleteProgress
  BY <1>15 DEF DeleteProgress
<1>16. CASE Complete
  BY <1>16 DEF Complete
<1>17. CASE Report
  BY <1>17 DEF Report
<1>18. CASE Cancel
  BY <1>18 DEF Cancel
<1>19. CASE Kill \/ PowerFailure
  BY <1>19 DEF Kill, PowerFailure, Dies
<1> QED BY <1>1, <1>2, <1>3, <1>4, <1>5, <1>6, <1>7, <1>8, <1>9, <1>10, <1>11, <1>12, <1>13,
           <1>14, <1>15, <1>16, <1>17, <1>18, <1>19
        DEF RDNext, DownloadStep, ChunkStep

(* A progress marks in which a chunk is marked is one, and so is a mixture  *)
(* of two.                                                                 *)
LEMMA MarksStay ==
    /\ \A marks \in Marks : \A c \in Chunks :
         /\ [marks EXCEPT ![c].done = TRUE] \in Marks
         /\ \A v \in Versions : [marks EXCEPT ![c].md5 = v] \in Marks
    /\ \A old, new \in Marks : \A lost \in SUBSET Chunks :
         [c \in Chunks |-> IF c \in lost THEN old[c] ELSE new[c]] \in Marks
<1> DEFINE Entry == [done : BOOLEAN, md5 : Versions \cup {NoMd5}]
<1>1. ASSUME NEW marks \in Marks, NEW c \in Chunks
      PROVE  /\ [marks EXCEPT ![c].done = TRUE] \in Marks
             /\ \A v \in Versions : [marks EXCEPT ![c].md5 = v] \in Marks
  <2>1. marks[c] \in Entry
    BY DEF Marks
  <2>2. /\ [marks[c] EXCEPT !.done = TRUE] \in Entry
        /\ \A v \in Versions : [marks[c] EXCEPT !.md5 = v] \in Entry
    BY <2>1
  <2> QED BY <2>2 DEF Marks
<1>2. ASSUME NEW old \in Marks, NEW new \in Marks, NEW lost \in SUBSET Chunks
      PROVE  [c \in Chunks |-> IF c \in lost THEN old[c] ELSE new[c]] \in Marks
  BY DEF Marks
<1> QED BY <1>1, <1>2

(* Every step keeps the types.                                             *)
LEMMA TypeStep ==
    ASSUME RDTypeOK, PlaceInv, FileInv, RDNext
    PROVE  RDTypeOK'
<1> SUFFICES TypedVars'
  <2>1. TypedVars' => nextChunk' \in 0 .. ChunkCount
    BY DEF TypedVars
  <2>2. TypedVars' => nextChunk' = Cardinality({c \in Chunks : chunk'[c] # "idle"})
    BY <2>1, PlaceStep, ChunksBefore DEF PlaceInv
  <2> QED BY <2>2 DEF TypedVars, RDTypeOK
<1>a. TypedVars
  BY DEF TypedVars, RDTypeOK
<1> USE <1>a, ResumableAssumption, ChunkNumbers
    DEF TypedVars, PlaceInv, planVars, diskVars, EpilogueFrame, SetStatus, FailActiveDownload
<1>0. /\ Empty \in Contents /\ NewProgress \in Marks
      /\ \A c \in Chunks : chunk[c] \in {"queued", "mark", "markMd5"} => temp \in Contents
      /\ \A c \in Chunks : chunk[c] \in {"mark", "markMd5"} => progress \in Marks
  <2>1. \A c \in Chunks :
            chunk[c] \in {"queued", "mark", "markMd5"} => pc \in {"schedule", "chunks"}
    BY ChunkNumbers DEF PlaceInv
  <2> QED BY <2>1 DEF FileInv, Empty, Contents, NewProgress, NewEntry, Marks
<1>1. CASE StartProcess
  <2>1. runs' \in 0 .. MaxRuns
    BY <1>1 DEF StartProcess
  <2>2. /\ chunk' \in [Chunks -> {"idle", "queued", "mark", "markMd5", "count", "done"}]
        /\ pending' = {} /\ nextChunk' \in 0 .. ChunkCount
    BY <1>1 DEF StartProcess
  <2>3. /\ status' = "Started" /\ source' \in Versions /\ pc' = "create" /\ mode' = "standard"
        /\ ctxDone' = FALSE /\ reports' \in 0 .. 2
    BY <1>1 DEF StartProcess
  <2>4. UNCHANGED <<sourceHasMd5, temp, final, progress, synced>>
    BY <1>1 DEF StartProcess
  <2>5. sourceHasMd5' \in BOOLEAN
    BY <2>4, Zenon
  <2> QED BY <2>1, <2>2, <2>3, <2>4, <2>5
<1>2. CASE CreateDestinationFile
  BY <1>0, <1>2 DEF CreateDestinationFile
<1>3. CASE Prologue
  <2>1. reports' \in 0 .. 2 /\ mode' \in {"standard", "resumable"} /\ pc' \in {"schedule", "open"}
    BY <1>3 DEF Prologue
  <2>2. status' \in {"Started", "Success", "Failed", "Cancelled"} /\ ctxDone' \in BOOLEAN
    BY <1>3 DEF Prologue
  <2> QED BY <1>3, <2>1, <2>2 DEF Prologue
<1>4. CASE OpenChunkProgressFile
  BY <1>0, <1>4 DEF OpenChunkProgressFile, GetPendingChunks
<1>5. CASE VerifyCompletedChunks
  BY <1>0, <1>5 DEF VerifyCompletedChunks
<1>6. CASE CreateChunkProgressFile
  BY <1>0, <1>6 DEF CreateChunkProgressFile
<1>7. CASE ScheduleChunk
  BY <1>0, <1>7 DEF ScheduleChunk
<1>8. ASSUME NEW c \in Chunks, DownloadChunk(c) PROVE TypedVars'
  <2>1. temp' \in Contents
    BY <1>0, <1>8 DEF DownloadChunk, Contents
  <2>2. chunk' \in [Chunks -> {"idle", "queued", "mark", "markMd5", "count", "done"}]
    BY <1>8 DEF DownloadChunk, MoveChunk
  <2> QED BY ZenonT(30), <1>8, <2>1, <2>2 DEF DownloadChunk
<1>9. ASSUME NEW c \in Chunks, MarkStatus(c) PROVE TypedVars'
  <2>1. progress' \in Marks
    BY <1>0, <1>9, MarksStay DEF MarkStatus
  <2> QED BY <1>9, <2>1 DEF MarkStatus, MoveChunk
<1>10. ASSUME NEW c \in Chunks, MarkMd5(c) PROVE TypedVars'
  <2>1. progress' \in Marks
    <3>1. temp[c] \in Versions
      BY <1>10 DEF MarkMd5, FileInv
    <3> QED BY <1>0, <1>10, <3>1, MarksStay DEF MarkMd5
  <2> QED BY <1>10, <2>1 DEF MarkMd5, MoveChunk
<1>11. ASSUME NEW c \in Chunks, ReportChunkDone(c) PROVE TypedVars'
  BY <1>0, <1>11 DEF ReportChunkDone, MoveChunk
<1>12. CASE EnterEpilogue
  BY <1>0, <1>12 DEF EnterEpilogue
<1>13. CASE FinalizeFile
  BY <1>0, <1>13 DEF FinalizeFile
<1>14. CASE Rename
  BY <1>0, <1>14 DEF Rename
<1>15. CASE DeleteProgress
  BY <1>0, <1>15 DEF DeleteProgress
<1>16. CASE Complete
  BY <1>0, <1>16 DEF Complete
<1>17. CASE Report
  BY <1>0, <1>17 DEF Report
<1>18. CASE Cancel
  BY <1>0, <1>18 DEF Cancel
<1>19. CASE Kill
  BY <1>0, <1>19 DEF Kill, Dies
<1>20. CASE PowerFailure
  <2>1. temp' \in Contents \cup {NoFile}
    BY <1>20 DEF PowerFailure, Contents
  <2>2. progress' \in Marks \cup {NoFile}
    <3> DEFINE old == IF synced = NoFile THEN NewProgress ELSE synced
    <3>1. old \in Marks
      BY <1>0
    <3>2. progress # NoFile =>
              \A lost \in SUBSET Chunks :
                  [c \in Chunks |-> IF c \in lost THEN old[c] ELSE progress[c]] \in Marks
      BY <3>1, MarksStay
    <3>3. \/ progress' \in {progress, NoFile}
          \/ /\ progress # NoFile
             /\ progress' \in {[c \in Chunks |-> IF c \in lost THEN old[c] ELSE progress[c]] :
                                 lost \in SUBSET Chunks}
      BY <1>20 DEF PowerFailure
    <3> HIDE DEF old
    <3> QED BY <3>2, <3>3
  <2> QED BY <1>20, <2>1, <2>2 DEF PowerFailure, Dies
<1> QED BY <1>1, <1>2, <1>3, <1>4, <1>5, <1>6, <1>7, <1>8, <1>9, <1>10, <1>11, <1>12, <1>13,
           <1>14, <1>15, <1>16, <1>17, <1>18, <1>19, <1>20
        DEF RDNext, DownloadStep, ChunkStep

(* Where the chunks of a transfer are, as the lemmas below need it.        *)
LEMMA ChunkPlaces ==
    ASSUME RDTypeOK, PlaceInv
    PROVE  /\ \A c \in Chunks :
                chunk[c] \in {"queued", "mark", "markMd5", "count"} => pc \in {"schedule", "chunks"}
           /\ pc \in {"create", "prologue", "open", "reopen", "fresh"} =>
                \A c \in Chunks : chunk[c] = "idle"
BY ChunkNumbers DEF RDTypeOK, PlaceInv

(* Every step keeps what is known of the files.                            *)
LEMMA FileStep ==
    ASSUME StageInv, RDNext
    PROVE  FileInv'
<1>0. /\ Empty # NoFile /\ NewProgress # NoFile
      /\ RDTypeOK /\ PlaceInv /\ FileInv
  <2>1. Empty \in Contents /\ NewProgress \in Marks
    BY DEF Empty, Contents, NewProgress, NewEntry, Marks
  <2> QED BY <2>1, ResumableAssumption DEF StageInv
<1> USE <1>0, ChunkPlaces
    DEF RDTypeOK, FileInv, planVars, diskVars, EpilogueFrame, SetStatus, FailActiveDownload, Dead
<1>1. CASE StartProcess
  BY <1>1 DEF StartProcess
<1>2. CASE CreateDestinationFile
  BY <1>2 DEF CreateDestinationFile
<1>3. CASE Prologue
  BY <1>3 DEF Prologue
<1>4. CASE OpenChunkProgressFile
  BY <1>4 DEF OpenChunkProgressFile
<1>5. CASE VerifyCompletedChunks
  BY <1>5 DEF VerifyCompletedChunks
<1>6. CASE CreateChunkProgressFile
  BY <1>6 DEF CreateChunkProgressFile
<1>7. CASE ScheduleChunk
  BY <1>7 DEF ScheduleChunk
<1>8. ASSUME NEW c \in Chunks, DownloadChunk(c) PROVE FileInv'
  <2>1. temp \in Contents /\ source \in Versions
    BY <1>8 DEF DownloadChunk
  <2>2. temp' \in Contents
    BY <1>8, <2>1 DEF DownloadChunk, Contents
  <2>3. temp' # NoFile
    BY <2>1, <2>2, ResumableAssumption
  <2>4. ASSUME NEW d \in Chunks, chunk'[d] \in {"mark", "markMd5"}
        PROVE  mode' = "resumable" /\ temp'[d] = source'
    BY <1>8, <2>1, <2>4 DEF DownloadChunk, MoveChunk, Contents
  <2> QED BY <1>8, <2>3, <2>4 DEF DownloadChunk
<1>9. ASSUME NEW c \in Chunks, MarkStatus(c) PROVE FileInv'
  <2>1. progress' \in Marks
    BY <1>9, MarksStay DEF MarkStatus
  <2>2. progress' # NoFile
    BY <2>1, ResumableAssumption
  <2> QED BY <1>9, <2>2 DEF MarkStatus, MoveChunk
<1>10. ASSUME NEW c \in Chunks, MarkMd5(c) PROVE FileInv'
  <2>1. progress' \in Marks
    BY <1>10, MarksStay DEF MarkMd5
  <2>2. progress' # NoFile
    BY <2>1, ResumableAssumption
  <2> QED BY <1>10, <2>2 DEF MarkMd5, MoveChunk
<1>11. ASSUME NEW c \in Chunks, ReportChunkDone(c) PROVE FileInv'
  BY <1>11 DEF ReportChunkDone, MoveChunk
<1>12. CASE EnterEpilogue
  BY <1>12 DEF EnterEpilogue
<1>13. CASE FinalizeFile
  BY <1>13 DEF FinalizeFile
<1>14. CASE Rename
  BY <1>14 DEF Rename
<1>15. CASE DeleteProgress
  BY <1>15 DEF DeleteProgress
<1>16. CASE Complete
  BY <1>16 DEF Complete
<1>17. CASE Report
  BY <1>17 DEF Report
<1>18. CASE Cancel
  BY <1>18 DEF Cancel
<1>19. CASE Kill
  BY <1>19 DEF Kill, Dies
<1>20. CASE PowerFailure
  BY <1>20 DEF PowerFailure, Dies
<1> QED BY <1>1, <1>2, <1>3, <1>4, <1>5, <1>6, <1>7, <1>8, <1>9, <1>10, <1>11, <1>12, <1>13,
           <1>14, <1>15, <1>16, <1>17, <1>18, <1>19, <1>20
        DEF RDNext, DownloadStep, ChunkStep

-----------------------------------------------------------------------------
(* Unless a process dies inside MarkChunkComplete, every step keeps the    *)
(* marks true.                                                             *)
LEMMA MarksStep ==
    ASSUME ~TornMarks, StageInv, MarksInv, RDNext
    PROVE  MarksInv'
<1>0. RDTypeOK /\ PlaceInv /\ FileInv
  BY DEF StageInv
<1> USE <1>0, ResumableAssumption, ChunkPlaces
    DEF RDTypeOK, MarksInv, planVars, diskVars, EpilogueFrame
<1>1. CASE StartProcess
  BY <1>1 DEF StartProcess
<1>2. CASE CreateDestinationFile
  BY <1>2 DEF CreateDestinationFile
<1>3. CASE Prologue
  BY <1>3 DEF Prologue
<1>4. CASE OpenChunkProgressFile
  BY <1>4 DEF OpenChunkProgressFile
<1>5. CASE VerifyCompletedChunks
  BY <1>5 DEF VerifyCompletedChunks
<1>6. CASE CreateChunkProgressFile
  <2>1. \A c \in Chunks : NewProgress[c].done = FALSE
    BY DEF NewProgress, NewEntry
  <2> QED BY <1>6, <2>1 DEF CreateChunkProgressFile
<1>7. CASE ScheduleChunk
  <2>1. UNCHANGED <<progress, synced>>
    BY <1>7 DEF ScheduleChunk
  <2>2. \A c \in Chunks : chunk[c] # "markMd5" \/ chunk'[c] = chunk[c]
    BY <1>7, ChunkNumbers DEF ScheduleChunk, PlaceInv
  <2> QED BY <2>1, <2>2
<1>8. ASSUME NEW c \in Chunks, DownloadChunk(c) PROVE MarksInv'
  BY <1>8 DEF DownloadChunk, MoveChunk
<1>9. ASSUME NEW c \in Chunks, MarkStatus(c) PROVE MarksInv'
  <2>1. progress \in Marks
    BY <1>9 DEF MarkStatus, FileInv
  <2>2. \A d \in Chunks \ {c} : progress'[d] = progress[d] /\ chunk'[d] = chunk[d]
    BY <1>9, <2>1 DEF MarkStatus, MoveChunk, Marks
  <2>3. chunk'[c] = "markMd5" /\ synced' = synced /\ progress # NoFile
    BY <1>9, <2>1, ResumableAssumption DEF MarkStatus, MoveChunk
  <2> QED BY <2>2, <2>3
<1>10. ASSUME NEW c \in Chunks, MarkMd5(c) PROVE MarksInv'
  <2>1. progress \in Marks
    BY <1>10 DEF MarkMd5, FileInv
  <2>2. \A d \in Chunks \ {c} : progress'[d] = progress[d] /\ chunk'[d] = chunk[d]
    BY <1>10, <2>1 DEF MarkMd5, MoveChunk, Marks
  <2>3. progress'[c].md5 = source /\ synced' = synced /\ progress # NoFile
    BY <1>10, <2>1, ResumableAssumption DEF MarkMd5, FileInv, Marks
  <2> QED BY <2>2, <2>3
<1>11. ASSUME NEW c \in Chunks, ReportChunkDone(c) PROVE MarksInv'
  BY <1>11 DEF ReportChunkDone, MoveChunk
<1>12. CASE EnterEpilogue
  BY <1>12 DEF EnterEpilogue
<1>13. CASE FinalizeFile
  BY <1>13 DEF FinalizeFile
<1>14. CASE Rename
  BY <1>14 DEF Rename
<1>15. CASE DeleteProgress
  BY <1>15 DEF DeleteProgress
<1>16. CASE Complete
  BY <1>16 DEF Complete
<1>17. CASE Report
  BY <1>17 DEF Report
<1>18. CASE Cancel
  BY <1>18 DEF Cancel
<1>19. CASE Kill
  BY <1>19 DEF Kill, Dies, MayDie
<1>20. CASE PowerFailure
  <2> DEFINE old == IF synced = NoFile THEN NewProgress ELSE synced
  <2>1. \A c \in Chunks : old[c].done => old[c].md5 \in Versions
    BY DEF NewProgress, NewEntry
  <2>2. progress # NoFile =>
            \A c \in Chunks : progress[c].done => progress[c].md5 \in Versions
    BY <1>20 DEF PowerFailure, MayDie
  <2>3. \/ progress' \in {progress, NoFile}
        \/ /\ progress # NoFile
           /\ progress' \in {[c \in Chunks |-> IF c \in lost THEN old[c] ELSE progress[c]] :
                               lost \in SUBSET Chunks}
    BY <1>20 DEF PowerFailure
  <2>4. synced' = synced
    BY <1>20 DEF PowerFailure
  <2> HIDE DEF old
  <2>5. progress' # NoFile =>
            \A c \in Chunks : progress'[c].done => progress'[c].md5 \in Versions
    BY <2>1, <2>2, <2>3
  <2> QED BY <2>4, <2>5
<1> QED BY <1>1, <1>2, <1>3, <1>4, <1>5, <1>6, <1>7, <1>8, <1>9, <1>10, <1>11, <1>12, <1>13,
           <1>14, <1>15, <1>16, <1>17, <1>18, <1>19, <1>20
        DEF RDNext, DownloadStep, ChunkStep

(* Every step keeps it that all chunks are pending.                        *)
LEMMA PendingStep ==
    ASSUME StageInv, MarksInv, PendingInv, RDNext
    PROVE  PendingInv'
<1>0. RDTypeOK /\ PlaceInv /\ FileInv
  BY DEF StageInv
<1> USE <1>0, ResumableAssumption, ChunkPlaces
    DEF RDTypeOK, PendingInv, planVars, diskVars, EpilogueFrame, GetPendingChunks
<1>1. CASE StartProcess
  BY <1>1 DEF StartProcess
<1>2. CASE CreateDestinationFile
  BY <1>2 DEF CreateDestinationFile
<1>3. CASE Prologue
  BY <1>3 DEF Prologue
<1>4. CASE OpenChunkProgressFile
  BY <1>4 DEF OpenChunkProgressFile
<1>5. CASE VerifyCompletedChunks
  <2>1. progress # NoFile /\ temp = Empty /\ \A c \in Chunks : chunk[c] = "idle"
    BY <1>5 DEF VerifyCompletedChunks, FileInv
  <2>2. \A c \in Chunks : progress[c].done => ~VerifyChunkIntegrity(c)
    BY <2>1 DEF MarksInv, VerifyChunkIntegrity, Empty
  <2>3. mode' = "resumable" => pending' = Chunks
    BY <1>5, <2>2 DEF VerifyCompletedChunks
  <2> QED BY <1>5, <2>3 DEF VerifyCompletedChunks
<1>6. CASE CreateChunkProgressFile
  BY <1>6 DEF CreateChunkProgressFile
<1>7. CASE ScheduleChunk
  BY <1>7 DEF ScheduleChunk
<1>8. ASSUME NEW c \in Chunks, DownloadChunk(c) PROVE PendingInv'
  BY <1>8 DEF DownloadChunk, MoveChunk
<1>9. ASSUME NEW c \in Chunks, MarkStatus(c) PROVE PendingInv'
  BY <1>9 DEF MarkStatus, MoveChunk
<1>10. ASSUME NEW c \in Chunks, MarkMd5(c) PROVE PendingInv'
  BY <1>10 DEF MarkMd5, MoveChunk
<1>11. ASSUME NEW c \in Chunks, ReportChunkDone(c) PROVE PendingInv'
  BY <1>11 DEF ReportChunkDone, MoveChunk
<1>12. CASE EnterEpilogue
  BY <1>12 DEF EnterEpilogue
<1>13. CASE FinalizeFile
  BY <1>13 DEF FinalizeFile
<1>14. CASE Rename
  BY <1>14 DEF Rename
<1>15. CASE DeleteProgress
  BY <1>15 DEF DeleteProgress
<1>16. CASE Complete
  BY <1>16 DEF Complete
<1>17. CASE Report
  BY <1>17 DEF Report
<1>18. CASE Cancel
  BY <1>18 DEF Cancel
<1>19. CASE Kill
  BY <1>19 DEF Kill, Dies
<1>20. CASE PowerFailure
  BY <1>20 DEF PowerFailure, Dies
<1> QED BY <1>1, <1>2, <1>3, <1>4, <1>5, <1>6, <1>7, <1>8, <1>9, <1>10, <1>11, <1>12, <1>13,
           <1>14, <1>15, <1>16, <1>17, <1>18, <1>19, <1>20
        DEF RDNext, DownloadStep, ChunkStep

(* Every step keeps what is known of the contents.                         *)
LEMMA ContentStep ==
    ASSUME StageInv, PendingInv, ContentInv, RDNext
    PROVE  ContentInv'
<1>0. RDTypeOK /\ PlaceInv /\ FileInv
  BY DEF StageInv
<1> USE <1>0, ResumableAssumption, ChunkPlaces
    DEF RDTypeOK, ContentInv, planVars, diskVars, EpilogueFrame, SetStatus, FailActiveDownload,
        Dead, IsDelivered, FinalFilesAreWhole
<1>1. CASE StartProcess
  BY <1>1 DEF StartProcess
<1>2. CASE CreateDestinationFile
  BY <1>2 DEF CreateDestinationFile
<1>3. CASE Prologue
  BY <1>3 DEF Prologue
<1>4. CASE OpenChunkProgressFile
  BY <1>4 DEF OpenChunkProgressFile
<1>5. CASE VerifyCompletedChunks
  BY <1>5 DEF VerifyCompletedChunks
<1>6. CASE CreateChunkProgressFile
  BY <1>6 DEF CreateChunkProgressFile
<1>7. CASE ScheduleChunk
  <2>1. chunk' = [chunk EXCEPT ![nextChunk] = "queued"]
    BY <1>7, ChunkNumbers DEF ScheduleChunk, PendingInv, PlaceInv
  <2>2. \A c \in Chunks : chunk'[c] \in {"count", "done"} => chunk[c] = chunk'[c]
    BY <2>1
  <2> QED BY <1>7, <2>2 DEF ScheduleChunk
<1>8. ASSUME NEW c \in Chunks, DownloadChunk(c) PROVE ContentInv'
  <2>1. temp \in Contents /\ source \in Versions
    BY <1>8 DEF DownloadChunk, FileInv
  <2>2. ~ctxDone' => /\ temp'[c] = source
                     /\ \A d \in Chunks \ {c} : temp'[d] = temp[d] /\ chunk'[d] = chunk[d]
    BY <1>8, <2>1 DEF DownloadChunk, MoveChunk, Contents
  <2>3. pc' \in {"schedule", "chunks"} /\ UNCHANGED <<pc, final, source, sourceHasMd5>>
    BY <1>8 DEF DownloadChunk
  <2>4. status' # "Success" /\ (~ctxDone' => ~ctxDone)
    BY <1>8 DEF DownloadChunk, FileInv
  <2> QED BY <2>2, <2>3, <2>4
<1>9. ASSUME NEW c \in Chunks, MarkStatus(c) PROVE ContentInv'
  BY <1>9 DEF MarkStatus, MoveChunk
<1>10. ASSUME NEW c \in Chunks, MarkMd5(c) PROVE ContentInv'
  <2>1. \A d \in Chunks :
            chunk'[d] \in {"count", "done"} => chunk[d] = chunk'[d] \/ temp[d] = source
    BY <1>10 DEF MarkMd5, MoveChunk, FileInv
  <2> QED BY <1>10, <2>1 DEF MarkMd5
<1>11. ASSUME NEW c \in Chunks, ReportChunkDone(c) PROVE ContentInv'
  BY <1>11 DEF ReportChunkDone, MoveChunk
<1>12. CASE EnterEpilogue
  BY <1>12 DEF EnterEpilogue
<1>13. CASE FinalizeFile
  <2>1. pc' = "rename" => ~ctxDone /\ (sourceHasMd5 => temp = Whole(PlanVersion))
    BY <1>13 DEF FinalizeFile
  <2>2. pc' = "rename" => temp = Whole(source)
    <3>1. ~ctxDone => \A c \in Chunks : temp[c] = source
      BY <1>13 DEF FinalizeFile, PlaceInv
    <3>2. temp \in Contents
      BY <1>13 DEF FinalizeFile, FileInv
    <3> QED BY <2>1, <3>1, <3>2 DEF Contents, Whole
  <2>3. pc' \in {"rename", "complete"} /\ (pc' = "complete" => ctxDone' \/ Dead)
    BY <1>13 DEF FinalizeFile
  <2> QED BY <1>13, <2>1, <2>2, <2>3 DEF FinalizeFile, FileInv
<1>14. CASE Rename
  BY <1>14 DEF Rename
<1>15. CASE DeleteProgress
  BY <1>15 DEF DeleteProgress
<1>16. CASE Complete
  BY <1>16 DEF Complete
<1>17. CASE Report
  BY <1>17 DEF Report
<1>18. CASE Cancel
  BY <1>18 DEF Cancel
<1>19. CASE Kill
  BY <1>19 DEF Kill, Dies
<1>20. CASE PowerFailure
  BY <1>20 DEF PowerFailure, Dies
<1> QED BY <1>1, <1>2, <1>3, <1>4, <1>5, <1>6, <1>7, <1>8, <1>9, <1>10, <1>11, <1>12, <1>13,
           <1>14, <1>15, <1>16, <1>17, <1>18, <1>19, <1>20
        DEF RDNext, DownloadStep, ChunkStep

-----------------------------------------------------------------------------
(* Before the first process there is nothing.                              *)
LEMMA InitKept == RDInit => KeptInv
<1> SUFFICES ASSUME RDInit PROVE KeptInv
  OBVIOUS
<1> USE ChunkNumbers, ResumableAssumption DEF RDInit
<1>1. PlanVersion \in Versions
  BY DEF PlanVersion
<1>2. PlaceInv /\ FileInv
  BY DEF PlaceInv, FileInv
<1>3. nextChunk = Cardinality({c \in Chunks : chunk[c] # "idle"})
  BY <1>2, ChunksBefore DEF PlaceInv
<1>4. RDTypeOK
  <2>1. /\ source \in Versions /\ runs \in 0 .. MaxRuns /\ reports \in 0 .. 2
        /\ nextChunk \in 0 .. ChunkCount /\ pending \subseteq Chunks
    BY <1>1
  <2>2. chunk \in [Chunks -> {"idle", "queued", "mark", "markMd5", "count", "done"}]
    OBVIOUS
  <2>3. sourceHasMd5 \in BOOLEAN
    OBVIOUS
  <2> QED BY <1>3, <2>1, <2>2, <2>3 DEF RDTypeOK
<1>5. MarksInv /\ PendingInv /\ ContentInv
  BY DEF MarksInv, PendingInv, ContentInv, FinalFilesAreWhole
<1> QED BY <1>2, <1>4, <1>5 DEF KeptInv, StageInv

(* Every step keeps what holds wherever a process dies.                    *)
LEMMA StageStep == StageInv /\ [RDNext]_rdVars => StageInv'
<1>1. StageInv /\ RDNext => StageInv'
  BY TypeStep, PlaceStep, FileStep DEF StageInv
<1>2. StageInv /\ UNCHANGED rdVars => StageInv'
  BY DEF StageInv, RDTypeOK, PlaceInv, FileInv, Dead, rdVars
<1> QED BY <1>1, <1>2

(* Every step keeps the invariant when marks are not torn.                 *)
LEMMA KeptStep == ~TornMarks /\ KeptInv /\ [RDNext]_rdVars => KeptInv'
<1>1. ~TornMarks /\ KeptInv /\ RDNext => KeptInv'
  BY StageStep, MarksStep, PendingStep, ContentStep DEF KeptInv
<1>2. KeptInv /\ UNCHANGED rdVars => KeptInv'
  <2>1. StageInv /\ UNCHANGED rdVars => StageInv'
    BY StageStep
  <2>2. MarksInv /\ UNCHANGED rdVars => MarksInv'
    BY DEF MarksInv, rdVars
  <2>3. PendingInv /\ UNCHANGED rdVars => PendingInv'
    BY DEF PendingInv, GetPendingChunks, rdVars
  <2>4. ContentInv /\ UNCHANGED rdVars => ContentInv'
    BY DEF ContentInv, IsDelivered, Dead, FinalFilesAreWhole, rdVars
  <2> QED BY <2>1, <2>2, <2>3, <2>4 DEF KeptInv
<1> QED BY <1>1, <1>2

(* The plan's status, the files and the chunks stay what they can be,      *)
(* wherever a process dies.                                                *)
THEOREM TypeCorrect == RDSpec => []RDTypeOK
<1>1. RDInit => StageInv
  BY InitKept DEF KeptInv
<1>2. StageInv => RDTypeOK
  BY DEF StageInv
<1> QED BY <1>1, <1>2, StageStep, PTL DEF RDSpec

(* No partial file with progress is given up, neither by a failure nor by  *)
(* a cancellation nor by a death, and no process leaves a file that no     *)
(* later one could take up (commonDownloaderCompletion and the epilogue).  *)
THEOREM ProgressIsKept == RDSpec => PartialIsKept /\ []NoOrphans
<1>1. RDInit => StageInv
  BY InitKept DEF KeptInv
<1>2. StageInv => NoOrphans
  BY DEF StageInv, FileInv, NoOrphans
<1>3. StageInv /\ [RDNext]_rdVars =>
          [temp # NoFile /\ temp' = NoFile => final' = temp \/ progress = NoFile]_rdVars
  <2> SUFFICES ASSUME StageInv, RDNext, temp # NoFile, temp' = NoFile
               PROVE  final' = temp \/ progress = NoFile
    OBVIOUS
  <2>1. Empty # NoFile
    <3>1. Empty \in Contents
      BY DEF Empty, Contents
    <3> QED BY <3>1, ResumableAssumption
  <2>2. temp \in Contents
    BY DEF StageInv, RDTypeOK
  <2>3. \A c \in Chunks : ~DownloadChunk(c)
    <3> SUFFICES ASSUME NEW c \in Chunks, DownloadChunk(c) PROVE FALSE
      OBVIOUS
    <3>1. temp' \in Contents
      BY <2>2 DEF DownloadChunk, Contents, StageInv, RDTypeOK
    <3> QED BY <3>1, ResumableAssumption
  <2>4. ~PowerFailure
    <3> SUFFICES ASSUME PowerFailure PROVE FALSE
      OBVIOUS
    <3>1. temp' \in Contents
      BY <2>2 DEF PowerFailure, Contents
    <3> QED BY <3>1, ResumableAssumption
  <2> USE DEF planVars, diskVars, EpilogueFrame
  <2>5. CASE Rename \/ Complete
    BY <2>5 DEF Rename, Complete
  <2>6. ~ChunkStep
    BY <2>3 DEF ChunkStep, MarkStatus, MarkMd5, ReportChunkDone
  <2>7. ~(StartProcess \/ Cancel \/ Kill)
    BY DEF StartProcess, Cancel, Kill
  <2>8. DownloadStep => Rename \/ Complete
    BY <2>1
    DEF DownloadStep, CreateDestinationFile, Prologue, OpenChunkProgressFile,
        VerifyCompletedChunks, CreateChunkProgressFile, ScheduleChunk, EnterEpilogue,
        FinalizeFile, DeleteProgress, Report
  <2> QED BY <2>4, <2>5, <2>6, <2>7, <2>8 DEF RDNext
<1>4. RDSpec => []StageInv
  BY <1>1, StageStep, PTL DEF RDSpec
<1> QED BY <1>2, <1>3, <1>4, PTL DEF RDSpec, PartialIsKept

(* What is delivered is whole and is what the process that says so has     *)
(* found, for any number of chunks and processes, changes of the source    *)
(* and deaths, if no process dies between the two stores of                *)
(* MarkChunkComplete.                                                      *)
THEOREM DownloadInvHolds ==
    ASSUME ~TornMarks
    PROVE  RDSpec => []DownloadInv
<1>1. KeptInv /\ [RDNext]_rdVars => KeptInv'
  BY KeptStep
<1>2. KeptInv => DownloadInv
  BY DEF KeptInv, StageInv, FileInv, ContentInv, IsDelivered, DownloadInv, NoOrphans,
         SuccessMeansDelivered, PlanHashIsHonoured
<1> QED BY <1>1, <1>2, InitKept, PTL DEF RDSpec

-----------------------------------------------------------------------------
(* Console.                                                                *)

Prompts ==
    [at : {"none", "asked", "signalling", "awaiting"}, question : Nat, answered : Nat]
OutMessages ==
    [type : {"prompt"}, whom : Speakers] \cup [type : {"exit"}, whom : {"success", "error"}]

ConsoleTypes ==
    /\ kind \in CommandKinds
    /\ job \in {"running", "cancelling", "completed", "cancelled"}
    /\ settled \in [Askers -> {"no", "overwrite", "skip", "cancelled"}]
    /\ lock \in Askers \cup {"free"} /\ asking \in Speakers \cup {"none"}
    /\ prompt \in [Speakers -> Prompts] /\ printed \in Nat
    /\ msgQueue \in Seq(OutMessages) /\ Len(msgQueue) <= MsgRoom
    /\ inputQueue \in Seq(Nat) /\ cancelChannel \in 0 .. 1
    /\ exit \in {"none", "success", "error"}

(* The question of s is in the queue or on the screen. *)
InQueue(s) == \E i \in 1 .. Len(msgQueue) : msgQueue[i].type = "prompt" /\ msgQueue[i].whom = s
IsOutstanding(s) == InQueue(s) \/ asking = s

(* A question is printed once, and not before it is asked or after it is   *)
(* answered.                                                               *)
QuestionInv ==
    /\ \A s \in Speakers :
           /\ prompt[s].at \in {"none", "asked"} => prompt[s].answered = 0
           /\ IsOutstanding(s) =>
                  prompt[s].answered = 0 /\ prompt[s].at \in {"signalling", "awaiting"}
           /\ ~(InQueue(s) /\ asking = s)
    /\ \A i, j \in 1 .. Len(msgQueue) :
           msgQueue[i].type = "prompt" /\ msgQueue[j] = msgQueue[i] => i = j
    /\ AnswersComeAfterTheirQuestion

(* Whoever asks whether to overwrite holds the lock. *)
AskerInv ==
    /\ \A t \in Askers : prompt[t].at # "none" => lock = t /\ shouldPromptUser
    /\ reporterAt # "asking" => prompt[Reporter].at = "none"

(* What is on its way to the end of the process tells the outcome. *)
TellsTheOutcome(code) == code = "success" /\ kind = "copy" => job = "completed"
EndInv ==
    /\ \A i \in 1 .. Len(msgQueue) :
           msgQueue[i].type = "exit" => TellsTheOutcome(msgQueue[i].whom)
    /\ TellsTheOutcome(exit)

ConInv == ConsoleTypes /\ QuestionInv /\ AskerInv /\ EndInv

-----------------------------------------------------------------------------
(* The queue when a message is put in and when one is taken out. *)
LEMMA Said ==
    ASSUME msgQueue \in Seq(OutMessages), NEW type, NEW whom,
           [type |-> type, whom |-> whom] \in OutMessages, Say(type, whom)
    PROVE  /\ msgQueue' \in Seq(OutMessages) /\ Len(msgQueue') = Len(msgQueue) + 1
           /\ Len(msgQueue) \in Nat
           /\ \A i \in 1 .. Len(msgQueue') :
                  msgQueue'[i] = IF i = Len(msgQueue) + 1 THEN [type |-> type, whom |-> whom]
                                 ELSE msgQueue[i]
BY DEF Say

(* What is left of a sequence when its head is taken out. *)
LEMMA TakenOut ==
    ASSUME msgQueue \in Seq(OutMessages), msgQueue # <<>>, msgQueue' = Tail(msgQueue)
    PROVE  /\ msgQueue' \in Seq(OutMessages) /\ Len(msgQueue') = Len(msgQueue) - 1
           /\ Len(msgQueue) \in Nat \ {0}
           /\ Head(msgQueue) = msgQueue[1] /\ msgQueue[1] \in OutMessages
           /\ \A i \in 1 .. Len(msgQueue') :
                  i + 1 \in 1 .. Len(msgQueue) /\ msgQueue'[i] = msgQueue[i + 1]
OBVIOUS

(* A prompt stays one. *)
LEMMA PromptType ==
    ASSUME NEW p \in Prompts, NEW n \in Nat,
           NEW where \in {"none", "asked", "signalling", "awaiting"}
    PROVE  /\ [p EXCEPT !.at = where] \in Prompts /\ [p EXCEPT !.question = n] \in Prompts
           /\ [p EXCEPT !.answered = n] \in Prompts
BY DEF Prompts

(* Every step keeps the types. *)
LEMMA ConsoleTypesStep ==
    ASSUME ConsoleTypes, CNNext
    PROVE  ConsoleTypes'
<1> USE ConsoleAssumption
        DEF ConsoleTypes, jobVars, prompterVars, outVars, inVars, Speakers
<1>1. ASSUME NEW s \in Speakers, Ask(s) PROVE ConsoleTypes'
  <2>1. [type |-> "prompt", whom |-> s] \in OutMessages
    BY DEF OutMessages
  <2>2. msgQueue' \in Seq(OutMessages) /\ Len(msgQueue') <= MsgRoom
    BY <1>1, <2>1, Said DEF Ask, HasRoom
  <2>3. prompt' \in [Speakers -> Prompts]
    <3>1. [prompt[s] EXCEPT !.at = "signalling"] \in Prompts
      BY PromptType
    <3> QED BY <1>1, <3>1 DEF Ask
  <2> QED BY <1>1, <2>2, <2>3 DEF Ask
<1>2. CASE PrintMessage
  <2>1. msgQueue' \in Seq(OutMessages) /\ Len(msgQueue') <= MsgRoom
    BY <1>2, TakenOut DEF PrintMessage
  <2>2. Head(msgQueue) \in OutMessages
    BY <1>2, TakenOut DEF PrintMessage
  <2>3. CASE Head(msgQueue).type = "prompt" /\ ~quiet
    <3>1. Head(msgQueue).whom \in Speakers
      BY <2>2, <2>3 DEF OutMessages
    <3>2. printed + 1 \in Nat
            /\ [prompt[Head(msgQueue).whom] EXCEPT !.question = printed + 1] \in Prompts
      <4>1. printed + 1 \in Nat /\ prompt[Head(msgQueue).whom] \in Prompts
        BY <3>1
      <4> QED BY <4>1, PromptType
    <3>3. /\ prompt' = [prompt EXCEPT ![Head(msgQueue).whom].question = printed + 1]
          /\ printed' = printed + 1
      BY <1>2, <2>3 DEF PrintMessage
    <3>4. prompt' \in [Speakers -> Prompts]
      BY <3>1, <3>2, <3>3
    <3> QED BY <1>2, <2>1, <2>3, <3>1, <3>2, <3>3, <3>4 DEF PrintMessage
  <2>4. CASE ~(Head(msgQueue).type = "prompt" /\ ~quiet)
    <3>1. exit' \in {"none", "success", "error"}
      BY <1>2, <2>2, <2>4 DEF PrintMessage, OutMessages
    <3> QED BY <1>2, <2>1, <2>4, <3>1 DEF PrintMessage
  <2> QED BY <2>3, <2>4
<1>3. CASE GetInputAfterTime
  <2>1. inputQueue' \in Seq(Nat) /\ Head(inputQueue) \in Nat
    BY <1>3 DEF GetInputAfterTime
  <2>2. prompt' \in [Speakers -> Prompts] /\ asking' \in Speakers \cup {"none"}
    <3>1. CASE Head(inputQueue) >= prompt[asking].question
      <4>1. asking \in Speakers /\ Head(inputQueue) + 1 \in Nat
        BY <1>3, <2>1 DEF GetInputAfterTime
      <4>2. [prompt[asking] EXCEPT !.answered = Head(inputQueue) + 1] \in Prompts
        BY <4>1, PromptType
      <4>3. prompt' = [prompt EXCEPT ![asking].answered = Head(inputQueue) + 1] /\ asking' = "none"
        BY <1>3, <3>1 DEF GetInputAfterTime
      <4> QED BY <4>1, <4>2, <4>3
    <3>2. CASE ~(Head(inputQueue) >= prompt[asking].question)
      BY <1>3, <3>2 DEF GetInputAfterTime
    <3> QED BY <3>1, <3>2
  <2> QED BY <1>3, <2>1, <2>2 DEF GetInputAfterTime
<1>4. CASE ReadLine
  <2>1. ASSUME NEW s \in Speakers, prompt' = [prompt EXCEPT ![s].at = "awaiting"],
               inputQueue' = Append(inputQueue, printed)
        PROVE  prompt' \in [Speakers -> Prompts] /\ inputQueue' \in Seq(Nat)
    <3>1. [prompt[s] EXCEPT !.at = "awaiting"] \in Prompts
      BY PromptType
    <3> QED BY <2>1, <3>1
  <2>2. prompt' \in [Speakers -> Prompts] /\ inputQueue' \in Seq(Nat)
    BY <1>4, <2>1 DEF ReadLine
  <2> QED BY <1>4, <2>2 DEF ReadLine
<1>5. CASE PassOnCancel
  BY <1>5 DEF PassOnCancel
<1>6. CASE UserStep
  BY <1>6 DEF UserStep, UserAnswers, UserTypes, Interrupt
<1>7. CASE TakeCancel
  <2>1. prompt' \in [Speakers -> Prompts]
    <3>1. Reporter \in Speakers /\ [prompt[Reporter] EXCEPT !.at = "asked"] \in Prompts
      BY PromptType
    <3> QED BY <1>7, <3>1 DEF TakeCancel
  <2> QED BY <1>7, <2>1 DEF TakeCancel
<1>8. CASE CancelAnswered
  <2>1. prompt' \in [Speakers -> Prompts]
    BY <1>8 DEF CancelAnswered, Prompts, NoPrompt
  <2> QED BY <1>8, <2>1 DEF CancelAnswered
<1>9. CASE CancelJob
  <2>1. [type |-> "exit", whom |-> "error"] \in OutMessages
    BY DEF OutMessages
  <2>2. msgQueue' \in Seq(OutMessages) /\ Len(msgQueue') <= MsgRoom
    BY <1>9, <2>1, Said DEF CancelJob, HasRoom
  <2> QED BY <1>9, <2>2 DEF CancelJob
<1>10. CASE ReportProgressOrExit
  <2>1. [type |-> "exit", whom |-> ExitCode] \in OutMessages
    BY DEF OutMessages, ExitCode
  <2>2. msgQueue' \in Seq(OutMessages) /\ Len(msgQueue') <= MsgRoom
    BY <1>10, <2>1, Said DEF ReportProgressOrExit, HasRoom
  <2> QED BY <1>10, <2>2 DEF ReportProgressOrExit
<1>11. ASSUME NEW t \in Askers, ShouldOverwrite(t) PROVE ConsoleTypes'
  <2>1. prompt' \in [Speakers -> Prompts]
    <3>1. t \in Speakers /\ [prompt[t] EXCEPT !.at = "asked"] \in Prompts
      BY PromptType
    <3> QED BY <1>11, <3>1 DEF ShouldOverwrite
  <2> QED BY <1>11, <2>1 DEF ShouldOverwrite
<1>12. ASSUME NEW t \in Askers, OverwriteAnswered(t) PROVE ConsoleTypes'
  <2>1. prompt' \in [Speakers -> Prompts]
    BY <1>12 DEF OverwriteAnswered, Prompts, NoPrompt
  <2> QED BY <1>12, <2>1 DEF OverwriteAnswered
<1>13. ASSUME NEW t \in Askers, TransferIsCancelled(t) PROVE ConsoleTypes'
  BY <1>13 DEF TransferIsCancelled
<1>14. CASE EnumerationCompletes \/ JobEnds
  BY <1>14 DEF EnumerationCompletes, JobEnds
<1> QED BY <1>1, <1>2, <1>3, <1>4, <1>5, <1>6, <1>7, <1>8, <1>9, <1>10, <1>11, <1>12, <1>13, <1>14
        DEF CNNext, ReporterStep, PrinterStep, WatcherStep, TransferStep

(* The questions in the queue when a message is put in and taken out. *)
LEMMA QueueGrows ==
    ASSUME msgQueue \in Seq(OutMessages), NEW type, NEW whom,
           [type |-> type, whom |-> whom] \in OutMessages, Say(type, whom),
           \A i, j \in 1 .. Len(msgQueue) :
               msgQueue[i].type = "prompt" /\ msgQueue[j] = msgQueue[i] => i = j,
           type = "prompt" => ~InQueue(whom)
    PROVE  /\ \A s : InQueue(s)' <=> InQueue(s) \/ (type = "prompt" /\ s = whom)
           /\ \A i, j \in 1 .. Len(msgQueue') :
                  msgQueue'[i].type = "prompt" /\ msgQueue'[j] = msgQueue'[i] => i = j
<1> DEFINE m == [type |-> type, whom |-> whom]
<1>1. /\ Len(msgQueue') = Len(msgQueue) + 1 /\ Len(msgQueue) \in Nat
      /\ \A i \in 1 .. Len(msgQueue) : msgQueue'[i] = msgQueue[i]
      /\ msgQueue'[Len(msgQueue) + 1] = m
  BY Said
<1>2. m.type = type /\ m.whom = whom
  OBVIOUS
<1> HIDE DEF m
<1>3. ASSUME NEW s PROVE InQueue(s)' <=> InQueue(s) \/ (type = "prompt" /\ s = whom)
  BY <1>1, <1>2 DEF InQueue
<1>4. ASSUME NEW i \in 1 .. Len(msgQueue'), NEW j \in 1 .. Len(msgQueue'),
             msgQueue'[i].type = "prompt", msgQueue'[j] = msgQueue'[i]
      PROVE  i = j
  <2>1. ASSUME NEW k \in 1 .. Len(msgQueue), type = "prompt" PROVE msgQueue[k] # m
    BY <2>1, <1>2 DEF InQueue
  <2> QED BY <1>1, <1>2, <1>4, <2>1
<1> QED BY <1>3, <1>4

(* Taking a message out of the queue puts no question in. *)
LEMMA QueueShrinks ==
    ASSUME msgQueue \in Seq(OutMessages), msgQueue # <<>>, msgQueue' = Tail(msgQueue),
           \A i, j \in 1 .. Len(msgQueue) :
               msgQueue[i].type = "prompt" /\ msgQueue[j] = msgQueue[i] => i = j
    PROVE  /\ \A s : InQueue(s)' => InQueue(s)
           /\ \A s : Head(msgQueue).type = "prompt" /\ s = Head(msgQueue).whom =>
                  InQueue(s) /\ ~InQueue(s)'
           /\ \A i, j \in 1 .. Len(msgQueue') :
                  msgQueue'[i].type = "prompt" /\ msgQueue'[j] = msgQueue'[i] => i = j
<1>1. /\ Len(msgQueue') = Len(msgQueue) - 1 /\ Len(msgQueue) \in Nat \ {0}
      /\ Head(msgQueue) = msgQueue[1]
      /\ \A i \in 1 .. Len(msgQueue) : msgQueue[i] \in OutMessages
      /\ \A i \in 1 .. Len(msgQueue') :
             i + 1 \in 1 .. Len(msgQueue) /\ msgQueue'[i] = msgQueue[i + 1]
  BY TakenOut
<1>2. \A s : InQueue(s)' => InQueue(s)
  BY <1>1 DEF InQueue
<1>3. ASSUME NEW s, Head(msgQueue).type = "prompt", s = Head(msgQueue).whom
      PROVE  InQueue(s) /\ ~InQueue(s)'
  <2>1. InQueue(s)
    BY <1>1, <1>3 DEF InQueue
  <2>2. ASSUME NEW i \in 1 .. Len(msgQueue'), msgQueue'[i].type = "prompt",
               msgQueue'[i].whom = s
        PROVE  FALSE
    <3>1. /\ i + 1 \in 1 .. Len(msgQueue) /\ 1 \in 1 .. Len(msgQueue)
          /\ msgQueue[i + 1].type = "prompt" /\ msgQueue[i + 1].whom = msgQueue[1].whom
          /\ msgQueue[1].type = "prompt"
      BY <1>1, <1>3, <2>2
    <3>2. msgQueue[i + 1] = msgQueue[1]
      BY <1>1, <3>1 DEF OutMessages
    <3>3. i + 1 = 1
      BY <3>1, <3>2
    <3> QED BY <3>3
  <2>3. ~InQueue(s)'
    BY <2>2 DEF InQueue
  <2> QED BY <2>1, <2>3
<1>4. ASSUME NEW i \in 1 .. Len(msgQueue'), NEW j \in 1 .. Len(msgQueue'),
             msgQueue'[i].type = "prompt", msgQueue'[j] = msgQueue'[i]
      PROVE  i = j
  BY <1>1, <1>4
<1> QED BY <1>2, <1>3, <1>4

(* Every question is asked, printed and answered in turn. *)
LEMMA QuestionStep ==
    ASSUME ConsoleTypes, QuestionInv, AskerInv, CNNext
    PROVE  QuestionInv'
<1> DEFINE Quiet(s) ==
        /\ prompt[s].at \in {"none", "asked"} => prompt[s].answered = 0
        /\ IsOutstanding(s) =>
               prompt[s].answered = 0 /\ prompt[s].at \in {"signalling", "awaiting"}
        /\ ~(InQueue(s) /\ asking = s)
        /\ prompt[s].answered > 0 => prompt[s].answered > prompt[s].question
<1> DEFINE Unique == \A i, j \in 1 .. Len(msgQueue) :
                        msgQueue[i].type = "prompt" /\ msgQueue[j] = msgQueue[i] => i = j
<1>a. (\A s \in Speakers : Quiet(s)) /\ Unique
  BY DEF QuestionInv, AnswersComeAfterTheirQuestion
<1>b. ASSUME \A s \in Speakers : Quiet(s)', Unique' PROVE QuestionInv'
  BY <1>b DEF QuestionInv, AnswersComeAfterTheirQuestion
<1>c. /\ msgQueue \in Seq(OutMessages) /\ prompt \in [Speakers -> Prompts]
      /\ printed \in Nat /\ inputQueue \in Seq(Nat) /\ asking \in Speakers \cup {"none"}
      /\ "none" \notin Speakers
  BY ConsoleAssumption DEF ConsoleTypes, Speakers
<1>d. \A s \in Speakers : prompt[s].answered \in Nat /\ prompt[s].question \in Nat
  BY <1>c DEF Prompts
<1>e. \A s \in Speakers : UNCHANGED msgQueue => (InQueue(s)' <=> InQueue(s))
  BY DEF InQueue
<1>f. UNCHANGED msgQueue => Unique'
  BY <1>a
<1> HIDE DEF Unique
<1>1. ASSUME NEW s \in Speakers, Ask(s) PROVE QuestionInv'
  <2>1. /\ Say("prompt", s) /\ UNCHANGED asking
        /\ prompt' = [prompt EXCEPT ![s].at = "signalling"] /\ prompt[s].at = "asked"
    BY <1>1 DEF Ask
  <2>2. [type |-> "prompt", whom |-> s] \in OutMessages
    BY DEF OutMessages
  <2>3. ~InQueue(s) /\ asking # s
    BY <1>a, <2>1 DEF IsOutstanding
  <2>4. (\A u : InQueue(u)' <=> InQueue(u) \/ u = s) /\ Unique'
    BY <1>a, <1>c, <2>1, <2>2, <2>3, QueueGrows DEF Unique
  <2>5. ASSUME NEW u \in Speakers PROVE Quiet(u)'
    <3>1. CASE u = s
      <4>1. /\ prompt'[s].at = "signalling" /\ prompt'[s].answered = prompt[s].answered
            /\ prompt'[s].question = prompt[s].question
        BY <1>c, <2>1 DEF Prompts
      <4> QED BY <1>a, <2>1, <2>3, <2>4, <3>1, <4>1 DEF IsOutstanding
    <3>2. CASE u # s
      BY <1>a, <1>c, <2>1, <2>4, <3>2 DEF IsOutstanding
    <3> QED BY <3>1, <3>2
  <2> QED BY <1>b, <2>4, <2>5
<1>2. CASE PrintMessage
  <2>1. msgQueue # <<>> /\ msgQueue' = Tail(msgQueue) /\ asking = "none"
    BY <1>2 DEF PrintMessage
  <2>2. /\ \A u : InQueue(u)' => InQueue(u)
        /\ \A u : Head(msgQueue).type = "prompt" /\ u = Head(msgQueue).whom =>
               InQueue(u) /\ ~InQueue(u)'
        /\ Unique'
    BY <1>a, <1>c, <2>1, QueueShrinks DEF Unique
  <2>3. CASE Head(msgQueue).type = "prompt" /\ ~quiet
    <3>1. Head(msgQueue) \in OutMessages
      BY <1>c, <2>1, TakenOut
    <3>2. PICK w \in Speakers : w = Head(msgQueue).whom
      BY <2>3, <3>1 DEF OutMessages
    <3>3. asking' = w /\ prompt' = [prompt EXCEPT ![w].question = printed + 1]
      BY <1>2, <2>3, <3>2 DEF PrintMessage
    <3>4. InQueue(w) /\ ~InQueue(w)'
      BY <2>2, <2>3, <3>2
    <3>5. ASSUME NEW u \in Speakers PROVE Quiet(u)'
      <4>1. CASE u = w
        <5>1. prompt'[w].at = prompt[w].at /\ prompt'[w].answered = prompt[w].answered
          BY <1>c, <3>3 DEF Prompts
        <5> QED BY <1>a, <3>3, <3>4, <4>1, <5>1 DEF IsOutstanding
      <4>2. CASE u # w
        <5>1. prompt'[u] = prompt[u] /\ asking' # u
          BY <1>c, <3>3, <4>2
        <5> QED BY <1>a, <2>2, <5>1 DEF IsOutstanding
      <4> QED BY <4>1, <4>2
    <3> QED BY <1>b, <2>2, <3>5
  <2>4. CASE ~(Head(msgQueue).type = "prompt" /\ ~quiet)
    <3>1. UNCHANGED <<asking, prompt>>
      BY <1>2, <2>4 DEF PrintMessage
    <3>2. ASSUME NEW u \in Speakers PROVE Quiet(u)'
      BY <1>a, <2>2, <3>1 DEF IsOutstanding
    <3> QED BY <1>b, <2>2, <3>2
  <2> QED BY <2>3, <2>4
<1>3. CASE GetInputAfterTime
  <2>1. UNCHANGED msgQueue /\ asking \in Speakers /\ Head(inputQueue) \in Nat
    BY <1>3, <1>c DEF GetInputAfterTime
  <2>2. CASE Head(inputQueue) >= prompt[asking].question
    <3>1. /\ prompt' = [prompt EXCEPT ![asking].answered = Head(inputQueue) + 1]
          /\ asking' = "none"
      BY <1>3, <2>2 DEF GetInputAfterTime
    <3>2. ASSUME NEW u \in Speakers PROVE Quiet(u)'
      <4>1. CASE u = asking
        <5>1. /\ prompt'[u].at = prompt[u].at /\ prompt'[u].question = prompt[u].question
              /\ prompt'[u].answered = Head(inputQueue) + 1
          BY <1>c, <3>1, <4>1 DEF Prompts
        <5>2. ~InQueue(u)' /\ asking' # u /\ prompt[u].at \in {"signalling", "awaiting"}
          BY <1>a, <1>c, <1>e, <2>1, <3>1, <4>1 DEF IsOutstanding
        <5>3. Head(inputQueue) + 1 > prompt[u].question
          BY <1>d, <2>1, <2>2, <4>1
        <5> QED BY <5>1, <5>2, <5>3 DEF IsOutstanding
      <4>2. CASE u # asking
        <5>1. prompt'[u] = prompt[u] /\ asking' # u /\ (InQueue(u)' <=> InQueue(u))
          BY <1>c, <1>e, <2>1, <3>1, <4>2
        <5> QED BY <1>a, <5>1 DEF IsOutstanding
      <4> QED BY <4>1, <4>2
    <3> QED BY <1>b, <1>f, <2>1, <3>2
  <2>3. CASE ~(Head(inputQueue) >= prompt[asking].question)
    <3>1. UNCHANGED <<prompt, asking>>
      BY <1>3, <2>3 DEF GetInputAfterTime
    <3>2. ASSUME NEW u \in Speakers PROVE Quiet(u)'
      BY <1>a, <1>e, <2>1, <3>1 DEF IsOutstanding
    <3> QED BY <1>b, <1>f, <2>1, <3>2
  <2> QED BY <2>2, <2>3
<1>4. ASSUME NEW s \in Speakers, UNCHANGED <<msgQueue, asking>>, ~IsOutstanding(s),
             prompt'[s].answered = 0, \A u \in Speakers \ {s} : prompt'[u] = prompt[u]
      PROVE  QuestionInv'
  <2>1. ASSUME NEW u \in Speakers PROVE Quiet(u)'
    <3>1. InQueue(u)' <=> InQueue(u)
      BY <1>4, <1>e
    <3>2. CASE u = s
      BY <1>4, <3>1, <3>2 DEF IsOutstanding
    <3>3. CASE u # s
      BY <1>a, <1>4, <3>1, <3>3 DEF IsOutstanding
    <3> QED BY <3>2, <3>3
  <2> QED BY <1>b, <1>f, <1>4, <2>1
<1>5. CASE UNCHANGED <<prompt, asking>> /\ UNCHANGED msgQueue
  <2>1. ASSUME NEW u \in Speakers PROVE Quiet(u)'
    BY <1>a, <1>e, <1>5 DEF IsOutstanding
  <2> QED BY <1>b, <1>f, <1>5, <2>1
<1>6. CASE ReadLine
  <2>1. UNCHANGED <<msgQueue, asking>>
    BY <1>6 DEF ReadLine, outVars
  <2>2. ASSUME NEW s \in Speakers, prompt[s].at = "signalling",
               prompt' = [prompt EXCEPT ![s].at = "awaiting"]
        PROVE  QuestionInv'
    <3>1. ASSUME NEW u \in Speakers PROVE Quiet(u)'
      <4>1. InQueue(u)' <=> InQueue(u)
        BY <2>1, <1>e
      <4>2. CASE u = s
        <5>1. /\ prompt'[u].at = "awaiting" /\ prompt'[u].answered = prompt[u].answered
              /\ prompt'[u].question = prompt[u].question
          BY <1>c, <2>2, <4>2 DEF Prompts
        <5> QED BY <1>a, <2>1, <4>1, <5>1 DEF IsOutstanding
      <4>3. CASE u # s
        <5>1. prompt'[u] = prompt[u]
          BY <1>c, <2>2, <4>3
        <5> QED BY <1>a, <2>1, <4>1, <5>1 DEF IsOutstanding
      <4> QED BY <4>2, <4>3
    <3> QED BY <1>b, <1>f, <2>1, <3>1
  <2> QED BY <1>5, <1>6, <2>1, <2>2 DEF ReadLine
<1>7. CASE TakeCancel
  <2>1. UNCHANGED <<msgQueue, asking>> /\ Reporter \in Speakers /\ prompt[Reporter].at = "none"
    BY <1>7 DEF TakeCancel, outVars, Speakers, AskerInv
  <2>2. CASE UNCHANGED prompt
    BY <1>5, <2>1, <2>2
  <2>3. CASE prompt' = [prompt EXCEPT ![Reporter].at = "asked"]
    <3>1. /\ prompt'[Reporter].answered = prompt[Reporter].answered
          /\ \A u \in Speakers \ {Reporter} : prompt'[u] = prompt[u]
      BY <1>c, <2>1, <2>3 DEF Prompts
    <3>2. prompt[Reporter].answered = 0 /\ ~IsOutstanding(Reporter)
      BY <1>a, <2>1
    <3> QED BY <1>4, <2>1, <3>1, <3>2
  <2> QED BY <1>7, <2>2, <2>3 DEF TakeCancel
<1>8. ASSUME NEW s \in Speakers, IsAnswered(s), prompt' = [prompt EXCEPT ![s] = NoPrompt],
             UNCHANGED <<msgQueue, asking>>
      PROVE  QuestionInv'
  <2>1. ~IsOutstanding(s)
    BY <1>8, <1>a, <1>d DEF IsAnswered
  <2>2. prompt'[s].answered = 0 /\ \A u \in Speakers \ {s} : prompt'[u] = prompt[u]
    BY <1>8, <1>c DEF NoPrompt
  <2> QED BY <1>4, <1>8, <2>1, <2>2
<1>9. CASE CancelAnswered
  BY <1>8, <1>9 DEF CancelAnswered, outVars, Speakers
<1>10. ASSUME NEW code \in {"success", "error"}, Say("exit", code), UNCHANGED <<asking, prompt>>
       PROVE  QuestionInv'
  <2>1. [type |-> "exit", whom |-> code] \in OutMessages
    BY DEF OutMessages
  <2>2. (\A u : InQueue(u)' <=> InQueue(u)) /\ Unique'
    BY <1>a, <1>c, <1>10, <2>1, QueueGrows DEF Unique
  <2>3. ASSUME NEW u \in Speakers PROVE Quiet(u)'
    BY <1>a, <1>10, <2>2 DEF IsOutstanding
  <2> QED BY <1>b, <2>2, <2>3
<1>11. CASE CancelJob
  BY <1>5, <1>10, <1>11 DEF CancelJob
<1>12. CASE ReportProgressOrExit
  <2>1. PICK code \in {"success", "error"} : code = ExitCode
    BY DEF ExitCode
  <2> QED BY <1>10, <1>12, <2>1 DEF ReportProgressOrExit
<1>13. ASSUME NEW t \in Askers, ShouldOverwrite(t) PROVE QuestionInv'
  <2>1. UNCHANGED <<msgQueue, asking>> /\ t \in Speakers /\ prompt[t].at = "none"
    BY <1>13 DEF ShouldOverwrite, outVars, Speakers
  <2>2. CASE UNCHANGED prompt
    BY <1>5, <2>1, <2>2
  <2>3. CASE prompt' = [prompt EXCEPT ![t].at = "asked"]
    <3>1. /\ prompt'[t].answered = prompt[t].answered
          /\ \A u \in Speakers \ {t} : prompt'[u] = prompt[u]
      BY <1>c, <2>1, <2>3 DEF Prompts
    <3>2. prompt[t].answered = 0 /\ ~IsOutstanding(t)
      BY <1>a, <2>1
    <3> QED BY <1>4, <2>1, <3>1, <3>2
  <2> QED BY <1>13, <2>2, <2>3 DEF ShouldOverwrite
<1>14. ASSUME NEW t \in Askers, OverwriteAnswered(t) PROVE QuestionInv'
  BY <1>8, <1>14 DEF OverwriteAnswered, outVars, Speakers
<1>15. CASE \/ PassOnCancel \/ UserStep \/ EnumerationCompletes \/ JobEnds
            \/ \E t \in Askers : TransferIsCancelled(t)
  <2>1. UNCHANGED <<prompt, asking>> /\ UNCHANGED msgQueue
    BY <1>15 DEF PassOnCancel, UserStep, UserAnswers, UserTypes, Interrupt, EnumerationCompletes,
       JobEnds, TransferIsCancelled, outVars
  <2> QED BY <1>5, <2>1
<1> QED BY <1>1, <1>2, <1>3, <1>6, <1>7, <1>9, <1>11, <1>12, <1>13, <1>14, <1>15
        DEF CNNext, ReporterStep, PrinterStep, WatcherStep, TransferStep

(* The lock of the prompter is held around the whole question. *)
LEMMA AskerStep ==
    ASSUME ConsoleTypes, AskerInv, CNNext
    PROVE  AskerInv'
<1> DEFINE Alone(t) == prompt[t].at # "none" => lock = t /\ shouldPromptUser
<1>a. /\ \A t \in Askers : Alone(t)
      /\ reporterAt # "asking" => prompt[Reporter].at = "none"
  BY DEF AskerInv
<1>b. /\ prompt \in [Speakers -> Prompts] /\ Askers \subseteq Speakers /\ Reporter \in Speakers
      /\ Reporter \notin Askers /\ "free" \notin Askers
  BY ConsoleAssumption DEF ConsoleTypes, Speakers
<1>1. CASE /\ UNCHANGED <<lock, shouldPromptUser, reporterAt>>
           /\ \A s \in Speakers : prompt'[s].at = "none" <=> prompt[s].at = "none"
  BY <1>1, <1>a, <1>b DEF AskerInv
<1>2. CASE \E s \in Speakers : Ask(s)
  <2>1. \A s \in Speakers : prompt'[s].at = "none" <=> prompt[s].at = "none"
    BY <1>2, <1>b DEF Ask, Prompts
  <2> QED BY <1>1, <1>2, <2>1 DEF Ask, prompterVars
<1>3. CASE PrintMessage
  <2>1. \A s \in Speakers : prompt'[s].at = "none" <=> prompt[s].at = "none"
    BY <1>3, <1>b DEF PrintMessage, Prompts
  <2> QED BY <1>1, <1>3, <2>1 DEF PrintMessage, prompterVars
<1>4. CASE GetInputAfterTime
  <2>1. \A s \in Speakers : prompt'[s].at = "none" <=> prompt[s].at = "none"
    BY <1>4, <1>b DEF GetInputAfterTime, Prompts
  <2> QED BY <1>1, <1>4, <2>1 DEF GetInputAfterTime, prompterVars
<1>5. CASE ReadLine
  <2>1. \A s \in Speakers : prompt'[s].at = "none" <=> prompt[s].at = "none"
    BY <1>5, <1>b DEF ReadLine, Prompts
  <2> QED BY <1>1, <1>5, <2>1 DEF ReadLine, prompterVars
<1>6. CASE TakeCancel
  <2>1. /\ \A t \in Askers : prompt'[t] = prompt[t]
        /\ reporterAt' # "asking" => prompt'[Reporter].at = "none"
    BY <1>6, <1>a, <1>b DEF TakeCancel
  <2> QED BY <1>6, <1>a, <2>1 DEF TakeCancel, AskerInv, prompterVars
<1>7. CASE CancelAnswered
  <2>1. (\A t \in Askers : prompt'[t] = prompt[t]) /\ prompt'[Reporter].at = "none"
    BY <1>7, <1>b DEF CancelAnswered, NoPrompt
  <2> QED BY <1>7, <1>a, <2>1 DEF CancelAnswered, AskerInv, prompterVars
<1>8. CASE CancelJob \/ ReportProgressOrExit
  BY <1>8, <1>a DEF CancelJob, ReportProgressOrExit, AskerInv, prompterVars
<1>9. ASSUME NEW t \in Askers, ShouldOverwrite(t) PROVE AskerInv'
  <2>1. \A u \in Askers : prompt[u].at = "none"
    BY <1>9, <1>a, <1>b DEF ShouldOverwrite
  <2>2. \A u \in Speakers \ {t} : prompt'[u] = prompt[u]
    BY <1>9, <1>b DEF ShouldOverwrite
  <2>3. prompt'[t].at # "none" => lock' = t /\ shouldPromptUser'
    BY <1>9, <2>1 DEF ShouldOverwrite
  <2>4. UNCHANGED reporterAt
    BY <1>9 DEF ShouldOverwrite
  <2> QED BY <1>a, <1>b, <2>1, <2>2, <2>3, <2>4 DEF AskerInv
<1>10. ASSUME NEW t \in Askers, OverwriteAnswered(t) PROVE AskerInv'
  <2>1. \A u \in Askers \ {t} : prompt[u].at = "none"
    BY <1>10, <1>a DEF OverwriteAnswered, IsAnswered
  <2>2. (\A u \in Speakers \ {t} : prompt'[u] = prompt[u]) /\ prompt'[t].at = "none"
    BY <1>10, <1>b DEF OverwriteAnswered, NoPrompt
  <2>3. UNCHANGED reporterAt
    BY <1>10 DEF OverwriteAnswered
  <2> QED BY <1>a, <1>b, <2>1, <2>2, <2>3 DEF AskerInv
<1>11. CASE \/ PassOnCancel \/ UserStep \/ EnumerationCompletes \/ JobEnds
            \/ \E t \in Askers : TransferIsCancelled(t)
  BY <1>11, <1>1
  DEF PassOnCancel, UserStep, UserAnswers, UserTypes, Interrupt, EnumerationCompletes,
      JobEnds, TransferIsCancelled, prompterVars
<1> QED BY <1>2, <1>3, <1>4, <1>5, <1>6, <1>7, <1>8, <1>9, <1>10, <1>11
        DEF CNNext, ReporterStep, PrinterStep, WatcherStep, TransferStep

(* The process ends with what became of the job. *)
LEMMA EndStep ==
    ASSUME ConsoleTypes, EndInv, CNNext
    PROVE  EndInv'
<1>a. /\ msgQueue \in Seq(OutMessages) /\ UNCHANGED kind
      /\ job = "completed" => job' = "completed"
  BY DEF ConsoleTypes, CNNext, ReporterStep, PrinterStep, WatcherStep, TransferStep, UserStep,
     TakeCancel, CancelAnswered, CancelJob, ReportProgressOrExit, PrintMessage,
     GetInputAfterTime, ReadLine, PassOnCancel, UserAnswers, UserTypes, Interrupt, JobIsDone,
     EnumerationCompletes, JobEnds, ShouldOverwrite, OverwriteAnswered, TransferIsCancelled,
     Ask, jobVars
<1>b. \A code : TellsTheOutcome(code) => TellsTheOutcome(code)'
  BY <1>a DEF TellsTheOutcome
<1>1. CASE UNCHANGED <<msgQueue, exit>>
  BY <1>1, <1>b DEF EndInv
<1>2. ASSUME NEW type, NEW whom, [type |-> type, whom |-> whom] \in OutMessages,
             Say(type, whom), type = "exit" => TellsTheOutcome(whom), UNCHANGED exit
      PROVE  EndInv'
  <2>1. ASSUME NEW i \in 1 .. Len(msgQueue'), msgQueue'[i].type = "exit"
        PROVE  TellsTheOutcome(msgQueue'[i].whom)
    BY <1>2, <1>a, <2>1, Said DEF EndInv
  <2> QED BY <1>2, <1>b, <2>1 DEF EndInv
<1>3. CASE PrintMessage
  <2>1. Head(msgQueue).type = "exit" => TellsTheOutcome(Head(msgQueue).whom)
    BY <1>3, <1>a, TakenOut DEF PrintMessage, EndInv
  <2>2. TellsTheOutcome(exit')
    BY <1>3, <2>1 DEF PrintMessage, EndInv
  <2>3. \A i \in 1 .. Len(msgQueue') :
            msgQueue'[i].type = "exit" => TellsTheOutcome(msgQueue'[i].whom)
    BY <1>3, <1>a, TakenOut DEF PrintMessage, EndInv
  <2> QED BY <1>b, <2>2, <2>3 DEF EndInv
<1>4. ASSUME NEW s \in Speakers, Ask(s) PROVE EndInv'
  <2>1. [type |-> "prompt", whom |-> s] \in OutMessages
    BY DEF OutMessages
  <2> QED BY <1>2, <1>4, <2>1 DEF Ask
<1>5. CASE CancelJob
  <2>1. [type |-> "exit", whom |-> "error"] \in OutMessages /\ TellsTheOutcome("error")
    BY DEF OutMessages, TellsTheOutcome
  <2> QED BY <1>1, <1>2, <1>5, <2>1 DEF CancelJob
<1>6. CASE ReportProgressOrExit
  <2>1. PICK code \in {"success", "error"} : code = ExitCode
    BY DEF ExitCode
  <2>2. [type |-> "exit", whom |-> code] \in OutMessages /\ TellsTheOutcome(code)
    BY <1>6, <2>1 DEF OutMessages, TellsTheOutcome, ExitCode, ReportProgressOrExit, JobIsDone
  <2> QED BY <1>2, <1>6, <2>1, <2>2 DEF ReportProgressOrExit
<1>7. CASE \/ GetInputAfterTime \/ ReadLine \/ PassOnCancel \/ UserStep \/ TakeCancel
           \/ CancelAnswered \/ EnumerationCompletes \/ JobEnds
           \/ \E t \in Askers : TransferStep(t)
  BY <1>1, <1>7
  DEF GetInputAfterTime, ReadLine, PassOnCancel, UserStep, UserAnswers, UserTypes, Interrupt,
      TakeCancel, CancelAnswered, EnumerationCompletes, JobEnds, TransferStep, ShouldOverwrite,
      OverwriteAnswered, TransferIsCancelled, outVars
<1> QED BY <1>3, <1>4, <1>5, <1>6, <1>7 DEF CNNext, ReporterStep, PrinterStep, WatcherStep

-----------------------------------------------------------------------------
(* The dialogue begins with nothing asked. *)
LEMMA InitConsole == CNInit => ConInv
<1> SUFFICES ASSUME CNInit PROVE ConInv
  OBVIOUS
<1> USE ConsoleAssumption DEF CNInit, NoPrompt, Speakers
<1>1. ConsoleTypes
  <2>1. prompt \in [Speakers -> Prompts]
    BY DEF Prompts
  <2> QED BY <2>1 DEF ConsoleTypes
<1>2. \A s : ~InQueue(s)
  BY DEF InQueue
<1>3. QuestionInv
  BY <1>2 DEF QuestionInv, IsOutstanding, AnswersComeAfterTheirQuestion
<1>4. AskerInv /\ EndInv
  BY DEF AskerInv, EndInv, TellsTheOutcome
<1> QED BY <1>1, <1>3, <1>4 DEF ConInv

(* ConInv is inductive. *)
LEMMA ConsoleStep == ConInv /\ [CNNext]_cnVars => ConInv'
<1>1. ConInv /\ CNNext => ConInv'
  BY ConsoleTypesStep, QuestionStep, AskerStep, EndStep DEF ConInv
<1>2. ConInv /\ UNCHANGED cnVars => ConInv'
  BY DEF ConInv, ConsoleTypes, QuestionInv, AskerInv, EndInv, InQueue, IsOutstanding,
     AnswersComeAfterTheirQuestion, TellsTheOutcome,
     cnVars, jobVars, prompterVars, outVars, inVars
<1> QED BY <1>1, <1>2

(* For any number of transfers that ask, of lines and of interrupts, and   *)
(* any capacity of msgQueue: an answer comes after its question, at most   *)
(* one transfer asks at a time and none after an answer for all, and a     *)
(* copy that says it succeeded was not cancelled.                          *)
THEOREM ConsoleInvHolds == CNSpec => []ConsoleInv
<1>1. ConInv => ConsoleInv
  <2> SUFFICES ASSUME ConInv PROVE ConsoleInv
    OBVIOUS
  <2>1. {t \in Askers : prompt[t].at # "none"} \in {{}, {lock}}
    BY DEF ConInv, AskerInv
  <2>2. Cardinality({t \in Askers : prompt[t].at # "none"}) \in {0, 1}
    BY <2>1, FS_EmptySet, FS_Singleton
  <2>3. CNTypeOK
    BY <2>2 DEF ConInv, ConsoleTypes, CNTypeOK
  <2>4. AnswersComeAfterTheirQuestion /\ NoQuestionAfterAnswerForAll /\ SuccessIsNotCancelled
    BY DEF ConInv, QuestionInv, AskerInv, EndInv, TellsTheOutcome, NoQuestionAfterAnswerForAll,
       SuccessIsNotCancelled
  <2> QED BY <2>3, <2>4 DEF ConsoleInv
<1> QED BY <1>1, InitConsole, ConsoleStep, PTL DEF CNSpec

-----------------------------------------------------------------------------
(* ResumeJob.                                                              *)

TransfersOfPart(p) == {x \in JobTransfer : x[1] = p}
IsQueued(p) == \E i \in 1 .. Len(queue) : queue[i] = p

(* The process has no transfers yet: it is over, or still reads and resets *)
(* the plan.                                                               *)
IsBefore == command \in {"down", "resetStatus", "resetTransfers"}

(* Parts whose transfers the scheduler has come to, and those transfers.   *)
Taken(p) == ~IsBefore /\ p \in 0 .. partsKnown - 1 /\ ~IsQueued(p) /\ p \notin toQueue
IsScheduled(x) == Taken(x[1]) /\ (x[1] = current => x[2] < nextTx)

Summaries == [completed : Nat, skipped : Nat, failed : Nat, completeJobOrdered : BOOLEAN]

ResumeTypes ==
    /\ partFiles \in 0 .. JobParts
    /\ jobStatus \in SettledStatuses \cup {"InProgress", "Cancelling", "Cancelled"}
    /\ txStatus \in [JobTransfer -> {"Started", "Success", "Failed", "Skipped", "Cancelled"}]
    /\ processes \in 1 .. (IF MaxProcesses > 1 THEN MaxProcesses ELSE 1)
    /\ command \in {"createPlan", "addPart", "resetStatus", "resetTransfers", "queueParts",
                    "poll", "down"}
    /\ partsKnown \in 0 .. partFiles /\ current \in -1 .. partsKnown - 1
    /\ haveFinalPart \in BOOLEAN /\ jobCancelled \in BOOLEAN
    /\ queue \in Seq(PartNum) /\ toQueue \subseteq PartNum
    /\ nextTx \in Nat /\ doneOfPart \in [PartNum -> Nat]
    /\ txPc \in [JobTransfer -> {"idle", "queued", "settled", "sent", "reported"}]
    /\ toSend \subseteq ({"scheduler", "transfer"} \X PartNum) \cup {CancelMessage}
    /\ handler \in {"idle", "lookUpPart0", "drain"} /\ partsReported \in Nat
    /\ unhandled \subseteq JobTransfer
    /\ summary \in Summaries

(* How far the front end is with the parts, and what a process begins with.*)
FrontEndInv ==
    /\ command = "createPlan" => partsKnown = partFiles /\ partFiles < JobParts
    /\ command = "addPart" => partsKnown + 1 = partFiles
    /\ command \in {"resetStatus", "resetTransfers", "queueParts", "poll"} => partsKnown = JobParts
    /\ haveFinalPart => partsKnown = JobParts
    /\ IsBefore =>
           /\ queue = <<>> /\ toQueue = {} /\ current = -1 /\ nextTx = 0
           /\ ~jobCancelled /\ toSend = {} /\ handler = "idle" /\ partsReported = 0
           /\ unhandled = {}
    /\ jobCancelled => jobStatus \in {"Cancelling", "Cancelled"}
    /\ command \notin {"down", "resetStatus"} /\ ~jobCancelled =>
           jobStatus \in SettledStatuses \cup {"InProgress"}
    /\ command = "resetTransfers" => jobStatus = "InProgress"

(* A part is queued once. *)
PartsInv ==
    /\ \A i, j \in 1 .. Len(queue) : queue[i] = queue[j] => i = j
    /\ \A i \in 1 .. Len(queue) : queue[i] \in 0 .. partsKnown - 1 /\ queue[i] \notin toQueue
    /\ toQueue \subseteq 0 .. partsKnown - 1
    /\ IF current = -1 THEN nextTx = 0
       ELSE Taken(current) /\ nextTx <= PartTransfers[current]

TxInv(x) ==
    /\ txPc[x] # "idle" => IsScheduled(x)
    /\ txPc[x] = "idle" /\ IsScheduled(x) => txStatus[x] = "Success"
    /\ txPc[x] = "queued" => txStatus[x] # "Success"
    /\ txPc[x] \in {"settled", "sent", "reported"} => txStatus[x] # "Started"
    /\ ~IsBefore /\ txPc[x] = "idle" => txStatus[x] \in {"Started", "Success"}
    /\ x \in unhandled => txPc[x] \in {"sent", "reported"}

(* A part counts its transfers that were reported to it. *)
IsCounted(x) == IsScheduled(x) /\ txPc[x] \in {"idle", "reported"}
CountedOf(p) == {x \in TransfersOfPart(p) : IsCounted(x)}
DoneInv == \A p \in PartNum : doneOfPart[p] = Cardinality(CountedOf(p))

(* Every finished part is reported once. *)
Finished == {p \in PartNum : doneOfPart[p] = PartTransfers[p]}
Messages == partsReported + (IF handler = "lookUpPart0" THEN 1 ELSE 0) + Cardinality(toSend)
ReportInv ==
    /\ \A report \in toSend : IF report = CancelMessage THEN jobCancelled
                              ELSE report[2] \in Finished
    /\ Messages <= Cardinality(Finished) + (IF jobCancelled THEN 1 ELSE 0)
    /\ ~jobCancelled /\ jobStatus = "InProgress" => Messages = Cardinality(Finished)
    /\ handler = "drain" /\ ~jobCancelled => Finished = PartNum /\ partsKnown = JobParts

(* The summary has the outcomes that the status manager has handled, and   *)
(* the successes of earlier processes.                                     *)
InSummary(x) == txPc[x] \in {"sent", "reported"} /\ x \notin unhandled
HandledWith(s) == {x \in JobTransfer : InSummary(x) /\ txStatus[x] = s}
Successes == {x \in JobTransfer : txStatus[x] = "Success" /\ (txPc[x] = "idle" \/ InSummary(x))}
SummaryInv ==
    /\ command # "down" => summary.completed = Cardinality(Successes)
    /\ command \notin {"down", "resetStatus"} => summary.failed = Cardinality(HandledWith("Failed"))
    /\ summary.skipped >= Cardinality(HandledWith("Skipped"))

(* What is settled stays so. *)
SettledInv ==
    /\ SettledJobHasNothingPending
    /\ jobStatus \in SettledStatuses /\ command \notin {"down", "resetStatus"} =>
           /\ \A x \in JobTransfer : txPc[x] \in {"idle", "reported"}
           /\ unhandled = {} /\ Finished = PartNum

ResInv ==
    /\ ResumeTypes /\ FrontEndInv /\ PartsInv /\ (\A x \in JobTransfer : TxInv(x))
    /\ DoneInv /\ ReportInv /\ SummaryInv /\ SettledInv

-----------------------------------------------------------------------------
(* Parts and their transfers. *)
LEMMA PartNumbers ==
    /\ IsFiniteSet(PartNum) /\ Cardinality(PartNum) = JobParts
    /\ \A p \in PartNum : PartTransfers[p] \in Nat \ {0}
<1>1. IsFiniteSet(PartNum) /\ Cardinality(PartNum) = JobParts
  BY ResumeAssumption, FS_Interval DEF PartNum
<1>2. \A p \in PartNum : PartTransfers[p] \in Nat \ {0}
  BY ResumeAssumption DEF PartNum
<1> QED BY <1>1, <1>2

(* A transfer is a part and a number within it. *)
LEMMA JobTransferShape ==
    /\ \A x \in JobTransfer : /\ x[1] \in PartNum /\ x[2] \in 0 .. PartTransfers[x[1]] - 1
                              /\ x = <<x[1], x[2]>>
    /\ \A p \in PartNum : \A i \in 0 .. PartTransfers[p] - 1 : <<p, i>> \in JobTransfer
<1>1. ASSUME NEW x \in JobTransfer
      PROVE  x[1] \in PartNum /\ x[2] \in 0 .. PartTransfers[x[1]] - 1 /\ x = <<x[1], x[2]>>
  <2>1. PICK p \in PartNum : x \in {p} \X (0 .. (PartTransfers[p] - 1))
    BY DEF JobTransfer
  <2> QED BY <2>1
<1>2. ASSUME NEW p \in PartNum, NEW i \in 0 .. PartTransfers[p] - 1
      PROVE  <<p, i>> \in JobTransfer
  BY DEF JobTransfer
<1> QED BY <1>1, <1>2

(* A part has as many transfers as its plan says. *)
LEMMA PartTransfersCount ==
    ASSUME NEW p \in PartNum
    PROVE  IsFiniteSet(TransfersOfPart(p)) /\ Cardinality(TransfersOfPart(p)) = PartTransfers[p]
<1> DEFINE Index == 0 .. (PartTransfers[p] - 1)
<1>1. PartTransfers[p] \in Nat \ {0}
  BY PartNumbers
<1>2. IsFiniteSet(Index) /\ Cardinality(Index) = PartTransfers[p]
  <2>1. PartTransfers[p] - 1 \in Int /\ ~(0 > PartTransfers[p] - 1)
        /\ (PartTransfers[p] - 1) - 0 + 1 = PartTransfers[p]
    BY <1>1
  <2> QED BY <2>1, FS_Interval
<1>3. IsFiniteSet({p}) /\ Cardinality({p}) = 1
  BY FS_Singleton
<1>4. TransfersOfPart(p) = {p} \X Index
  BY JobTransferShape DEF TransfersOfPart
<1> HIDE DEF Index
<1>5. IsFiniteSet({p} \X Index) /\ Cardinality({p} \X Index) = 1 * PartTransfers[p]
  BY <1>2, <1>3, FS_Product
<1> QED BY <1>1, <1>4, <1>5

(* A job has finitely many transfers. *)
LEMMA JobTransferFinite == IsFiniteSet(JobTransfer)
<1> DEFINE Sets == {TransfersOfPart(p) : p \in PartNum}
           Of == [p \in PartNum |-> TransfersOfPart(p)]
<1>1. IsFiniteSet(Sets)
  <2>1. Of \in Surjection(PartNum, Sets)
    BY Fun_IsSurj
  <2> HIDE DEF Of, Sets
  <2> QED BY <2>1, PartNumbers, FS_Surjection
<1>2. \A T \in Sets : IsFiniteSet(T)
  BY PartTransfersCount
<1>3. JobTransfer = UNION Sets
  BY JobTransferShape DEF TransfersOfPart
<1> HIDE DEF Sets
<1> QED BY <1>1, <1>2, <1>3, FS_UNION

-----------------------------------------------------------------------------
(* A summary stays one. *)
LEMMA SummaryType ==
    ASSUME NEW s \in Summaries, NEW n \in Nat
    PROVE  /\ [s EXCEPT !.completed = n] \in Summaries /\ [s EXCEPT !.failed = n] \in Summaries
           /\ [s EXCEPT !.skipped = n] \in Summaries
BY DEF Summaries

(* Every step keeps the types. *)
LEMMA ResumeTypesStep ==
    ASSUME ResumeTypes, FrontEndInv, PartsInv, RJNext
    PROVE  ResumeTypes'
<1> USE ResumeAssumption DEF ResumeTypes, plan, manager, scheduler, counters, handlerState,
        statusManager
<1>1. CASE CreatePlanFile
  BY <1>1 DEF CreatePlanFile, FrontEndInv
<1>2. CASE AddNewJobPart
  <2>1. partsKnown \in PartNum /\ partsKnown' \in 0 .. partFiles
    BY <1>2, SMTT(30) DEF AddNewJobPart, FrontEndInv, PartNum
  <2>2. queue' \in Seq(PartNum)
    BY <1>2, <2>1 DEF AddNewJobPart
  <2>3. summary' \in Summaries
    BY <1>2 DEF AddNewJobPart, Summaries
  <2>4. command' \in {"poll", "createPlan"} /\ haveFinalPart' \in BOOLEAN
    BY <1>2 DEF AddNewJobPart
  <2>5. current' \in -1 .. partsKnown' - 1
    BY SMTT(30), <1>2 DEF AddNewJobPart
  <2>6. UNCHANGED <<plan, processes, jobCancelled, toQueue, nextTx, doneOfPart, txPc, toSend,
                    handler, partsReported, unhandled>>
    BY <1>2 DEF AddNewJobPart
  <2> HIDE DEF manager, scheduler, counters, handlerState, statusManager
  <2> QED BY <2>1, <2>2, <2>3, <2>4, <2>5, <2>6
<1>3. CASE SettleCancelling \/ RestartTransfer
  BY <1>3 DEF SettleCancelling, RestartTransfer
<1>4. CASE ResetJob
  <2>1. summary' \in Summaries
    BY <1>4 DEF ResetJob, Summaries
  <2> QED BY <1>4, <2>1 DEF ResetJob
<1>5. CASE RestartedAll
  <2>1. toQueue' \subseteq PartNum
    BY <1>5 DEF RestartedAll, PartNum
  <2> QED BY <1>5, <2>1 DEF RestartedAll
<1>6. CASE QueueResumedPart
  <2>1. queue' \in Seq(PartNum) /\ toQueue' \subseteq PartNum
    BY <1>6 DEF QueueResumedPart
  <2> QED BY <1>6, <2>1 DEF QueueResumedPart
<1>7. CASE QueuedAll
  BY <1>7 DEF QueuedAll
<1>8. CASE PollSummary \/ ProcessDies
  <2>1. summary' \in Summaries
    <3>1. NewSummary \in Summaries
      BY DEF NewSummary, Summaries
    <3> QED BY <1>8, <3>1 DEF PollSummary, ProcessDies, ForgetMemory
  <2>2. /\ UNCHANGED <<partFiles, jobStatus, txStatus, processes>> /\ command' = "down"
        /\ partsKnown' = 0 /\ haveFinalPart' = FALSE /\ jobCancelled' = FALSE
        /\ queue' = <<>> /\ toQueue' = {} /\ current' = -1 /\ nextTx' = 0
        /\ doneOfPart' = [p \in PartNum |-> 0] /\ txPc' = [x \in JobTransfer |-> "idle"]
        /\ toSend' = {} /\ handler' = "idle" /\ partsReported' = 0 /\ unhandled' = {}
    BY <1>8 DEF PollSummary, ProcessDies, ForgetMemory
  <2>3. /\ command' \in {"createPlan", "addPart", "resetStatus", "resetTransfers", "queueParts",
                         "poll", "down"}
        /\ partsKnown' \in 0 .. partFiles' /\ current' \in -1 .. partsKnown' - 1
        /\ haveFinalPart' \in BOOLEAN /\ jobCancelled' \in BOOLEAN
        /\ queue' \in Seq(PartNum) /\ toQueue' \subseteq PartNum
        /\ nextTx' \in Nat
    <3>1. 0 \in 0 .. partFiles /\ -1 \in -1 .. 0 - 1 /\ <<>> \in Seq(PartNum)
      OBVIOUS
    <3> QED BY <2>2, <3>1
  <2>4. /\ doneOfPart' \in [PartNum -> Nat]
        /\ txPc' \in [JobTransfer -> {"idle", "queued", "settled", "sent", "reported"}]
        /\ toSend' \subseteq ({"scheduler", "transfer"} \X PartNum) \cup {CancelMessage}
        /\ handler' \in {"idle", "lookUpPart0", "drain"} /\ partsReported' \in Nat
        /\ unhandled' \subseteq JobTransfer
    BY <2>2
  <2> QED BY <2>1, <2>2, <2>3, <2>4
<1>9. CASE ResurrectJob
  <2>1. summary' \in Summaries
    <3>1. \A s : CountIn(s) \in Nat
      BY JobTransferFinite, FS_Subset, FS_CardinalityType DEF CountIn
    <3> QED BY <1>9, <3>1 DEF ResurrectJob, ResurrectedSummary, Summaries
  <2>2. processes' \in 1 .. (IF MaxProcesses > 1 THEN MaxProcesses ELSE 1)
    BY <1>9 DEF ResurrectJob
  <2> QED BY <1>9, <2>1, <2>2 DEF ResurrectJob
<1>10. CASE CancelPauseJob
  <2>1. toSend' \subseteq ({"scheduler", "transfer"} \X PartNum) \cup {CancelMessage}
    BY <1>10 DEF CancelPauseJob
  <2> QED BY <1>10, <2>1 DEF CancelPauseJob
<1>11. CASE TakePart
  <2>1. /\ Head(queue) \in PartNum /\ queue' \in Seq(PartNum) /\ Head(queue) = queue[1]
        /\ 1 \in 1 .. Len(queue)
    BY <1>11, SMTT(30) DEF TakePart
  <2>2. current' \in -1 .. partsKnown' - 1
    <3>1. queue[1] \in 0 .. partsKnown - 1 /\ current' = queue[1] /\ UNCHANGED partsKnown
      BY <1>11, <2>1 DEF TakePart, PartsInv
    <3> QED BY <3>1
  <2>3. doneOfPart' \in [PartNum -> Nat] /\ nextTx' \in Nat
    BY <1>11, <2>1 DEF TakePart
  <2>4. UNCHANGED <<plan, processes, command, manager, toQueue, txPc, toSend, handlerState,
                    statusManager>>
    BY <1>11 DEF TakePart
  <2> QED BY <2>1, <2>2, <2>3, <2>4
<1>12. ASSUME NEW who \in {"scheduler", "transfer"}, NEW p \in PartNum, NEW s,
              CountInPart(who, p, s)
       PROVE  /\ doneOfPart' \in [PartNum -> Nat]
              /\ toSend' \subseteq ({"scheduler", "transfer"} \X PartNum) \cup {CancelMessage}
  BY <1>12 DEF CountInPart
<1>13. CASE ScheduleDone
  <2>1. current \in PartNum
    BY <1>13 DEF ScheduleDone, PartScheduled, PartNum
  <2> QED BY <1>12, <1>13, <2>1 DEF ScheduleDone
<1>14. CASE SchedulePending
  <2>1. /\ txPc' \in [JobTransfer -> {"idle", "queued", "settled", "sent", "reported"}]
        /\ nextTx' \in Nat
    <3>1. PICK x : txPc' = [txPc EXCEPT ![x] = "queued"]
      BY <1>14 DEF SchedulePending
    <3>2. nextTx' = nextTx + 1
      BY <1>14 DEF SchedulePending
    <3>3. nextTx' \in Nat
      BY <3>2
    <3> QED BY <3>1, <3>3
  <2> QED BY <1>14, <2>1 DEF SchedulePending
<1>15. ASSUME NEW x \in JobTransfer, RunTransfer(x) \/ SendXferDoneMsg(x) PROVE ResumeTypes'
  <2>1. txPc' \in [JobTransfer -> {"idle", "queued", "settled", "sent", "reported"}]
    BY <1>15 DEF RunTransfer, SendXferDoneMsg
  <2>2. unhandled' \subseteq JobTransfer
    BY <1>15 DEF RunTransfer, SendXferDoneMsg
  <2>3. txStatus' \in [JobTransfer -> {"Started", "Success", "Failed", "Skipped", "Cancelled"}]
    <3>1. \/ UNCHANGED txStatus
          \/ \E s \in TransferResults \cup {"Cancelled"} : txStatus' = [txStatus EXCEPT ![x] = s]
      BY <1>15 DEF RunTransfer, SendXferDoneMsg
    <3> QED BY <3>1
  <2> QED BY <1>15, <2>1, <2>2, <2>3, SMTT(30) DEF RunTransfer, SendXferDoneMsg
<1>16. ASSUME NEW x \in JobTransfer, ReportTransferDone(x) PROVE ResumeTypes'
  <2>1. x[1] \in PartNum
    BY JobTransferShape
  <2> QED BY <1>12, <1>16, <2>1 DEF ReportTransferDone
<1>17. CASE HandleXferDone
  <2>1. \A s : WithOutcome(summary, s) \in Summaries
    <3>1. summary.completed + 1 \in Nat /\ summary.failed + 1 \in Nat /\ summary.skipped + 1 \in Nat
      BY DEF Summaries
    <3> QED BY <3>1, SummaryType DEF WithOutcome
  <2> QED BY <1>17, <2>1 DEF HandleXferDone
<1>18. CASE HandlerProgress
  <2>1. jobStatus' \in SettledStatuses \cup {"InProgress", "Cancelling", "Cancelled"}
    BY <1>18 DEF HandlerProgress, ReportJobPartDone, CountPart, SettleJob, EnhancedStatus,
            SettledStatuses
  <2>2. /\ handler' \in {"idle", "lookUpPart0", "drain"} /\ partsReported' \in Nat
        /\ toSend' \subseteq toSend
    BY SMTT(30), <1>18 DEF HandlerProgress, ReportJobPartDone, CountPart, SettleJob
  <2>3. UNCHANGED <<partFiles, txStatus, processes, command, manager, scheduler, doneOfPart, txPc,
                    statusManager>>
    BY <1>18 DEF HandlerProgress, ReportJobPartDone, CountPart, SettleJob
  <2> QED BY <2>1, <2>2, <2>3
<1> QED BY <1>1, <1>2, <1>3, <1>4, <1>5, <1>6, <1>7, <1>8, <1>9, <1>10, <1>11, <1>13, <1>14,
           <1>15, <1>16, <1>17, <1>18
        DEF RJNext, FrontEndStep, ResumeStep, SchedulerStep, TxStep

(* Nothing runs in a process before its front end has queued a part.       *)
LEMMA NothingRunsBefore ==
    ASSUME FrontEndInv, PartsInv, \A x \in JobTransfer : TxInv(x), IsBefore
    PROVE  /\ ~SchedulerStep /\ ~HandleXferDone /\ ~HandlerProgress
           /\ \A x \in JobTransfer : ~TxStep(x)
<1>1. ~SchedulerStep
  BY DEF FrontEndInv, SchedulerStep, TakePart, ScheduleDone, SchedulePending, PartScheduled
<1>2. ~HandleXferDone /\ ~HandlerProgress
  BY DEF FrontEndInv, HandleXferDone, HandlerProgress, ReportJobPartDone, CountPart, SettleJob
<1>3. \A x \in JobTransfer : ~TxStep(x)
  BY DEF TxInv, IsScheduled, Taken, TxStep, RunTransfer, SendXferDoneMsg, ReportTransferDone
<1> QED BY <1>1, <1>2, <1>3

(* The front end orders the parts one after the other, and a process that  *)
(* resumes the job begins with all of them and nothing else                *)
(* (ResurrectJob).                                                         *)
LEMMA FrontEndInvStep ==
    ASSUME ResumeTypes, FrontEndInv, PartsInv, \A x \in JobTransfer : TxInv(x), RJNext
    PROVE  FrontEndInv'
<1> USE ResumeAssumption DEF FrontEndInv, plan, manager, scheduler, counters, handlerState,
        statusManager
<1>1. CASE CreatePlanFile
  BY <1>1 DEF CreatePlanFile, ResumeTypes, IsBefore
<1>2. CASE AddNewJobPart
  <2>1. /\ partsKnown' = partsKnown + 1 /\ partsKnown + 1 = partFiles /\ UNCHANGED partFiles
        /\ haveFinalPart' = (partsKnown + 1 = JobParts) /\ partFiles \in 0 .. JobParts
        /\ command' = IF partsKnown + 1 = JobParts THEN "poll" ELSE "createPlan"
        /\ UNCHANGED <<jobCancelled, jobStatus>> /\ command = "addPart"
    BY <1>2 DEF AddNewJobPart, ResumeTypes
  <2>2. haveFinalPart' => partsKnown' = JobParts
    BY <2>1
  <2>3. /\ command' = "poll" => partsKnown' = JobParts
        /\ command' = "createPlan" => partsKnown' = partFiles' /\ partFiles' < JobParts
        /\ command' \in {"poll", "createPlan"}
    BY <2>1
  <2>4. /\ jobCancelled' => jobStatus' \in {"Cancelling", "Cancelled"}
        /\ ~jobCancelled' => jobStatus' \in SettledStatuses \cup {"InProgress"}
    BY <2>1
  <2>5. ~IsBefore'
    BY <2>3 DEF IsBefore
  <2> QED BY <2>2, <2>3, <2>4, <2>5
<1>3. CASE SettleCancelling
  BY <1>3 DEF SettleCancelling, IsBefore
<1>4. CASE ResetJob
  BY <1>4 DEF ResetJob, IsBefore
<1>5. CASE RestartTransfer
  BY <1>5 DEF RestartTransfer, IsBefore
<1>6. CASE RestartedAll
  BY <1>6 DEF RestartedAll, IsBefore
<1>7. CASE QueueResumedPart
  BY <1>7 DEF QueueResumedPart, IsBefore
<1>8. CASE QueuedAll
  BY <1>8 DEF QueuedAll, IsBefore
<1>9. CASE PollSummary \/ ProcessDies
  <2>1. /\ command' = "down" /\ haveFinalPart' = FALSE /\ jobCancelled' = FALSE
        /\ queue' = <<>> /\ toQueue' = {} /\ current' = -1 /\ nextTx' = 0
        /\ toSend' = {} /\ handler' = "idle" /\ partsReported' = 0 /\ unhandled' = {}
    BY <1>9 DEF PollSummary, ProcessDies, ForgetMemory
  <2> QED BY <2>1
<1>10. CASE ResurrectJob
  BY <1>10 DEF ResurrectJob, IsBefore
<1>11. CASE CancelPauseJob
  BY <1>11 DEF CancelPauseJob, IsBefore
<1>12. CASE SchedulerStep
  <2>1. ~IsBefore
    BY <1>12, NothingRunsBefore
  <2>2. UNCHANGED <<plan, command, partsKnown, haveFinalPart, jobCancelled>>
    BY <1>12 DEF SchedulerStep, TakePart, ScheduleDone, SchedulePending
  <2> QED BY <2>1, <2>2 DEF IsBefore
<1>13. CASE HandleXferDone \/ \E x \in JobTransfer : TxStep(x)
  <2>1. ~IsBefore
    BY <1>13, NothingRunsBefore
  <2>2. UNCHANGED <<partFiles, jobStatus, command, partsKnown, haveFinalPart, jobCancelled>>
    BY <1>13 DEF HandleXferDone, TxStep, RunTransfer, SendXferDoneMsg, ReportTransferDone
  <2> QED BY <2>1, <2>2 DEF IsBefore
<1>14. CASE HandlerProgress
  <2>1. ~IsBefore
    BY <1>14, NothingRunsBefore
  <2>2. UNCHANGED <<partFiles, command, partsKnown, haveFinalPart, jobCancelled>>
    BY <1>14 DEF HandlerProgress, ReportJobPartDone, CountPart, SettleJob
  <2>3. /\ jobStatus \in {"Cancelling", "Cancelled"} => jobStatus' \in {"Cancelling", "Cancelled"}
        /\ jobStatus \in SettledStatuses \cup {"InProgress"} =>
               jobStatus' \in SettledStatuses \cup {"InProgress"}
    BY <1>14 DEF HandlerProgress, ReportJobPartDone, CountPart, SettleJob, EnhancedStatus,
            SettledStatuses
  <2> QED BY <2>1, <2>2, <2>3 DEF IsBefore
<1> QED BY <1>1, <1>2, <1>3, <1>4, <1>5, <1>6, <1>7, <1>8, <1>9, <1>10, <1>11, <1>12, <1>13, <1>14
        DEF RJNext, FrontEndStep, ResumeStep

(* Queueing and taking a part leaves its transfers where they are; the     *)
(* scheduler schedules one at a time.                                      *)
LEMMA QueueSame ==
    ASSUME UNCHANGED <<command, partsKnown, queue, toQueue, current, nextTx>>
    PROVE  /\ IsBefore' <=> IsBefore
           /\ \A p : (IsQueued(p)' <=> IsQueued(p)) /\ (Taken(p)' <=> Taken(p))
           /\ \A x \in JobTransfer : IsScheduled(x)' <=> IsScheduled(x)
<1>1. IsBefore' <=> IsBefore
  BY DEF IsBefore
<1>2. ASSUME NEW p PROVE (IsQueued(p)' <=> IsQueued(p)) /\ (Taken(p)' <=> Taken(p))
  BY <1>1 DEF IsQueued, Taken
<1>3. ASSUME NEW x \in JobTransfer PROVE IsScheduled(x)' <=> IsScheduled(x)
  BY <1>2 DEF IsScheduled
<1> QED BY <1>1, <1>2, <1>3

(* What the front end and TakePart do to the queue.                        *)
LEMMA PartsStep ==
    ASSUME ResumeTypes, FrontEndInv, PartsInv, \A x \in JobTransfer : TxInv(x), RJNext
    PROVE  PartsInv'
<1> USE ResumeAssumption DEF plan, manager, scheduler, counters, handlerState, statusManager
<1>1. CASE UNCHANGED <<command, partsKnown, queue, toQueue, current, nextTx>>
  BY <1>1, QueueSame DEF PartsInv
<1>2. ASSUME IsBefore' \/ (IsBefore /\ queue' = <<>> /\ current' = -1), FrontEndInv',
             toQueue' \subseteq 0 .. partsKnown' - 1, nextTx' = 0
      PROVE  PartsInv'
  BY <1>2 DEF PartsInv, FrontEndInv
<1>3. FrontEndInv'
  BY FrontEndInvStep
<1>4. CASE CreatePlanFile \/ QueuedAll
  <2>1. UNCHANGED <<partsKnown, queue, toQueue, current, nextTx>> /\ ~IsBefore /\ ~IsBefore'
    BY <1>4 DEF CreatePlanFile, QueuedAll, IsBefore
  <2> QED BY <2>1 DEF PartsInv, Taken, IsQueued
<1>5. CASE AddNewJobPart
  <2>1. /\ queue' = Append(queue, partsKnown) /\ partsKnown' = partsKnown + 1
        /\ UNCHANGED <<toQueue, current, nextTx>> /\ ~IsBefore /\ ~IsBefore'
    BY <1>5 DEF AddNewJobPart, IsBefore
  <2>2. /\ partsKnown \in Nat /\ queue \in Seq(PartNum) /\ Len(queue) \in Nat
        /\ Len(queue') = Len(queue) + 1 /\ queue'[Len(queue) + 1] = partsKnown
        /\ \A i \in 1 .. Len(queue) : queue'[i] = queue[i]
    BY <2>1 DEF ResumeTypes
  <2>3. \A i, j \in 1 .. Len(queue') : queue'[i] = queue'[j] => i = j
    BY <2>2 DEF PartsInv
  <2>4. \A i \in 1 .. Len(queue') : queue'[i] \in 0 .. partsKnown' - 1 /\ queue'[i] \notin toQueue'
    BY <2>1, <2>2 DEF PartsInv
  <2>5. toQueue' \subseteq 0 .. partsKnown' - 1
    BY <2>1, <2>2 DEF PartsInv
  <2>6. \A p : Taken(p) => Taken(p)'
    BY SMTT(30), <2>1, <2>2 DEF Taken, IsQueued
  <2> QED BY <2>1, <2>3, <2>4, <2>5, <2>6 DEF PartsInv
<1>6. CASE RestartedAll
  <2>1. IsBefore /\ UNCHANGED <<queue, current, nextTx, partsKnown>>
          /\ toQueue' = 0 .. partsKnown - 1
    BY <1>6 DEF RestartedAll, IsBefore
  <2> QED BY <1>2, <1>3, <2>1 DEF FrontEndInv
<1>7. CASE QueueResumedPart
  <2>1. PICK p \in toQueue : queue' = Append(queue, p) /\ toQueue' = toQueue \ {p}
    BY <1>7 DEF QueueResumedPart
  <2>2. UNCHANGED <<current, nextTx, partsKnown>> /\ ~IsBefore /\ ~IsBefore'
    BY <1>7 DEF QueueResumedPart, IsBefore
  <2>3. /\ queue \in Seq(PartNum) /\ Len(queue) \in Nat
        /\ Len(queue') = Len(queue) + 1 /\ queue'[Len(queue) + 1] = p
        /\ \A i \in 1 .. Len(queue) : queue'[i] = queue[i]
    BY <2>1 DEF ResumeTypes
  <2>4. \A i, j \in 1 .. Len(queue') : queue'[i] = queue'[j] => i = j
    BY <2>1, <2>3 DEF PartsInv
  <2>5. \A i \in 1 .. Len(queue') : queue'[i] \in 0 .. partsKnown' - 1 /\ queue'[i] \notin toQueue'
    BY <2>1, <2>2, <2>3 DEF PartsInv
  <2>6. toQueue' \subseteq 0 .. partsKnown' - 1
    BY <2>1, <2>2 DEF PartsInv
  <2>7. \A q : Taken(q) => Taken(q)'
    BY <2>1, <2>2, <2>3 DEF Taken, IsQueued
  <2> QED BY <2>2, <2>4, <2>5, <2>6, <2>7 DEF PartsInv
<1>8. CASE PollSummary \/ ProcessDies
  <2>1. IsBefore' /\ toQueue' = {} /\ nextTx' = 0
    BY <1>8 DEF PollSummary, ProcessDies, ForgetMemory, IsBefore
  <2> QED BY <1>2, <1>3, <2>1
<1>9. CASE ResurrectJob
  <2>1. IsBefore' /\ toQueue' = {} /\ nextTx' = 0
    BY <1>9 DEF ResurrectJob, IsBefore, FrontEndInv
  <2> QED BY <1>2, <1>3, <2>1
<1>10. CASE ResetJob
  <2>1. IsBefore' /\ toQueue' = {} /\ nextTx' = 0
    BY <1>10 DEF ResetJob, IsBefore, FrontEndInv
  <2> QED BY <1>2, <1>3, <2>1
<1>11. CASE TakePart
  <2>1. /\ queue # <<>> /\ current' = Head(queue) /\ queue' = Tail(queue) /\ nextTx' = 0
        /\ UNCHANGED <<command, partsKnown, toQueue>>
    BY <1>11 DEF TakePart
  <2>2. /\ Len(queue) \in Nat \ {0} /\ Len(queue') = Len(queue) - 1 /\ Head(queue) = queue[1]
        /\ Head(queue) \in PartNum
        /\ \A i \in 1 .. Len(queue') : i + 1 \in 1 .. Len(queue) /\ queue'[i] = queue[i + 1]
    BY <2>1 DEF ResumeTypes
  <2>3. ~IsBefore'
    BY <2>1 DEF IsBefore, FrontEndInv
  <2>4. \A i, j \in 1 .. Len(queue') : queue'[i] = queue'[j] => i = j
    BY <2>2 DEF PartsInv
  <2>5. \A i \in 1 .. Len(queue') : queue'[i] \in 0 .. partsKnown' - 1 /\ queue'[i] \notin toQueue'
    BY <2>1, <2>2 DEF PartsInv
  <2>6. \A i \in 1 .. Len(queue') : queue'[i] # queue[1]
    BY <2>1, <2>2 DEF PartsInv
  <2>7. queue[1] \in 0 .. partsKnown - 1 /\ queue[1] \notin toQueue
    BY <2>2 DEF PartsInv
  <2>8. Taken(current)'
    BY <2>1, <2>2, <2>3, <2>6, <2>7 DEF Taken, IsQueued
  <2>9. nextTx' <= PartTransfers[current'] /\ current' # -1
    BY <2>1, <2>2, PartNumbers DEF PartNum
  <2> QED BY <2>1, <2>4, <2>5, <2>8, <2>9 DEF PartsInv
<1>12. CASE ScheduleDone \/ SchedulePending
  <2>1. /\ UNCHANGED <<command, partsKnown, queue, toQueue, current>> /\ nextTx' = nextTx + 1
        /\ current >= 0 /\ nextTx # PartTransfers[current]
    BY <1>12 DEF ScheduleDone, SchedulePending, PartScheduled
  <2>2. \A p : Taken(p) => Taken(p)'
    BY <2>1 DEF Taken, IsQueued, IsBefore
  <2>3. current \in PartNum /\ nextTx <= PartTransfers[current] /\ Taken(current)
    BY <2>1 DEF PartsInv, ResumeTypes, PartNum
  <2>4. nextTx' <= PartTransfers[current']
    BY <2>1, <2>3, PartNumbers DEF ResumeTypes
  <2> QED BY <2>1, <2>2, <2>3, <2>4 DEF PartsInv
<1>13. CASE \/ SettleCancelling \/ RestartTransfer \/ CancelPauseJob \/ HandleXferDone
                 \/ HandlerProgress
            \/ \E x \in JobTransfer : TxStep(x)
  <2>1. UNCHANGED <<command, partsKnown, queue, toQueue, current, nextTx>>
    BY <1>13
    DEF SettleCancelling, RestartTransfer, CancelPauseJob, HandleXferDone, HandlerProgress, TxStep,
        RunTransfer, SendXferDoneMsg, ReportTransferDone, ReportJobPartDone, CountPart, SettleJob
  <2> QED BY <1>1, <2>1
<1> QED BY <1>4, <1>5, <1>6, <1>7, <1>8, <1>9, <1>10, <1>11, <1>12, <1>13
        DEF RJNext, FrontEndStep, ResumeStep, SchedulerStep

(* The scheduler comes to one transfer at a time. *)
LEMMA ScheduleAdds ==
    ASSUME ResumeTypes, PartsInv, ScheduleDone \/ SchedulePending
    PROVE  /\ <<current, nextTx>> \in JobTransfer /\ ~IsScheduled(<<current, nextTx>>)
           /\ current \in PartNum
           /\ \A x \in JobTransfer : IsScheduled(x)' <=> IsScheduled(x) \/ x = <<current, nextTx>>
<1>1. /\ UNCHANGED <<command, partsKnown, queue, toQueue, current>> /\ nextTx' = nextTx + 1
      /\ current >= 0 /\ nextTx # PartTransfers[current]
  BY DEF ScheduleDone, SchedulePending, PartScheduled, manager
<1>2. /\ current \in PartNum /\ nextTx <= PartTransfers[current] /\ Taken(current) /\ nextTx \in Nat
      /\ PartTransfers[current] \in Nat
  <2>1. current \in PartNum
    BY <1>1, ResumeAssumption DEF ResumeTypes, PartNum
  <2> QED BY <1>1, <2>1, PartNumbers DEF PartsInv, ResumeTypes
<1>3. <<current, nextTx>> \in JobTransfer
  BY <1>1, <1>2, JobTransferShape
<1>4. ~IsScheduled(<<current, nextTx>>)
  BY <1>2 DEF IsScheduled
<1>5. \A p : Taken(p)' <=> Taken(p)
  BY <1>1 DEF Taken, IsQueued, IsBefore
<1>6. ASSUME NEW x \in JobTransfer PROVE IsScheduled(x)' <=> IsScheduled(x) \/ x = <<current, nextTx>>
  <2>1. x = <<x[1], x[2]>> /\ x[2] \in Nat
    BY JobTransferShape
  <2> QED BY <1>1, <1>2, <1>5, <2>1 DEF IsScheduled
<1> QED BY <1>2, <1>3, <1>4, <1>6

(* No other step changes which transfers it has come to: a part that is    *)
(* put into the queue was not taken, and one is only taken when the one    *)
(* before it is scheduled.                                                 *)
LEMMA ScheduleSame ==
    ASSUME ResumeTypes, FrontEndInv, PartsInv, \A x \in JobTransfer : TxInv(x), RJNext,
           ~ScheduleDone, ~SchedulePending, ~PollSummary, ~ProcessDies
    PROVE  \A x \in JobTransfer : IsScheduled(x)' <=> IsScheduled(x)
<1> USE ResumeAssumption DEF plan, manager, scheduler, counters, handlerState, statusManager
<1>1. CASE UNCHANGED <<command, partsKnown, queue, toQueue, current, nextTx>>
  BY <1>1, QueueSame
<1>2. CASE IsBefore /\ (IsBefore' \/ toQueue' = 0 .. partsKnown' - 1)
  BY <1>2 DEF IsScheduled, Taken
<1>3. ASSUME UNCHANGED <<current, nextTx>>, \A p : Taken(p)' <=> Taken(p)
      PROVE  \A x \in JobTransfer : IsScheduled(x)' <=> IsScheduled(x)
  BY <1>3 DEF IsScheduled
<1>4. CASE CreatePlanFile \/ QueuedAll
  <2>1. UNCHANGED <<partsKnown, queue, toQueue, current, nextTx>> /\ ~IsBefore /\ ~IsBefore'
    BY <1>4 DEF CreatePlanFile, QueuedAll, IsBefore
  <2> QED BY <1>3, <2>1 DEF Taken, IsQueued
<1>5. CASE AddNewJobPart
  <2>1. /\ queue' = Append(queue, partsKnown) /\ partsKnown' = partsKnown + 1
        /\ UNCHANGED <<toQueue, current, nextTx>> /\ ~IsBefore /\ ~IsBefore'
    BY <1>5 DEF AddNewJobPart, IsBefore
  <2>2. /\ partsKnown \in Nat /\ queue \in Seq(PartNum) /\ Len(queue) \in Nat
        /\ Len(queue') = Len(queue) + 1 /\ queue'[Len(queue) + 1] = partsKnown
        /\ \A i \in 1 .. Len(queue) : queue'[i] = queue[i]
    BY <2>1 DEF ResumeTypes
  <2>3. \A p : IsQueued(p)' <=> IsQueued(p) \/ p = partsKnown
    <3>1. 1 .. Len(queue') = (1 .. Len(queue)) \cup {Len(queue) + 1}
          /\ Len(queue) + 1 \notin 1 .. Len(queue)
      BY <2>2
    <3> QED BY <2>2, <3>1, SMTT(30) DEF IsQueued
  <2>4. \A p : Taken(p)' <=> Taken(p)
    BY <2>1, <2>2, <2>3 DEF Taken
  <2> QED BY <1>3, <2>1, <2>4
<1>6. CASE QueueResumedPart
  <2>1. PICK p \in toQueue : queue' = Append(queue, p) /\ toQueue' = toQueue \ {p}
    BY <1>6 DEF QueueResumedPart
  <2>2. UNCHANGED <<current, nextTx, partsKnown>> /\ ~IsBefore /\ ~IsBefore'
    BY <1>6 DEF QueueResumedPart, IsBefore
  <2>3. /\ queue \in Seq(PartNum) /\ Len(queue) \in Nat
        /\ Len(queue') = Len(queue) + 1 /\ queue'[Len(queue) + 1] = p
        /\ \A i \in 1 .. Len(queue) : queue'[i] = queue[i]
    BY <2>1 DEF ResumeTypes
  <2>4. \A q : IsQueued(q)' <=> IsQueued(q) \/ q = p
    <3>1. 1 .. Len(queue') = (1 .. Len(queue)) \cup {Len(queue) + 1}
          /\ Len(queue) + 1 \notin 1 .. Len(queue)
      BY <2>3
    <3> QED BY <2>3, <3>1, SMTT(30) DEF IsQueued
  <2>5. \A q : Taken(q)' <=> Taken(q)
    BY <2>1, <2>2, <2>4 DEF Taken
  <2> QED BY <1>3, <2>2, <2>5
<1>7. CASE TakePart
  <2>1. /\ queue # <<>> /\ current' = Head(queue) /\ queue' = Tail(queue) /\ nextTx' = 0
        /\ UNCHANGED <<command, partsKnown, toQueue>> /\ PartScheduled
    BY <1>7 DEF TakePart
  <2>2. /\ Len(queue) \in Nat \ {0} /\ Len(queue') = Len(queue) - 1 /\ Head(queue) = queue[1]
        /\ \A i \in 1 .. Len(queue') : i + 1 \in 1 .. Len(queue) /\ queue'[i] = queue[i + 1]
        /\ \A i \in 2 .. Len(queue) : i - 1 \in 1 .. Len(queue') /\ queue'[i - 1] = queue[i]
    BY <2>1 DEF ResumeTypes
  <2>3. \A q : IsQueued(q) <=> IsQueued(q)' \/ q = queue[1]
    <3>1. ASSUME NEW q, IsQueued(q), q # queue[1] PROVE IsQueued(q)'
      <4>1. PICK i \in 1 .. Len(queue) : queue[i] = q
        BY <3>1 DEF IsQueued
      <4>2. i \in 2 .. Len(queue)
        BY <2>2, <3>1, <4>1
      <4> QED BY <2>2, <4>1, <4>2 DEF IsQueued
    <3>2. \A q : IsQueued(q)' \/ q = queue[1] => IsQueued(q)
      BY <2>2 DEF IsQueued
    <3> QED BY <3>1, <3>2
  <2>4. \A q : Taken(q)' => Taken(q) \/ q = queue[1]
    BY <2>1, <2>3 DEF Taken, IsBefore
  <2>5. \A q : Taken(q) => Taken(q)' /\ q # queue[1]
    BY <2>1, <2>3 DEF Taken, IsBefore
  <2>6. ASSUME NEW x \in JobTransfer PROVE IsScheduled(x)' <=> IsScheduled(x)
    <3>2. x[1] = current => x[2] < nextTx
      BY <2>1, JobTransferShape DEF PartScheduled, PartNum
    <3>3. x[2] \in Nat
      BY JobTransferShape
    <3> QED BY <2>1, <2>2, <2>4, <2>5, <3>2, <3>3 DEF IsScheduled
  <2> QED BY <2>6
<1>8. CASE ResurrectJob \/ ResetJob \/ RestartedAll
  <2>1. IsBefore /\ (IsBefore' \/ toQueue' = 0 .. partsKnown' - 1)
    BY <1>8 DEF ResurrectJob, ResetJob, RestartedAll, IsBefore
  <2> QED BY <1>2, <2>1
<1>9. CASE \/ SettleCancelling \/ RestartTransfer \/ CancelPauseJob \/ HandleXferDone
                \/ HandlerProgress
           \/ \E x \in JobTransfer : TxStep(x)
  <2>1. UNCHANGED <<command, partsKnown, queue, toQueue, current, nextTx>>
    BY <1>9
    DEF SettleCancelling, RestartTransfer, CancelPauseJob, HandleXferDone, HandlerProgress, TxStep,
        RunTransfer, SendXferDoneMsg, ReportTransferDone, ReportJobPartDone, CountPart, SettleJob
  <2> QED BY <1>1, <2>1
<1> QED BY <1>4, <1>5, <1>6, <1>7, <1>8, <1>9
        DEF RJNext, FrontEndStep, ResumeStep, SchedulerStep

(* A transfer of a part that is taken is on its way, or was done before.   *)
LEMMA TxInvStep ==
    ASSUME ResumeTypes, FrontEndInv, PartsInv, \A x \in JobTransfer : TxInv(x), RJNext
    PROVE  \A x \in JobTransfer : TxInv(x)'
<1> USE ResumeAssumption DEF plan, manager, scheduler, counters, handlerState, statusManager
<1>a. txStatus \in [JobTransfer -> {"Started", "Success", "Failed", "Skipped", "Cancelled"}]
      /\ txPc \in [JobTransfer -> {"idle", "queued", "settled", "sent", "reported"}]
  BY DEF ResumeTypes
<1>1. CASE PollSummary \/ ProcessDies
  <2>1. /\ command' = "down" /\ txPc' = [x \in JobTransfer |-> "idle"] /\ unhandled' = {}
    BY <1>1 DEF PollSummary, ProcessDies, ForgetMemory
  <2> QED BY <2>1 DEF TxInv, IsScheduled, Taken, IsBefore
<1>2. CASE ScheduleDone
  <2>1. /\ \A x \in JobTransfer : IsScheduled(x)' <=> IsScheduled(x) \/ x = <<current, nextTx>>
        /\ <<current, nextTx>> \in JobTransfer
    BY <1>2, ScheduleAdds
  <2>2. UNCHANGED <<txStatus, txPc, unhandled, command>>
          /\ txStatus[<<current, nextTx>>] = "Success"
    BY <1>2 DEF ScheduleDone
  <2> QED BY <2>1, <2>2 DEF TxInv, IsBefore
<1>3. CASE SchedulePending
  <2>1. /\ \A x \in JobTransfer : IsScheduled(x)' <=> IsScheduled(x) \/ x = <<current, nextTx>>
        /\ <<current, nextTx>> \in JobTransfer /\ ~IsScheduled(<<current, nextTx>>)
    BY <1>3, ScheduleAdds
  <2>2. /\ UNCHANGED <<txStatus, unhandled, command>> /\ txStatus[<<current, nextTx>>] # "Success"
        /\ txPc' = [txPc EXCEPT ![<<current, nextTx>>] = "queued"]
    BY <1>3 DEF SchedulePending
  <2>3. PICK y \in JobTransfer : y = <<current, nextTx>>
    BY <2>1
  <2>4. txPc[y] = "idle" /\ y \notin unhandled
    BY <2>1, <2>3 DEF TxInv
  <2>5. /\ \A x \in JobTransfer : IsScheduled(x)' <=> IsScheduled(x) \/ x = y
        /\ txStatus[y] # "Success" /\ txPc' = [txPc EXCEPT ![y] = "queued"]
    BY <2>1, <2>2, <2>3
  <2> QED BY <1>a, <2>2, <2>4, <2>5 DEF TxInv, IsBefore
<1>4. CASE ~ScheduleDone /\ ~SchedulePending /\ ~PollSummary /\ ~ProcessDies
  <2>1. \A x \in JobTransfer : IsScheduled(x)' <=> IsScheduled(x)
    BY <1>4, ScheduleSame
  <2>2. CASE UNCHANGED <<txStatus, txPc, unhandled>> /\ (~IsBefore' => ~IsBefore)
    BY <2>1, <2>2 DEF TxInv
  <2>3. CASE CreatePlanFile \/ AddNewJobPart \/ QueueResumedPart \/ QueuedAll
    BY <2>2, <2>3 DEF CreatePlanFile, AddNewJobPart, QueueResumedPart, QueuedAll, IsBefore
  <2>4. CASE SettleCancelling \/ ResetJob \/ ResurrectJob
    BY <2>2, <2>4 DEF SettleCancelling, ResetJob, ResurrectJob, IsBefore
  <2>5. CASE RestartTransfer
    <3>1. IsBefore /\ IsBefore' /\ UNCHANGED <<txPc, unhandled>>
      BY <2>5 DEF RestartTransfer, IsBefore
    <3>2. \A x \in JobTransfer : txPc[x] = "idle" /\ ~IsScheduled(x)
      BY <3>1, <1>a DEF TxInv, IsScheduled, Taken
    <3> QED BY <2>1, <3>1, <3>2 DEF TxInv
  <2>6. CASE RestartedAll
    <3>1. IsBefore /\ UNCHANGED <<txPc, unhandled, txStatus>> /\ NeedsRestart = {}
      BY <2>6 DEF RestartedAll, IsBefore
    <3>2. \A x \in JobTransfer : txPc[x] = "idle" /\ ~IsScheduled(x)
      BY <3>1, <1>a DEF TxInv, IsScheduled, Taken
    <3>3. \A x \in JobTransfer : txStatus[x] \in {"Started", "Success"}
      BY <3>1, <1>a DEF NeedsRestart
    <3> QED BY <2>1, <3>1, <3>2, <3>3 DEF TxInv
  <2>7. CASE CancelPauseJob \/ TakePart \/ HandlerProgress
    BY <2>2, <2>7
    DEF CancelPauseJob, TakePart, HandlerProgress, ReportJobPartDone, CountPart, SettleJob, IsBefore
  <2>8. CASE HandleXferDone
    <3>1. UNCHANGED <<txPc, txStatus, command>> /\ unhandled' \subseteq unhandled
      BY <2>8 DEF HandleXferDone
    <3> QED BY <2>1, <3>1 DEF TxInv, IsBefore
  <2>9. ASSUME NEW y \in JobTransfer, RunTransfer(y) PROVE \A x \in JobTransfer : TxInv(x)'
    <3>1. PICK s \in TransferResults \cup {"Cancelled"} : txStatus' = [txStatus EXCEPT ![y] = s]
      BY <2>9 DEF RunTransfer
    <3>2. s # "Started" /\ txPc[y] = "queued" /\ txPc' = [txPc EXCEPT ![y] = "settled"]
          /\ UNCHANGED <<unhandled, command>>
      BY <2>9 DEF RunTransfer
    <3> QED BY <1>a, <2>1, <3>1, <3>2 DEF TxInv, IsBefore
  <2>10. ASSUME NEW y \in JobTransfer, SendXferDoneMsg(y) PROVE \A x \in JobTransfer : TxInv(x)'
    <3>1. /\ txPc[y] = "settled" /\ txPc' = [txPc EXCEPT ![y] = "sent"]
          /\ UNCHANGED <<txStatus, command>> /\ unhandled' = unhandled \cup {y}
      BY <2>10 DEF SendXferDoneMsg
    <3> QED BY <1>a, <2>1, <3>1 DEF TxInv, IsBefore
  <2>11. ASSUME NEW y \in JobTransfer, ReportTransferDone(y) PROVE \A x \in JobTransfer : TxInv(x)'
    <3>1. /\ txPc[y] = "sent" /\ txPc' = [txPc EXCEPT ![y] = "reported"]
          /\ UNCHANGED <<txStatus, command, unhandled>>
      BY <2>11 DEF ReportTransferDone
    <3> QED BY <1>a, <2>1, <3>1 DEF TxInv, IsBefore
  <2> QED BY <1>4, <2>3, <2>4, <2>5, <2>6, <2>7, <2>8, <2>9, <2>10, <2>11
          DEF RJNext, FrontEndStep, ResumeStep, SchedulerStep, TxStep
<1> QED BY <1>1, <1>2, <1>3, <1>4

-----------------------------------------------------------------------------
(* A part counts at most its transfers, and all of them when it is         *)
(* finished; a part that is not taken has counted none.                    *)
LEMMA CountedShape ==
    ASSUME ResumeTypes, DoneInv, NEW p \in PartNum
    PROVE  /\ IsFiniteSet(CountedOf(p)) /\ CountedOf(p) \subseteq TransfersOfPart(p)
           /\ doneOfPart[p] \in 0 .. PartTransfers[p]
           /\ p \in Finished <=> CountedOf(p) = TransfersOfPart(p)
           /\ ~Taken(p) => doneOfPart[p] = 0 /\ p \notin Finished
<1>1. CountedOf(p) \subseteq TransfersOfPart(p)
  BY DEF CountedOf
<1>2. /\ IsFiniteSet(TransfersOfPart(p)) /\ Cardinality(TransfersOfPart(p)) = PartTransfers[p]
      /\ PartTransfers[p] \in Nat \ {0}
  BY PartTransfersCount, PartNumbers
<1>3. /\ IsFiniteSet(CountedOf(p)) /\ Cardinality(CountedOf(p)) <= Cardinality(TransfersOfPart(p))
      /\ Cardinality(TransfersOfPart(p)) = Cardinality(CountedOf(p))
           => CountedOf(p) = TransfersOfPart(p)
  BY <1>1, <1>2, FS_Subset
<1>4. Cardinality(CountedOf(p)) \in Nat
  BY <1>3, FS_CardinalityType
<1>5. doneOfPart[p] = Cardinality(CountedOf(p))
  BY DEF DoneInv
<1>6. ASSUME ~Taken(p) PROVE doneOfPart[p] = 0
  <2>1. CountedOf(p) = {}
    BY <1>6 DEF CountedOf, IsCounted, IsScheduled, TransfersOfPart
  <2>2. Cardinality(CountedOf(p)) = 0
    BY <2>1, FS_EmptySet
  <2> QED BY <1>5, <2>2
<1>7. p \in Finished <=> doneOfPart[p] = PartTransfers[p]
  BY DEF Finished
<1>8. doneOfPart[p] \in 0 .. PartTransfers[p]
  BY <1>2, <1>3, <1>4, <1>5
<1>9. p \in Finished <=> CountedOf(p) = TransfersOfPart(p)
  BY <1>2, <1>3, <1>5, <1>7
<1> QED BY <1>1, <1>2, <1>3, <1>6, <1>7, <1>8, <1>9

(* A part counts one of its transfers more. *)
LEMMA CountOne ==
    ASSUME ResumeTypes, DoneInv, NEW y \in JobTransfer, ~IsCounted(y),
           \A x \in JobTransfer : IsCounted(x)' <=> IsCounted(x) \/ x = y,
           doneOfPart' = [doneOfPart EXCEPT ![y[1]] = @ + 1]
    PROVE  DoneInv'
<1>1. ASSUME NEW p \in PartNum PROVE doneOfPart'[p] = Cardinality(CountedOf(p)')
  <2>1. doneOfPart[p] = Cardinality(CountedOf(p)) /\ IsFiniteSet(CountedOf(p))
          /\ doneOfPart[p] \in Nat
    BY CountedShape DEF DoneInv, ResumeTypes
  <2>2. CASE p = y[1]
    <3>1. CountedOf(p)' = CountedOf(p) \cup {y} /\ y \notin CountedOf(p)
      BY <2>2 DEF CountedOf, TransfersOfPart
    <3>2. Cardinality(CountedOf(p) \cup {y}) = Cardinality(CountedOf(p)) + 1
      BY <2>1, <3>1, FS_AddElement
    <3>3. Cardinality(CountedOf(p)') = Cardinality(CountedOf(p)) + 1
      BY <3>1, <3>2
    <3> QED BY <2>1, <2>2, <3>3 DEF ResumeTypes
  <2>3. CASE p # y[1]
    <3>1. CountedOf(p)' = CountedOf(p)
      BY <2>3 DEF CountedOf, TransfersOfPart
    <3>2. Cardinality(CountedOf(p)') = Cardinality(CountedOf(p))
      BY <3>1
    <3> QED BY <2>1, <2>3, <3>2 DEF ResumeTypes
  <2> QED BY <2>2, <2>3
<1> QED BY <1>1 DEF DoneInv

(* A counter stays right as long as nothing is counted. *)
LEMMA CountSame ==
    ASSUME DoneInv, \A x \in JobTransfer : IsCounted(x)' <=> IsCounted(x), UNCHANGED doneOfPart
    PROVE  DoneInv'
<1>1. ASSUME NEW p \in PartNum PROVE doneOfPart'[p] = Cardinality(CountedOf(p)')
  <2>1. CountedOf(p)' = CountedOf(p)
    BY DEF CountedOf, TransfersOfPart
  <2> QED BY <2>1 DEF DoneInv
<1> QED BY <1>1 DEF DoneInv

(* The steps by which a part counts. *)
CountsOne(y) == \/ ScheduleDone /\ y = <<current, nextTx>>
                \/ ReportTransferDone(y)

(* What is counted in a step: nothing, one transfer, or all is forgotten. *)
LEMMA CountingSteps ==
    ASSUME ResumeTypes, FrontEndInv, PartsInv, \A x \in JobTransfer : TxInv(x), DoneInv, RJNext
    PROVE  \/ PollSummary \/ ProcessDies
           \/ UNCHANGED doneOfPart /\ \A x \in JobTransfer : (IsCounted(x)' <=> IsCounted(x))
                /\ ~CountsOne(x)
           \/ \E y \in JobTransfer :
                  /\ ~IsCounted(y) /\ CountsOne(y)
                  /\ \A x \in JobTransfer : IsCounted(x)' <=> IsCounted(x) \/ x = y
                  /\ doneOfPart' = [doneOfPart EXCEPT ![y[1]] = @ + 1]
<1> USE ResumeAssumption DEF plan, manager, scheduler, counters, handlerState, statusManager
<1>a. txPc \in [JobTransfer -> {"idle", "queued", "settled", "sent", "reported"}]
  BY DEF ResumeTypes
<1>1. CASE ScheduleDone
  <2>1. /\ \A x \in JobTransfer : IsScheduled(x)' <=> IsScheduled(x) \/ x = <<current, nextTx>>
        /\ <<current, nextTx>> \in JobTransfer /\ ~IsScheduled(<<current, nextTx>>)
    BY <1>1, ScheduleAdds
  <2>2. UNCHANGED txPc /\ doneOfPart' = [doneOfPart EXCEPT ![current] = @ + 1]
    BY <1>1 DEF ScheduleDone, CountInPart
  <2>3. PICK y \in JobTransfer : y = <<current, nextTx>>
    BY <2>1
  <2>4. y[1] = current /\ txPc[y] = "idle" /\ ~IsScheduled(y)
    BY <2>1, <2>3 DEF TxInv
  <2>5. /\ ~IsCounted(y)
        /\ \A x \in JobTransfer : IsCounted(x)' <=> IsCounted(x) \/ x = y
    BY <2>1, <2>2, <2>3, <2>4 DEF IsCounted
  <2> QED BY <1>1, <2>2, <2>3, <2>4, <2>5 DEF CountsOne
<1>2. CASE SchedulePending
  <2>1. /\ \A x \in JobTransfer : IsScheduled(x)' <=> IsScheduled(x) \/ x = <<current, nextTx>>
        /\ <<current, nextTx>> \in JobTransfer /\ ~IsScheduled(<<current, nextTx>>)
    BY <1>2, ScheduleAdds
  <2>2. UNCHANGED doneOfPart /\ txPc' = [txPc EXCEPT ![<<current, nextTx>>] = "queued"]
          /\ ~ScheduleDone
    BY <1>2 DEF SchedulePending, ScheduleDone
  <2>3. \A x \in JobTransfer : ~ReportTransferDone(x)
    BY <1>2 DEF SchedulePending, ReportTransferDone
  <2>4. \A x \in JobTransfer : IsCounted(x)' <=> IsCounted(x)
    BY <1>a, <2>1, <2>2 DEF IsCounted
  <2> QED BY <2>2, <2>3, <2>4 DEF CountsOne
<1>3. CASE ~ScheduleDone /\ ~SchedulePending /\ ~PollSummary /\ ~ProcessDies
  <2>1. \A x \in JobTransfer : IsScheduled(x)' <=> IsScheduled(x)
    BY <1>3, ScheduleSame
  <2>2. ASSUME NEW y \in JobTransfer, ReportTransferDone(y)
        PROVE  \E z \in JobTransfer :
                  /\ ~IsCounted(z) /\ CountsOne(z)
                  /\ \A x \in JobTransfer : IsCounted(x)' <=> IsCounted(x) \/ x = z
                  /\ doneOfPart' = [doneOfPart EXCEPT ![z[1]] = @ + 1]
    <3>1. /\ txPc[y] = "sent" /\ txPc' = [txPc EXCEPT ![y] = "reported"]
          /\ doneOfPart' = [doneOfPart EXCEPT ![y[1]] = @ + 1]
      BY <2>2 DEF ReportTransferDone, CountInPart
    <3>2. IsScheduled(y)
      BY <3>1 DEF TxInv
    <3>3. ~IsCounted(y) /\ \A x \in JobTransfer : IsCounted(x)' <=> IsCounted(x) \/ x = y
      BY <1>a, <2>1, <3>1, <3>2 DEF IsCounted
    <3> QED BY <2>2, <3>1, <3>3 DEF CountsOne
  <2>3. CASE \A x \in JobTransfer : ~ReportTransferDone(x)
    <3>1. \A x \in JobTransfer : ~CountsOne(x)
      BY <1>3, <2>3 DEF CountsOne
    <3>2. ASSUME UNCHANGED <<doneOfPart, txPc>>
          PROVE  UNCHANGED doneOfPart
                  /\ \A x \in JobTransfer : (IsCounted(x)' <=> IsCounted(x)) /\ ~CountsOne(x)
      BY <2>1, <3>1, <3>2 DEF IsCounted
    <3>3. CASE TakePart
      <4>1. /\ queue # <<>> /\ doneOfPart' = [doneOfPart EXCEPT ![Head(queue)] = 0]
                 /\ UNCHANGED txPc
        BY <3>3 DEF TakePart
      <4>2. /\ Head(queue) \in PartNum /\ Head(queue) = queue[1] /\ 1 \in 1 .. Len(queue)
            /\ doneOfPart \in [PartNum -> Nat]
        BY <4>1 DEF ResumeTypes
      <4>3. ~Taken(Head(queue))
        BY <4>2 DEF Taken, IsQueued
      <4>4. doneOfPart[Head(queue)] = 0
        BY <4>2, <4>3, CountedShape
      <4>5. UNCHANGED doneOfPart
        BY <4>1, <4>2, <4>4
      <4> QED BY <3>2, <4>1, <4>5
    <3>4. ASSUME NEW y \in JobTransfer, RunTransfer(y) \/ SendXferDoneMsg(y)
          PROVE  UNCHANGED doneOfPart
                  /\ \A x \in JobTransfer : (IsCounted(x)' <=> IsCounted(x)) /\ ~CountsOne(x)
      <4>1. /\ txPc[y] \in {"queued", "settled"}
            /\ \E s \in {"settled", "sent"} : txPc' = [txPc EXCEPT ![y] = s]
            /\ UNCHANGED doneOfPart
        BY <3>4 DEF RunTransfer, SendXferDoneMsg
      <4> QED BY <1>a, <2>1, <3>1, <4>1 DEF IsCounted
    <3>5. CASE FrontEndStep \/ ResurrectJob \/ CancelPauseJob \/ HandleXferDone \/ HandlerProgress
      <4>1. UNCHANGED <<doneOfPart, txPc>>
        BY <3>5
        DEF FrontEndStep, ResumeStep, CreatePlanFile, AddNewJobPart, SettleCancelling, ResetJob,
            RestartTransfer, RestartedAll, QueueResumedPart, QueuedAll, ResurrectJob,
                    CancelPauseJob,
            HandleXferDone, HandlerProgress, ReportJobPartDone, CountPart, SettleJob
      <4> QED BY <3>2, <4>1
    <3> QED BY <1>3, <2>3, <3>3, <3>4, <3>5 DEF RJNext, SchedulerStep, TxStep
  <2> QED BY <2>2, <2>3
<1> QED BY <1>1, <1>2, <1>3

(* The counter of a part stays the number of its counted transfers. *)
LEMMA DoneInvStep ==
    ASSUME ResumeTypes, FrontEndInv, PartsInv, \A x \in JobTransfer : TxInv(x), DoneInv, RJNext
    PROVE  DoneInv'
<1>1. CASE PollSummary \/ ProcessDies
  <2>1. command' = "down" /\ doneOfPart' = [p \in PartNum |-> 0]
    BY <1>1 DEF PollSummary, ProcessDies, ForgetMemory
  <2>2. \A p : CountedOf(p)' = {}
    BY <2>1 DEF CountedOf, IsCounted, IsScheduled, Taken, IsBefore
  <2>3. \A p : Cardinality(CountedOf(p)') = 0
    BY <2>2, FS_EmptySet
  <2> QED BY <2>1, <2>3 DEF DoneInv
<1> QED BY <1>1, CountingSteps, CountOne, CountSame

-----------------------------------------------------------------------------
(* Reports, and the parts that are finished. *)
LEMMA ReportsFinite ==
    ASSUME ResumeTypes
    PROVE  /\ IsFiniteSet(toSend) /\ Cardinality(toSend) \in Nat
           /\ IsFiniteSet(Finished) /\ Cardinality(Finished) \in 0 .. JobParts
           /\ Cardinality(Finished) = JobParts => Finished = PartNum
           /\ Messages \in Nat
<1> DEFINE Whose == {"scheduler", "transfer"}
<1>1. IsFiniteSet(Whose)
  <2>1. IsFiniteSet({"scheduler"}) /\ Whose = {"scheduler"} \cup {"transfer"}
    BY FS_Singleton
  <2>2. IsFiniteSet({"scheduler"} \cup {"transfer"})
    BY <2>1, FS_AddElement
  <2> QED BY <2>1, <2>2
<1> HIDE DEF Whose
<1>2. IsFiniteSet(Whose \X PartNum)
  BY <1>1, PartNumbers, FS_Product
<1>3. IsFiniteSet((Whose \X PartNum) \cup {CancelMessage})
  BY <1>2, FS_AddElement
<1>4. toSend \subseteq (Whose \X PartNum) \cup {CancelMessage}
  BY DEF ResumeTypes, Whose
<1>5. IsFiniteSet(toSend)
  BY <1>3, <1>4, FS_Subset
<1>6. Cardinality(toSend) \in Nat
  BY <1>5, FS_CardinalityType
<1>7. Finished \subseteq PartNum
  BY DEF Finished
<1>8. /\ IsFiniteSet(Finished) /\ Cardinality(Finished) <= JobParts
      /\ JobParts = Cardinality(Finished) => PartNum = Finished
  <2>1. /\ IsFiniteSet(Finished) /\ Cardinality(Finished) <= Cardinality(PartNum)
        /\ Cardinality(PartNum) = Cardinality(Finished) => PartNum = Finished
    BY <1>7, PartNumbers, FS_Subset
  <2> QED BY <2>1, PartNumbers
<1>9. Cardinality(Finished) \in Nat
  BY <1>8, FS_CardinalityType
<1>10. Messages \in Nat
  BY <1>6 DEF Messages, ResumeTypes
<1> QED BY <1>5, <1>6, <1>8, <1>9, <1>10, ResumeAssumption

(* A new process knows of no finished part until it has queued one. *)
LEMMA NoneFinishedBefore ==
    ASSUME ResumeTypes, FrontEndInv, DoneInv, IsBefore
    PROVE  Finished = {} /\ Cardinality(Finished) = 0 /\ Messages = 0
<1>1. \A p \in PartNum : p \notin Finished
  BY CountedShape DEF Taken
<1>2. Finished = {}
  BY <1>1 DEF Finished
<1>3. Cardinality({}) = 0
  BY FS_EmptySet
<1>4. toSend = {} /\ handler = "idle" /\ partsReported = 0
  BY DEF FrontEndInv
<1>5. Cardinality(toSend) = 0
  BY <1>3, <1>4, Zenon
<1>6. Cardinality(Finished) = 0
  BY <1>2, <1>3, Zenon
<1> QED BY <1>2, <1>4, <1>5, <1>6 DEF Messages

(* The steps by which a part is finished. *)
LEMMA FinishingSteps ==
    ASSUME ResumeTypes, FrontEndInv, PartsInv, \A x \in JobTransfer : TxInv(x), DoneInv, RJNext
    PROVE  \/ PollSummary \/ ProcessDies
           \/ Finished' = Finished /\ \A x \in JobTransfer : ~CountsOne(x)
           \/ \E y \in JobTransfer : \E p \in PartNum :
                  /\ CountsOne(y) /\ p = y[1] /\ p \notin Finished
                  /\ Finished' = IF doneOfPart[p] + 1 = PartTransfers[p] THEN Finished \cup {p}
                                 ELSE Finished
<1>1. CASE UNCHANGED doneOfPart /\ \A x \in JobTransfer : ~CountsOne(x)
  BY <1>1 DEF Finished
<1>2. ASSUME NEW y \in JobTransfer, ~IsCounted(y), CountsOne(y),
             doneOfPart' = [doneOfPart EXCEPT ![y[1]] = @ + 1]
      PROVE  \E p \in PartNum :
                  /\ p = y[1] /\ p \notin Finished
                  /\ Finished' = IF doneOfPart[p] + 1 = PartTransfers[p] THEN Finished \cup {p}
                                 ELSE Finished
  <2>1. PICK p \in PartNum : p = y[1]
    BY JobTransferShape
  <2>2. y \in TransfersOfPart(p) /\ y \notin CountedOf(p)
    BY <1>2, <2>1 DEF CountedOf, TransfersOfPart
  <2>3. p \notin Finished
    BY <2>2, CountedShape
  <2>4. \A q \in PartNum : doneOfPart'[q] = IF q = p THEN doneOfPart[p] + 1 ELSE doneOfPart[q]
    BY <1>2, <2>1 DEF ResumeTypes
  <2>5. Finished' = IF doneOfPart[p] + 1 = PartTransfers[p] THEN Finished \cup {p} ELSE Finished
    BY <2>1, <2>3, <2>4 DEF Finished
  <2> QED BY <2>1, <2>3, <2>5
<1> QED BY <1>1, <1>2, CountingSteps

(* Every finished part is reported once, and nothing else is but a         *)
(* cancellation.                                                           *)
LEMMA ReportInvStep ==
    ASSUME ResumeTypes, FrontEndInv, PartsInv, \A x \in JobTransfer : TxInv(x), DoneInv,
            ReportInv, RJNext
    PROVE  ReportInv'
<1> USE DEF plan, manager, scheduler, counters, handlerState, statusManager
<1>a. /\ IsFiniteSet(toSend) /\ Cardinality(toSend) \in Nat
      /\ IsFiniteSet(Finished) /\ Cardinality(Finished) \in Nat /\ Cardinality(Finished) <= JobParts
      /\ Cardinality(Finished) = JobParts => Finished = PartNum
      /\ Messages \in Nat /\ partsReported \in Nat /\ JobParts \in Nat
  BY ReportsFinite, ResumeAssumption DEF ResumeTypes
<1>b. ASSUME NEW n \in Nat, NEW m \in Nat,
             \A report \in toSend' : IF report = CancelMessage THEN jobCancelled'
                                     ELSE report[2] \in Finished',
             Messages' = n, Cardinality(Finished') = m,
             n <= m + (IF jobCancelled' THEN 1 ELSE 0),
             ~jobCancelled' /\ jobStatus' = "InProgress" => n = m,
             handler' = "drain" /\ ~jobCancelled' => Finished' = PartNum /\ partsKnown' = JobParts
      PROVE  ReportInv'
  <2>1. Cardinality(Finished)' = m
    BY <1>b
  <2> QED BY <1>b, <2>1 DEF ReportInv
<1>1. CASE PollSummary \/ ProcessDies
  <2>1. /\ doneOfPart' = [p \in PartNum |-> 0] /\ toSend' = {} /\ handler' = "idle"
             /\ partsReported' = 0
        /\ jobCancelled' = FALSE
    BY <1>1 DEF PollSummary, ProcessDies, ForgetMemory
  <2>2. Finished' = {}
    BY <2>1, PartNumbers DEF Finished
  <2>3. Cardinality(Finished') = 0 /\ Cardinality(toSend') = 0
    BY <2>1, <2>2, FS_EmptySet, Zenon
  <2>4. Messages' = 0
    BY <2>1, <2>3 DEF Messages
  <2> QED BY <1>b, <2>1, <2>3, <2>4
<1>2. ASSUME NEW y \in JobTransfer, NEW p \in PartNum, CountsOne(y), p = y[1], p \notin Finished,
             Finished' = IF doneOfPart[p] + 1 = PartTransfers[p] THEN Finished \cup {p}
                         ELSE Finished
      PROVE  ReportInv'
  <2>1. UNCHANGED <<partsReported, handler, jobStatus, jobCancelled, partsKnown>>
    BY <1>2 DEF CountsOne, ScheduleDone, ReportTransferDone
  <2>2. PICK who \in {"scheduler", "transfer"} :
            toSend' = IF doneOfPart[p] + 1 = PartTransfers[p] THEN toSend \cup {<<who, p>>}
                      ELSE toSend
    BY <1>2 DEF CountsOne, ScheduleDone, ReportTransferDone, CountInPart
  <2>3. CASE doneOfPart[p] + 1 = PartTransfers[p]
    <3>1. toSend' = toSend \cup {<<who, p>>} /\ Finished' = Finished \cup {p}
      BY <1>2, <2>2, <2>3
    <3>2. <<who, p>> # CancelMessage
      BY DEF CancelMessage
    <3>3. <<who, p>> \notin toSend
      BY <1>2, <3>2 DEF ReportInv
    <3>4. Cardinality(toSend \cup {<<who, p>>}) = Cardinality(toSend) + 1
          /\ Cardinality(Finished \cup {p}) = Cardinality(Finished) + 1
      BY <1>2, <1>a, <3>3, FS_AddElement
    <3>5. Cardinality(toSend') = Cardinality(toSend) + 1
            /\ Cardinality(Finished') = Cardinality(Finished) + 1
      BY <3>1, <3>4
    <3>6. Messages' = Messages + 1
      BY <1>a, <2>1, <3>5 DEF Messages
    <3>7. \A report \in toSend' : IF report = CancelMessage THEN jobCancelled'
                                  ELSE report[2] \in Finished'
      BY <2>1, <3>1, <3>2 DEF ReportInv
    <3>8. ~(handler' = "drain" /\ ~jobCancelled')
      BY <1>2, <2>1 DEF ReportInv
    <3>9. /\ Messages + 1 <= Cardinality(Finished) + 1 + (IF jobCancelled' THEN 1 ELSE 0)
          /\ ~jobCancelled' /\ jobStatus' = "InProgress" => Messages + 1 = Cardinality(Finished) + 1
      BY <1>a, <2>1 DEF ReportInv
    <3> QED BY <1>a, <1>b, <3>5, <3>6, <3>7, <3>8, <3>9
  <2>4. CASE doneOfPart[p] + 1 # PartTransfers[p]
    <3>1. toSend' = toSend /\ Finished' = Finished
      BY <1>2, <2>2, <2>4
    <3> QED BY <2>1, <3>1 DEF ReportInv, Messages
  <2> QED BY <2>3, <2>4
<1>3. CASE Finished' = Finished /\ (\A x \in JobTransfer : ~CountsOne(x)) /\ ~PollSummary
        /\ ~ProcessDies
  <2>a. Cardinality(Finished') = Cardinality(Finished)
    BY <1>3
  <2>1. CASE UNCHANGED <<toSend, partsReported, handler, jobStatus, jobCancelled, partsKnown>>
    BY <1>3, <2>1 DEF ReportInv, Messages
  <2>2. CASE ReportJobPartDone
    <3>1. PICK report \in toSend : toSend' = toSend \ {report}
      BY <2>2 DEF ReportJobPartDone
    <3>2. /\ UNCHANGED <<partsReported, jobStatus, jobCancelled, partsKnown>>
          /\ handler = "idle" /\ handler' = "lookUpPart0"
      BY <2>2 DEF ReportJobPartDone
    <3>3. Cardinality(toSend \ {report}) = Cardinality(toSend) - 1
      BY <1>a, <3>1, FS_RemoveElement
    <3>4. Cardinality(toSend') = Cardinality(toSend) - 1
      BY <3>1, <3>3
    <3>5. Messages' = Messages
      BY <1>a, <3>2, <3>4 DEF Messages
    <3> QED BY <1>3, <1>a, <1>b, <2>a, <3>1, <3>2, <3>5 DEF ReportInv
  <2>3. CASE CountPart
    <3>1. /\ UNCHANGED <<toSend, jobStatus, jobCancelled, partsKnown, haveFinalPart, command>>
          /\ handler = "lookUpPart0" /\ handler' \in {"idle", "drain"}
               /\ partsReported' = partsReported + 1
          /\ handler' = "drain" => \/ haveFinalPart /\ partsReported + 1 = partsKnown
                                   \/ jobStatus = "Cancelling"
      BY <2>3 DEF CountPart
    <3>2. Messages' = Messages
      BY <1>a, <3>1 DEF Messages
    <3>3. handler' = "drain" /\ ~jobCancelled' => Finished' = PartNum /\ partsKnown' = JobParts
      <4> SUFFICES ASSUME handler' = "drain", ~jobCancelled
                   PROVE  Finished = PartNum /\ partsKnown = JobParts
        BY <1>3, <3>1
      <4>1. ~IsBefore
        BY <3>1 DEF FrontEndInv
      <4>2. jobStatus # "Cancelling"
        BY <4>1 DEF FrontEndInv, IsBefore, SettledStatuses
      <4>3. partsKnown = JobParts /\ partsReported + 1 = JobParts
        BY <3>1, <4>2 DEF FrontEndInv
      <4>4. Messages >= JobParts
        BY <1>a, <3>1, <4>3 DEF Messages
      <4>5. Cardinality(Finished) = JobParts
        BY <1>a, <4>4 DEF ReportInv
      <4> QED BY <1>a, <4>3, <4>5
    <3> QED BY <1>3, <1>a, <1>b, <2>a, <3>1, <3>2, <3>3 DEF ReportInv
  <2>4. CASE SettleJob
    <3>1. /\ UNCHANGED <<toSend, jobCancelled, partsKnown>>
          /\ handler = "drain" /\ handler' = "idle" /\ partsReported' = 0
               /\ jobStatus' # "InProgress"
      BY <2>4 DEF SettleJob, EnhancedStatus
    <3>2. Messages' \in Nat /\ Messages' <= Messages
      BY <1>a, <3>1 DEF Messages
    <3>3. Messages' <= Cardinality(Finished) + (IF jobCancelled' THEN 1 ELSE 0)
      BY <1>a, <3>1, <3>2 DEF ReportInv
    <3>4. \A report \in toSend' : IF report = CancelMessage THEN jobCancelled'
                                  ELSE report[2] \in Finished'
      BY <1>3, <3>1 DEF ReportInv
    <3> QED BY <1>a, <1>b, <2>a, <3>1, <3>2, <3>3, <3>4
  <2>5. CASE CancelPauseJob
    <3>1. /\ UNCHANGED <<partsReported, handler, partsKnown>> /\ ~jobCancelled
               /\ jobCancelled' = TRUE
          /\ toSend' = toSend \cup {CancelMessage}
      BY <2>5 DEF CancelPauseJob
    <3>2. CancelMessage \notin toSend
      BY <3>1 DEF ReportInv
    <3>3. Cardinality(toSend \cup {CancelMessage}) = Cardinality(toSend) + 1
      BY <1>a, <3>2, FS_AddElement
    <3>4. Cardinality(toSend') = Cardinality(toSend) + 1
      BY <3>1, <3>3
    <3>5. Messages' = Messages + 1
      BY <1>a, <3>1, <3>4 DEF Messages
    <3>6. Messages + 1 <= Cardinality(Finished) + 1
      BY <1>a, <3>1 DEF ReportInv
    <3>7. \A report \in toSend' : IF report = CancelMessage THEN jobCancelled'
                                  ELSE report[2] \in Finished'
      BY <1>3, <3>1 DEF ReportInv
    <3> QED BY <1>a, <1>b, <2>a, <3>1, <3>5, <3>6, <3>7
  <2>6. CASE ResetJob
    <3>1. IsBefore /\ UNCHANGED <<toSend, partsReported, handler, jobCancelled, partsKnown>>
      BY <2>6 DEF ResetJob, IsBefore
    <3>2. Cardinality(Finished) = 0 /\ Messages = 0 /\ handler = "idle"
      BY <3>1, NoneFinishedBefore DEF FrontEndInv
    <3>3. Messages' = 0
      BY <3>1, <3>2 DEF Messages
    <3>4. toSend' = {}
      BY <3>1 DEF FrontEndInv
    <3> QED BY <1>b, <2>a, <3>1, <3>2, <3>3, <3>4
  <2>7. CASE SettleCancelling
    <3>1. UNCHANGED <<toSend, partsReported, handler, jobCancelled, partsKnown>>
            /\ jobStatus' = "Cancelled"
      BY <2>7 DEF SettleCancelling
    <3>2. Messages' = Messages
      BY <3>1 DEF Messages
    <3> QED BY <1>3, <1>a, <1>b, <2>a, <3>1, <3>2 DEF ReportInv
  <2>8. CASE AddNewJobPart
    <3>1. UNCHANGED <<toSend, partsReported, handler, jobStatus, jobCancelled>>
            /\ partsKnown # JobParts
      BY <2>8 DEF AddNewJobPart, FrontEndInv, ResumeTypes
    <3>2. Messages' = Messages
      BY <3>1 DEF Messages
    <3> QED BY <1>3, <1>a, <1>b, <2>a, <3>1, <3>2 DEF ReportInv
  <2>9. CASE ResurrectJob
    <3>1. UNCHANGED <<toSend, partsReported, handler, jobStatus, jobCancelled>> /\ IsBefore
      BY <2>9 DEF ResurrectJob, IsBefore
    <3>2. Messages' = Messages /\ handler = "idle"
      BY <3>1 DEF Messages, FrontEndInv
    <3> QED BY <1>3, <1>a, <1>b, <2>a, <3>1, <3>2 DEF ReportInv
  <2>10. CASE \/ CreatePlanFile \/ RestartTransfer \/ RestartedAll \/ QueueResumedPart \/ QueuedAll
              \/ TakePart \/ SchedulePending \/ HandleXferDone
              \/ \E x \in JobTransfer : RunTransfer(x) \/ SendXferDoneMsg(x)
    <3>1. UNCHANGED <<toSend, partsReported, handler, jobStatus, jobCancelled, partsKnown>>
      BY <2>10
      DEF CreatePlanFile, RestartTransfer, RestartedAll, QueueResumedPart, QueuedAll, TakePart,
          SchedulePending, HandleXferDone, RunTransfer, SendXferDoneMsg
    <3> QED BY <2>1, <3>1
  <2>11. /\ ~ScheduleDone /\ \A x \in JobTransfer : ~ReportTransferDone(x)
    BY <1>3, ScheduleAdds DEF CountsOne
  <2> QED BY <1>3, <2>2, <2>3, <2>4, <2>5, <2>6, <2>7, <2>8, <2>9, <2>10, <2>11
          DEF RJNext, FrontEndStep, ResumeStep, SchedulerStep, TxStep, HandlerProgress
<1> QED BY <1>1, <1>2, <1>3, FinishingSteps

-----------------------------------------------------------------------------
(* What the summary has. *)
LEMMA SummarySetsFinite ==
    /\ IsFiniteSet(Successes) /\ Cardinality(Successes) \in Nat
    /\ \A s : IsFiniteSet(HandledWith(s)) /\ Cardinality(HandledWith(s)) \in Nat
<1>1. Successes \subseteq JobTransfer /\ \A s : HandledWith(s) \subseteq JobTransfer
  BY DEF Successes, HandledWith
<1>2. IsFiniteSet(Successes) /\ \A s : IsFiniteSet(HandledWith(s))
  BY <1>1, JobTransferFinite, FS_Subset
<1> QED BY <1>2, FS_CardinalityType

(* It is exact as long as neither it nor what it counts changes. *)
LEMMA SummarySame ==
    ASSUME SummaryInv, Successes' = Successes,
           HandledWith("Failed")' = HandledWith("Failed"),
           HandledWith("Skipped")' = HandledWith("Skipped"),
           summary'.completed = summary.completed, summary'.failed = summary.failed,
           summary'.skipped = summary.skipped,
           command = "down" => command' = "down",
           command = "resetStatus" => command' \in {"down", "resetStatus"}
    PROVE  SummaryInv'
<1>1. command' # "down" => summary'.completed = Cardinality(Successes')
  BY DEF SummaryInv
<1>2. command' \notin {"down", "resetStatus"} =>
          summary'.failed = Cardinality(HandledWith("Failed")')
  BY DEF SummaryInv
<1>3. summary'.skipped >= Cardinality(HandledWith("Skipped")')
  BY DEF SummaryInv
<1> QED BY <1>1, <1>2, <1>3 DEF SummaryInv

(* The status manager adds the outcome of one transfer to it. *)
LEMMA SummaryOne ==
    ASSUME ResumeTypes, FrontEndInv, PartsInv, \A x \in JobTransfer : TxInv(x), SummaryInv,
           HandleXferDone
    PROVE  SummaryInv'
<1>1. PICK y \in unhandled : summary' = WithOutcome(summary, txStatus[y])
        /\ unhandled' = unhandled \ {y}
  BY DEF HandleXferDone
<1>2. UNCHANGED <<txStatus, txPc, command>> /\ ~IsBefore
  BY NothingRunsBefore DEF HandleXferDone, plan, counters
<1>3. y \in JobTransfer /\ txPc[y] \in {"sent", "reported"} /\ ~InSummary(y)
  BY <1>1 DEF ResumeTypes, TxInv, InSummary
<1>4. \A x \in JobTransfer : InSummary(x)' <=> InSummary(x) \/ x = y
  BY <1>1, <1>2, <1>3 DEF InSummary
<1>5. /\ Successes' = IF txStatus[y] = "Success" THEN Successes \cup {y} ELSE Successes
      /\ y \notin Successes
  BY <1>2, <1>3, <1>4 DEF Successes
<1>6. ASSUME NEW s
      PROVE  /\ HandledWith(s)' = IF txStatus[y] = s THEN HandledWith(s) \cup {y}
                                ELSE HandledWith(s)
             /\ y \notin HandledWith(s)
  BY <1>2, <1>3, <1>4 DEF HandledWith
<1>7. Cardinality(Successes \cup {y}) = Cardinality(Successes) + 1
  BY <1>5, SummarySetsFinite, FS_AddElement
<1>8. ASSUME NEW s PROVE Cardinality(HandledWith(s) \cup {y}) = Cardinality(HandledWith(s)) + 1
  BY <1>6, SummarySetsFinite, FS_AddElement
<1>9. Cardinality(Successes') = Cardinality(Successes) + (IF txStatus[y] = "Success" THEN 1 ELSE 0)
  BY <1>5, <1>7, SummarySetsFinite
<1>10. ASSUME NEW s
       PROVE  Cardinality(HandledWith(s)') =
                  Cardinality(HandledWith(s)) + (IF txStatus[y] = s THEN 1 ELSE 0)
  BY <1>6, <1>8, SummarySetsFinite
<1>11. /\ summary'.completed = summary.completed + (IF txStatus[y] = "Success" THEN 1 ELSE 0)
       /\ summary'.failed = summary.failed + (IF txStatus[y] = "Failed" THEN 1 ELSE 0)
       /\ summary'.skipped = summary.skipped + (IF txStatus[y] = "Skipped" THEN 1 ELSE 0)
  BY <1>1 DEF WithOutcome, Summaries, ResumeTypes
<1>12. summary.completed = Cardinality(Successes)
        /\ summary.failed = Cardinality(HandledWith("Failed"))
       /\ summary.skipped >= Cardinality(HandledWith("Skipped"))
  BY <1>2 DEF SummaryInv, IsBefore
<1>13. summary'.completed = Cardinality(Successes')
  BY <1>9, <1>11, <1>12
<1>14. summary'.failed = Cardinality(HandledWith("Failed")')
  BY <1>10, <1>11, <1>12
<1>15. summary'.skipped >= Cardinality(HandledWith("Skipped")')
  BY <1>10, <1>11, <1>12, SummarySetsFinite DEF ResumeTypes, Summaries
<1> QED BY <1>13, <1>14, <1>15 DEF SummaryInv

(* No step counts a transfer twice, and what is taken out of the summary   *)
(* is counted again.                                                       *)
LEMMA SummaryInvStep ==
    ASSUME ResumeTypes, FrontEndInv, PartsInv, \A x \in JobTransfer : TxInv(x), SummaryInv, RJNext
    PROVE  SummaryInv'
<1> USE DEF plan, manager, scheduler, counters, handlerState, statusManager
<1>a. /\ txStatus \in [JobTransfer -> {"Started", "Success", "Failed", "Skipped", "Cancelled"}]
      /\ txPc \in [JobTransfer -> {"idle", "queued", "settled", "sent", "reported"}]
      /\ unhandled \subseteq JobTransfer
  BY DEF ResumeTypes
<1>b. IsBefore => \A x \in JobTransfer : txPc[x] = "idle"
  BY <1>a DEF TxInv, IsScheduled, Taken
<1>c. (\A x \in JobTransfer : txPc'[x] = "idle") =>
          \A s : HandledWith(s)' = {} /\ Cardinality(HandledWith(s)') = 0
  <2> SUFFICES ASSUME \A x \in JobTransfer : txPc'[x] = "idle", NEW s
               PROVE  HandledWith(s)' = {} /\ Cardinality(HandledWith(s)') = 0
    OBVIOUS
  <2>1. HandledWith(s)' = {}
    BY DEF HandledWith, InSummary
  <2> QED BY <2>1, FS_EmptySet
<1>d. IsBefore => \A s : HandledWith(s) = {}
  BY <1>b DEF HandledWith, InSummary
<1>1. CASE PollSummary \/ ProcessDies
  <2>1. command' = "down" /\ summary' = NewSummary /\ txPc' = [x \in JobTransfer |-> "idle"]
    BY <1>1 DEF PollSummary, ProcessDies, ForgetMemory
  <2>2. Cardinality(HandledWith("Skipped")') = 0
    BY <2>1, <1>c
  <2> QED BY <2>1, <2>2 DEF SummaryInv, NewSummary
<1>2. CASE ResurrectJob
  <2>1. /\ command' = "resetStatus" /\ summary' = ResurrectedSummary /\ partFiles = JobParts
        /\ UNCHANGED <<txStatus, txPc, unhandled, partFiles>> /\ IsBefore
    BY <1>2 DEF ResurrectJob, IsBefore
  <2>2. Successes' = {x \in JobTransfer : x[1] < partFiles /\ txStatus[x] \in {"Success"}}
    <3>1. \A x \in JobTransfer : x[1] < partFiles
      BY <2>1, JobTransferShape, ResumeAssumption DEF PartNum
    <3>2. \A x \in JobTransfer : txPc'[x] = "idle" /\ txStatus'[x] = txStatus[x]
      BY <1>b, <2>1
    <3>3. Successes' = {x \in JobTransfer :
                       txStatus'[x] = "Success" /\ (txPc'[x] = "idle" \/ InSummary(x)')}
      BY DEF Successes
    <3> QED BY <3>1, <3>2, <3>3
  <2>3. summary'.completed = Cardinality(Successes')
    BY <2>1, <2>2 DEF ResurrectedSummary, CountIn
  <2>4. Cardinality(HandledWith("Skipped")') = 0
    BY <1>b, <1>c, <2>1
  <2>5. summary'.skipped \in Nat
    <3>1. CountIn({"Skipped"}) \in Nat
      BY JobTransferFinite, FS_Subset, FS_CardinalityType DEF CountIn
    <3> QED BY <2>1, <3>1 DEF ResurrectedSummary
  <2> QED BY <2>1, <2>3, <2>4, <2>5 DEF SummaryInv
<1>3. CASE ResetJob
  <2>1. /\ command = "resetStatus" /\ command' = "resetTransfers"
             /\ summary' = [summary EXCEPT !.failed = 0]
        /\ UNCHANGED <<txStatus, txPc, unhandled>> /\ IsBefore
    BY <1>3 DEF ResetJob, IsBefore
  <2>2. \A x : InSummary(x)' <=> InSummary(x)
    BY <2>1 DEF InSummary
  <2>3. Successes' = Successes
    BY <2>1, <2>2 DEF Successes
  <2>4. summary'.completed = Cardinality(Successes')
    BY <2>1, <2>3 DEF SummaryInv, ResumeTypes, Summaries
  <2>5. Cardinality(HandledWith("Skipped")') = 0 /\ Cardinality(HandledWith("Failed")') = 0
    BY <1>b, <1>c, <2>1
  <2>6. summary'.failed = 0 /\ summary'.skipped \in Nat
    BY <2>1 DEF ResumeTypes, Summaries
  <2> QED BY <2>1, <2>4, <2>5, <2>6 DEF SummaryInv
<1>4. CASE RestartTransfer
  <2>1. /\ IsBefore /\ UNCHANGED <<txPc, unhandled, command, summary>>
        /\ \A x \in JobTransfer : txStatus'[x] = "Success" <=> txStatus[x] = "Success"
    <3>1. PICK y \in NeedsRestart : txStatus' = [txStatus EXCEPT ![y] = "Started"]
      BY <1>4 DEF RestartTransfer
    <3>2. \A x \in JobTransfer : txStatus'[x] = "Success" <=> txStatus[x] = "Success"
      BY <1>a, <3>1 DEF NeedsRestart
    <3> QED BY <1>4, <3>2 DEF RestartTransfer, IsBefore
  <2>2. \A x : InSummary(x)' <=> InSummary(x)
    BY <2>1 DEF InSummary
  <2>3. Successes' = Successes
    BY <2>1, <2>2 DEF Successes
  <2>4. \A s : HandledWith(s)' = {} /\ HandledWith(s) = {}
    BY <1>b, <1>c, <1>d, <2>1
  <2> QED BY <2>1, <2>3, <2>4, SummarySame
<1>5. CASE HandleXferDone
  BY <1>5, SummaryOne
<1>6. ASSUME /\ summary'.completed = summary.completed /\ summary'.failed = summary.failed
             /\ summary'.skipped = summary.skipped,
             command \notin {"down", "resetStatus"} \/ UNCHANGED command,
             \A x \in JobTransfer :
                 /\ InSummary(x)' <=> InSummary(x)
                 /\ InSummary(x) => txStatus'[x] = txStatus[x]
                 /\ x \in Successes' <=> x \in Successes
      PROVE  SummaryInv'
  <2>1. \A s : HandledWith(s)' = HandledWith(s)
    BY <1>6 DEF HandledWith
  <2>2. Successes' = Successes
    BY <1>6 DEF Successes
  <2> QED BY <1>6, <2>1, <2>2, SummarySame
<1>7. ASSUME UNCHANGED <<txStatus, txPc, unhandled>>
      PROVE  \A x \in JobTransfer : /\ InSummary(x)' <=> InSummary(x)
                                    /\ InSummary(x) => txStatus'[x] = txStatus[x]
                                    /\ x \in Successes' <=> x \in Successes
  <2>1. \A x : InSummary(x)' <=> InSummary(x)
    BY <1>7 DEF InSummary
  <2>2. Successes' = Successes
    BY <1>7, <2>1 DEF Successes
  <2> QED BY <1>7, <2>1, <2>2
<1>8. CASE AddNewJobPart
  <2>1. /\ summary'.completed = summary.completed /\ summary'.failed = summary.failed
        /\ summary'.skipped = summary.skipped /\ command = "addPart"
    BY <1>8 DEF AddNewJobPart, ResumeTypes, Summaries
  <2>2. UNCHANGED <<txStatus, txPc, unhandled>>
    BY <1>8 DEF AddNewJobPart
  <2> QED BY <1>6, <1>7, <2>1, <2>2
<1>9. CASE \/ CreatePlanFile \/ SettleCancelling \/ RestartedAll \/ QueueResumedPart \/ QueuedAll
           \/ CancelPauseJob \/ TakePart \/ ScheduleDone \/ HandlerProgress
  <2>1. UNCHANGED <<txStatus, txPc, unhandled, summary>>
    BY <1>9
    DEF CreatePlanFile, SettleCancelling, RestartedAll, QueueResumedPart, QueuedAll, CancelPauseJob,
        TakePart, ScheduleDone, HandlerProgress, ReportJobPartDone, CountPart, SettleJob
  <2>2. command \notin {"down", "resetStatus"} \/ UNCHANGED command
    BY <1>9
    DEF CreatePlanFile, SettleCancelling, RestartedAll, QueueResumedPart, QueuedAll, CancelPauseJob,
        TakePart, ScheduleDone, HandlerProgress, ReportJobPartDone, CountPart, SettleJob
  <2> QED BY <1>6, <1>7, <2>1, <2>2
<1>10. CASE SchedulePending
  <2>1. /\ <<current, nextTx>> \in JobTransfer /\ ~IsScheduled(<<current, nextTx>>)
    BY <1>10, ScheduleAdds
  <2>2. PICK y \in JobTransfer : y = <<current, nextTx>>
    BY <2>1
  <2>3. /\ UNCHANGED <<txStatus, unhandled, command, summary>>
        /\ txStatus[y] # "Success" /\ txPc' = [txPc EXCEPT ![y] = "queued"]
    BY <1>10, <2>2 DEF SchedulePending
  <2>4. txPc[y] = "idle"
    BY <2>1, <2>2, <1>a DEF TxInv
  <2>5. ASSUME NEW x \in JobTransfer PROVE InSummary(x)' <=> InSummary(x)
    BY <1>a, <2>3, <2>4 DEF InSummary
  <2>6. ASSUME NEW x \in JobTransfer PROVE x \in Successes' <=> x \in Successes
    BY <1>a, <2>3, <2>4, <2>5 DEF Successes
  <2> QED BY <1>6, <2>3, <2>5, <2>6
<1>11. ASSUME NEW y \in JobTransfer, TxStep(y) PROVE SummaryInv'
  <2>1. UNCHANGED <<command, summary>>
    BY <1>11 DEF TxStep, RunTransfer, SendXferDoneMsg, ReportTransferDone
  <2>2. CASE RunTransfer(y)
    <3>1. PICK s \in TransferResults \cup {"Cancelled"} : txStatus' = [txStatus EXCEPT ![y] = s]
      BY <2>2 DEF RunTransfer
    <3>2. txPc[y] = "queued" /\ txPc' = [txPc EXCEPT ![y] = "settled"] /\ UNCHANGED unhandled
      BY <2>2 DEF RunTransfer
    <3>3. ASSUME NEW x \in JobTransfer
          PROVE  (InSummary(x)' <=> InSummary(x)) /\ (InSummary(x) => txStatus'[x] = txStatus[x])
      BY <1>a, <3>1, <3>2 DEF InSummary
    <3>4. txStatus[y] # "Success"
      BY <3>2 DEF TxInv
    <3>5. ASSUME NEW x \in JobTransfer PROVE x \in Successes' <=> x \in Successes
      BY <1>a, <3>1, <3>2, <3>3, <3>4 DEF Successes, InSummary
    <3> QED BY <1>6, <2>1, <3>3, <3>5
  <2>3. CASE SendXferDoneMsg(y) \/ ReportTransferDone(y)
    <3>1. /\ \/ txPc[y] = "settled" /\ txPc' = [txPc EXCEPT ![y] = "sent"]
                  /\ unhandled' = unhandled \cup {y}
             \/ txPc[y] = "sent" /\ txPc' = [txPc EXCEPT ![y] = "reported"] /\ UNCHANGED unhandled
          /\ UNCHANGED txStatus
      BY <2>3 DEF SendXferDoneMsg, ReportTransferDone
    <3>2. ASSUME NEW x \in JobTransfer PROVE InSummary(x)' <=> InSummary(x)
      BY <1>a, <3>1 DEF InSummary
    <3>3. ASSUME NEW x \in JobTransfer PROVE x \in Successes' <=> x \in Successes
      BY <1>a, <3>1, <3>2 DEF Successes
    <3> QED BY <1>6, <2>1, <3>1, <3>2, <3>3
  <2> QED BY <1>11, <2>2, <2>3 DEF TxStep
<1> QED BY <1>1, <1>2, <1>3, <1>4, <1>5, <1>8, <1>9, <1>10, <1>11
        DEF RJNext, FrontEndStep, ResumeStep, SchedulerStep

-----------------------------------------------------------------------------
(* Nothing moves any more in a job that is settled. *)
AllAtRest ==
    /\ \A x \in JobTransfer : txPc[x] \in {"idle", "reported"}
    /\ unhandled = {} /\ Finished = PartNum

(* When the handler settles a job that was in progress, every transfer has *)
(* been counted and was settled.                                           *)
LEMMA SettlesAtTheEnd ==
    ASSUME ResumeTypes, FrontEndInv, PartsInv, \A x \in JobTransfer : TxInv(x), DoneInv, ReportInv,
           SettleJob, jobStatus = "InProgress"
    PROVE  /\ partFiles = JobParts /\ AllAtRest
           /\ \A x \in JobTransfer : txStatus[x] # "Started"
<1>1. handler = "drain" /\ unhandled = {}
  BY DEF SettleJob
<1>2. ~jobCancelled
  BY DEF FrontEndInv
<1>3. Finished = PartNum /\ partsKnown = JobParts
  BY <1>1, <1>2 DEF ReportInv
<1>4. partFiles = JobParts
  BY <1>3, ResumeAssumption DEF ResumeTypes
<1>5. ASSUME NEW x \in JobTransfer
      PROVE  txPc[x] \in {"idle", "reported"} /\ txStatus[x] # "Started"
  <2>1. x[1] \in PartNum
    BY JobTransferShape
  <2>2. CountedOf(x[1]) = TransfersOfPart(x[1])
    BY <1>3, <2>1, CountedShape
  <2>3. IsCounted(x)
    BY <2>2 DEF CountedOf, TransfersOfPart
  <2> QED BY <2>3 DEF IsCounted, TxInv
<1> QED BY <1>1, <1>3, <1>4, <1>5 DEF AllAtRest

(* A job at rest stays at rest, until its process is over. *)
LEMMA StaysAtRest ==
    ASSUME ResumeTypes, FrontEndInv, PartsInv, \A x \in JobTransfer : TxInv(x), DoneInv, RJNext,
           AllAtRest, ~PollSummary, ~ProcessDies
    PROVE  /\ UNCHANGED <<txPc, unhandled>> /\ AllAtRest'
           /\ ~RestartTransfer => UNCHANGED txStatus
<1> USE DEF plan, manager, scheduler, counters, handlerState, statusManager
<1>1. /\ \A x \in JobTransfer : ~RunTransfer(x) /\ ~SendXferDoneMsg(x) /\ ~ReportTransferDone(x)
      /\ ~HandleXferDone
  BY DEF AllAtRest, RunTransfer, SendXferDoneMsg, ReportTransferDone, HandleXferDone
<1>2. Finished' = Finished /\ ~ScheduleDone
  <2>1. \/ Finished' = Finished /\ \A x \in JobTransfer : ~CountsOne(x)
        \/ \E p \in PartNum : p \notin Finished
    BY FinishingSteps
  <2>2. \A x \in JobTransfer : ~CountsOne(x)
    BY FinishingSteps DEF AllAtRest
  <2>3. ScheduleDone => <<current, nextTx>> \in JobTransfer
    BY ScheduleAdds
  <2> QED BY <2>1, <2>2, <2>3 DEF AllAtRest, CountsOne
<1>3. ~SchedulePending
  <2> SUFFICES ASSUME SchedulePending PROVE FALSE
    OBVIOUS
  <2>1. <<current, nextTx>> \in JobTransfer /\ ~IsScheduled(<<current, nextTx>>)
    BY ScheduleAdds
  <2>2. PICK y \in JobTransfer : y = <<current, nextTx>> /\ ~IsScheduled(y)
    BY <2>1
  <2>3. y[1] \in Finished
    BY JobTransferShape DEF AllAtRest
  <2>4. CountedOf(y[1]) = TransfersOfPart(y[1])
    BY <2>3, CountedShape DEF Finished
  <2>5. IsCounted(y)
    BY <2>4 DEF CountedOf, TransfersOfPart
  <2> QED BY <2>2, <2>5 DEF IsCounted
<1>4. UNCHANGED <<txPc, unhandled>> /\ (~RestartTransfer => UNCHANGED txStatus)
  <2>1. CASE FrontEndStep \/ ResurrectJob \/ CancelPauseJob
    BY <2>1
    DEF FrontEndStep, ResumeStep, CreatePlanFile, AddNewJobPart, SettleCancelling, ResetJob,
        RestartTransfer, RestartedAll, QueueResumedPart, QueuedAll, ResurrectJob, CancelPauseJob
  <2>2. CASE TakePart \/ HandlerProgress
    BY <2>2 DEF TakePart, HandlerProgress, ReportJobPartDone, CountPart, SettleJob
  <2> QED BY <1>1, <1>2, <1>3, <2>1, <2>2 DEF RJNext, SchedulerStep, TxStep
<1> QED BY <1>2, <1>4 DEF AllAtRest

(* A job is settled when all is done, and then stays so. *)
LEMMA SettledInvStep ==
    ASSUME ResumeTypes, FrontEndInv, PartsInv, \A x \in JobTransfer : TxInv(x), DoneInv, ReportInv,
           SettledInv, RJNext
    PROVE  SettledInv'
<1> USE DEF plan, manager, scheduler, counters, handlerState, statusManager
<1>a. ASSUME AllAtRest' \/ command' \in {"down", "resetStatus"},
             partFiles' = JobParts, \A x \in JobTransfer : txStatus'[x] # "Started"
      PROVE  SettledInv'
  BY <1>a DEF SettledInv, SettledJobHasNothingPending, AllAtRest
<1>1. CASE jobStatus' \notin SettledStatuses
  BY <1>1 DEF SettledInv, SettledJobHasNothingPending
<1>2. CASE SettleJob /\ jobStatus = "InProgress"
  <2>1. /\ partFiles = JobParts /\ AllAtRest /\ \A x \in JobTransfer : txStatus[x] # "Started"
    BY <1>2, SettlesAtTheEnd
  <2>2. ~PollSummary /\ ~ProcessDies
    BY <1>2 DEF SettleJob, PollSummary, ProcessDies, Running, ForgetMemory
  <2>3. AllAtRest'
    BY <2>1, <2>2, StaysAtRest
  <2>4. UNCHANGED <<partFiles, txStatus>>
    BY <1>2 DEF SettleJob
  <2> QED BY <1>a, <2>1, <2>3, <2>4
<1>3. CASE jobStatus' \in SettledStatuses /\ ~(SettleJob /\ jobStatus = "InProgress")
  <2>1. jobStatus \in SettledStatuses /\ jobStatus # "InProgress"
    <3>1. CASE UNCHANGED jobStatus
      BY <1>3, <3>1 DEF SettledStatuses
    <3>2. CASE SettleCancelling \/ ResetJob \/ CancelPauseJob
      BY <1>3, <3>2 DEF SettleCancelling, ResetJob, CancelPauseJob, SettledStatuses
    <3>3. CASE SettleJob
      BY <1>3, <3>3 DEF SettleJob, SettledStatuses
    <3>4. CASE \/ CreatePlanFile \/ AddNewJobPart \/ RestartTransfer \/ RestartedAll
                    \/ QueueResumedPart
               \/ QueuedAll \/ PollSummary \/ ProcessDies \/ ResurrectJob \/ SchedulerStep
               \/ (\E x \in JobTransfer : TxStep(x)) \/ HandleXferDone \/ ReportJobPartDone
                    \/ CountPart
      <4>1. UNCHANGED jobStatus
        BY <3>4
        DEF CreatePlanFile, AddNewJobPart, RestartTransfer, RestartedAll, QueueResumedPart,
                QueuedAll,
            PollSummary, ProcessDies, ResurrectJob, SchedulerStep, TakePart, ScheduleDone,
            SchedulePending, TxStep, RunTransfer, SendXferDoneMsg, ReportTransferDone,
            HandleXferDone, ReportJobPartDone, CountPart
      <4> QED BY <3>1, <4>1
    <3> QED BY <3>2, <3>3, <3>4 DEF RJNext, FrontEndStep, ResumeStep, HandlerProgress
  <2>2. partFiles = JobParts /\ \A x \in JobTransfer : txStatus[x] # "Started"
    BY <2>1 DEF SettledInv, SettledJobHasNothingPending
  <2>3. command # "resetTransfers" /\ command # "createPlan"
    BY <2>1, <2>2, ResumeAssumption DEF FrontEndInv
  <2>4. ~CreatePlanFile /\ ~RestartTransfer
    BY <2>3 DEF CreatePlanFile, RestartTransfer
  <2>5. CASE PollSummary \/ ProcessDies
    <3>1. command' = "down" /\ UNCHANGED <<partFiles, txStatus>>
      BY <2>5 DEF PollSummary, ProcessDies, ForgetMemory
    <3> QED BY <1>a, <2>2, <3>1
  <2>6. CASE ResurrectJob
    <3>1. command' = "resetStatus" /\ UNCHANGED <<partFiles, txStatus>>
      BY <2>6 DEF ResurrectJob
    <3> QED BY <1>a, <2>2, <3>1
  <2>7. CASE SettleCancelling \/ ResetJob
    BY <1>3, <2>7 DEF SettleCancelling, ResetJob, SettledStatuses
  <2>8. CASE ~PollSummary /\ ~ProcessDies /\ ~ResurrectJob /\ ~SettleCancelling /\ ~ResetJob
    <3>1. UNCHANGED partFiles
      <4>1. CASE \/ AddNewJobPart \/ RestartedAll \/ QueueResumedPart \/ QueuedAll \/ CancelPauseJob
                 \/ SchedulerStep
        BY <4>1
        DEF AddNewJobPart, RestartedAll, QueueResumedPart, QueuedAll, CancelPauseJob, SchedulerStep,
            TakePart, ScheduleDone, SchedulePending
      <4>2. CASE (\E x \in JobTransfer : TxStep(x)) \/ HandleXferDone \/ HandlerProgress
        BY <4>2
        DEF TxStep, RunTransfer, SendXferDoneMsg, ReportTransferDone, HandleXferDone,
            HandlerProgress, ReportJobPartDone, CountPart, SettleJob
      <4> QED BY <2>4, <2>8, <4>1, <4>2 DEF RJNext, FrontEndStep, ResumeStep
    <3>2. command \notin {"down", "resetStatus"}
      <4>1. command = "resetStatus" \/ command = "down" => IsBefore
        BY DEF IsBefore
      <4>2. command = "resetStatus" \/ command = "down" =>
                ~SchedulerStep /\ ~HandleXferDone /\ ~HandlerProgress
                        /\ \A x \in JobTransfer : ~TxStep(x)
        BY <4>1, NothingRunsBefore
      <4>3. command = "resetStatus" \/ command = "down" =>
                ~AddNewJobPart /\ ~RestartedAll /\ ~QueueResumedPart /\ ~QueuedAll
                        /\ ~CancelPauseJob
        BY DEF AddNewJobPart, RestartedAll, QueueResumedPart, QueuedAll, CancelPauseJob, Running
      <4> QED BY <2>4, <2>8, <4>2, <4>3 DEF RJNext, FrontEndStep, ResumeStep
    <3>3. AllAtRest
      BY <2>1, <3>2 DEF SettledInv, AllAtRest
    <3>4. AllAtRest' /\ UNCHANGED txStatus
      BY <2>4, <2>8, <3>3, StaysAtRest
    <3> QED BY <1>a, <2>2, <3>1, <3>4
  <2> QED BY <2>5, <2>6, <2>7, <2>8
<1> QED BY <1>1, <1>2, <1>3

-----------------------------------------------------------------------------
(* The first process begins with nothing on disk and nothing done. *)
LEMMA InitResume == RJInit => ResInv
<1> SUFFICES ASSUME RJInit PROVE ResInv
  OBVIOUS
<1> USE ResumeAssumption DEF RJInit, FreshMemory
<1>1. ResumeTypes
  <2>1. summary \in Summaries
    BY DEF NewSummary, Summaries
  <2>2. queue \in Seq(PartNum)
    OBVIOUS
  <2>3. doneOfPart \in [PartNum -> Nat]
        /\ txStatus \in [JobTransfer -> {"Started", "Success", "Failed", "Skipped", "Cancelled"}]
        /\ txPc \in [JobTransfer -> {"idle", "queued", "settled", "sent", "reported"}]
    OBVIOUS
  <2>4. /\ partFiles \in 0 .. JobParts
        /\ processes \in 1 .. (IF MaxProcesses > 1 THEN MaxProcesses ELSE 1)
        /\ partsKnown \in 0 .. partFiles /\ current \in -1 .. partsKnown - 1
    OBVIOUS
  <2> QED BY <2>1, <2>2, <2>3, <2>4 DEF ResumeTypes
<1>2. FrontEndInv
  BY DEF FrontEndInv, IsBefore
<1>3. PartsInv
  BY DEF PartsInv
<1>4. \A p : ~Taken(p)
  BY DEF Taken
<1>5. \A x \in JobTransfer : TxInv(x)
  BY <1>4 DEF TxInv, IsScheduled
<1>6. DoneInv
  <2>1. \A p : CountedOf(p) = {}
    BY <1>4 DEF CountedOf, IsCounted, IsScheduled
  <2>2. \A p : Cardinality(CountedOf(p)) = 0
    BY <2>1, FS_EmptySet
  <2> QED BY <2>2 DEF DoneInv
<1>7. ReportInv
  <2>1. Finished = {}
    BY PartNumbers DEF Finished
  <2>2. Cardinality(Finished) = 0 /\ Cardinality(toSend) = 0
    <3>1. Cardinality({}) = 0 /\ toSend = {}
      BY FS_EmptySet
    <3> QED BY <2>1, <3>1, Zenon
  <2>3. Messages = 0
    BY <2>2 DEF Messages
  <2> QED BY <2>2, <2>3 DEF ReportInv
<1>8. SummaryInv
  <2>1. Successes = {} /\ \A s : HandledWith(s) = {}
    BY DEF Successes, HandledWith, InSummary
  <2>2. Cardinality(Successes) = 0 /\ \A s : Cardinality(HandledWith(s)) = 0
    BY <2>1, FS_EmptySet
  <2> QED BY <2>2 DEF SummaryInv, NewSummary
<1>9. SettledInv
  BY DEF SettledInv, SettledJobHasNothingPending, SettledStatuses
<1> QED BY <1>1, <1>2, <1>3, <1>5, <1>6, <1>7, <1>8, <1>9 DEF ResInv

(* ResInv is inductive. *)
LEMMA ResInvStep == ResInv /\ [RJNext]_rjVars => ResInv'
<1>1. ASSUME ResInv, RJNext PROVE ResInv'
  <2>1. /\ ResumeTypes /\ FrontEndInv /\ PartsInv /\ (\A x \in JobTransfer : TxInv(x))
        /\ DoneInv /\ ReportInv /\ SummaryInv /\ SettledInv
    BY <1>1 DEF ResInv
  <2>2. ResumeTypes' /\ FrontEndInv' /\ PartsInv' /\ \A x \in JobTransfer : TxInv(x)'
    BY <1>1, <2>1, ResumeTypesStep, FrontEndInvStep, PartsStep, TxInvStep
  <2>3. DoneInv' /\ ReportInv'
    BY <1>1, <2>1, DoneInvStep, ReportInvStep
  <2>4. SummaryInv' /\ SettledInv'
    BY <1>1, <2>1, SummaryInvStep, SettledInvStep
  <2> QED BY <2>2, <2>3, <2>4 DEF ResInv
<1>2. ASSUME ResInv, UNCHANGED rjVars PROVE ResInv'
  <2>1. UNCHANGED <<partFiles, jobStatus, txStatus, processes, command, partsKnown, haveFinalPart,
                    jobCancelled, queue, toQueue, current, nextTx, doneOfPart, txPc, toSend,
                    handler, partsReported, unhandled, summary>>
    BY <1>2 DEF rjVars, plan, manager, scheduler, counters, handlerState, statusManager
  <2>2. /\ ResumeTypes /\ FrontEndInv /\ PartsInv /\ (\A x \in JobTransfer : TxInv(x))
        /\ DoneInv /\ ReportInv /\ SummaryInv /\ SettledInv
    BY <1>2 DEF ResInv
  <2>3. ResumeTypes'
    BY <2>1, <2>2 DEF ResumeTypes
  <2>4. FrontEndInv' /\ PartsInv'
    BY <2>1, <2>2 DEF FrontEndInv, IsBefore, PartsInv, Taken, IsQueued
  <2>5. \A x \in JobTransfer : TxInv(x)'
    BY <2>1, <2>2 DEF TxInv, IsScheduled, IsBefore, Taken, IsQueued
  <2>6. \A x \in JobTransfer : IsCounted(x)' <=> IsCounted(x)
    BY <2>1 DEF IsCounted, IsScheduled, IsBefore, Taken, IsQueued
  <2>7. DoneInv'
    BY <2>1, <2>2, <2>6, CountSame
  <2>8. Finished' = Finished
    BY <2>1 DEF Finished
  <2>9. ReportInv'
    BY <2>1, <2>2, <2>8 DEF ReportInv, Messages
  <2>10. Successes' = Successes /\ \A s : HandledWith(s)' = HandledWith(s)
    BY <2>1 DEF Successes, HandledWith, InSummary
  <2>11. SummaryInv'
    BY <2>1, <2>2, <2>10, SummarySame
  <2>12. SettledInv'
    BY <2>1, <2>2, <2>8 DEF SettledInv, SettledJobHasNothingPending
  <2> QED BY <2>3, <2>4, <2>5, <2>7, <2>9, <2>11, <2>12 DEF ResInv
<1> QED BY <1>1, <1>2

(* What the run checks follows from ResInv. *)
LEMMA ResInvImplies == ResInv => ResumeInv
<1> SUFFICES ASSUME ResInv PROVE ResumeInv
  OBVIOUS
<1>1. /\ ResumeTypes /\ FrontEndInv /\ PartsInv /\ (\A x \in JobTransfer : TxInv(x))
      /\ DoneInv /\ ReportInv /\ SummaryInv /\ SettledInv
  BY DEF ResInv
<1>2. RJTypeOK
  <2>1. \A i \in 1 .. Len(queue) : queue[i] \in 0 .. partsKnown - 1
    BY <1>1 DEF PartsInv
  <2>2. toQueue \subseteq 0 .. partsKnown - 1
    BY <1>1 DEF PartsInv
  <2>3. nextTx \in 0 .. (IF current = -1 THEN 0 ELSE PartTransfers[current])
    <3>1. CASE current = -1
      BY <1>1, <3>1 DEF PartsInv
    <3>2. CASE current # -1
      <4>1. current \in PartNum /\ nextTx <= PartTransfers[current] /\ nextTx \in Nat
        BY <1>1, <3>2, ResumeAssumption DEF PartsInv, ResumeTypes, PartNum
      <4>2. PartTransfers[current] \in Nat
        BY <4>1, PartNumbers
      <4> QED BY <3>2, <4>1, <4>2
    <3> QED BY <3>1, <3>2
  <2>4. \A p \in PartNum : doneOfPart[p] \in 0 .. PartTransfers[p]
    BY <1>1, CountedShape
  <2>5. partsReported \in 0 .. JobParts + 1
    <3>1. /\ Cardinality(toSend) \in Nat /\ Cardinality(Finished) <= JobParts
          /\ Cardinality(Finished) \in Nat
      BY <1>1, ReportsFinite, ResumeAssumption
    <3>2. partsReported <= Messages /\ Messages <= Cardinality(Finished) + 1 /\ Messages \in Nat
      <4>1. partsReported <= Messages /\ Messages \in Nat
        BY <1>1, <3>1 DEF Messages, ResumeTypes
      <4>2. Messages <= Cardinality(Finished) + 1
        BY <1>1, <3>1, <4>1 DEF ReportInv
      <4> QED BY <4>1, <4>2
    <3>3. partsReported \in Nat
      BY <1>1 DEF ResumeTypes
    <3> QED BY <3>1, <3>2, <3>3, ResumeAssumption
  <2> QED BY <1>1, <2>1, <2>2, <2>3, <2>4, <2>5 DEF RJTypeOK, ResumeTypes
<1>3. SettledJobHasNothingPending
  BY <1>1 DEF SettledInv
<1>4. ResumedSummaryIsExact
  <2> SUFFICES ASSUME command = "poll", jobStatus \in SettledStatuses
               PROVE  /\ summary.completed = CountIn({"Success"})
                      /\ summary.failed = CountIn({"Failed"})
                      /\ summary.skipped >= CountIn({"Skipped"})
    BY DEF ResumedSummaryIsExact
  <2>1. AllAtRest
    BY <1>1 DEF SettledInv, AllAtRest
  <2>2. \A x \in JobTransfer : x[1] < partFiles
    <3>1. partFiles = JobParts
      BY <1>1 DEF SettledInv, SettledJobHasNothingPending
    <3> QED BY <3>1, JobTransferShape, ResumeAssumption DEF PartNum
  <2>3. \A x \in JobTransfer : txPc[x] = "idle" => txStatus[x] \in {"Started", "Success"}
    BY <1>1 DEF TxInv, IsBefore
  <2>4. \A x \in JobTransfer : txPc[x] = "idle" \/ InSummary(x)
    BY <2>1 DEF AllAtRest, InSummary
  <2>5. Successes = {x \in JobTransfer : x[1] < partFiles /\ txStatus[x] \in {"Success"}}
    BY <2>2, <2>4 DEF Successes
  <2>6. HandledWith("Failed") = {x \in JobTransfer : x[1] < partFiles /\ txStatus[x] \in {"Failed"}}
    BY <2>2, <2>3, <2>4 DEF HandledWith
  <2>7. HandledWith("Skipped") =
            {x \in JobTransfer : x[1] < partFiles /\ txStatus[x] \in {"Skipped"}}
    BY <2>2, <2>3, <2>4 DEF HandledWith
  <2>8. summary.completed = CountIn({"Success"})
    BY <1>1, <2>5 DEF SummaryInv, CountIn
  <2>9. summary.failed = CountIn({"Failed"})
    BY <1>1, <2>6 DEF SummaryInv, CountIn
  <2>10. summary.skipped >= CountIn({"Skipped"})
    BY <1>1, <2>7 DEF SummaryInv, CountIn
  <2> QED BY <2>8, <2>9, <2>10
<1>5. NoPartIsMissedAtTheEnd
  BY <1>1 DEF NoPartIsMissedAtTheEnd, ReportInv, Finished
<1> QED BY <1>2, <1>3, <1>4, <1>5 DEF ResumeInv

(* The inductive invariant holds, for any parts, transfers and processes,  *)
(* and a death or a cancellation at any step.                              *)
THEOREM ResumeInvariant == RJSpec => []ResInv
BY InitResume, ResInvStep, PTL DEF RJSpec

(* A job that several processes work on, whenever they die, is over when   *)
(* its plan says so, with nothing left to do, and the summary of the       *)
(* process that completes it counts every transfer once.                   *)
THEOREM ResumeInvHolds == RJSpec => []ResumeInv
BY ResumeInvariant, ResInvImplies, PTL

(* What one process has transferred no later one transfers again. *)
THEOREM SuccessesStay == RJSpec => WhatSucceededStays
<1> DEFINE Stays == \A x \in JobTransfer :
               txStatus[x] = "Success" =>
                   txStatus'[x] = "Success" /\ ~(txPc[x] = "idle" /\ txPc'[x] = "queued")
<1>1. ResInv /\ [RJNext]_rjVars => [Stays]_rjVars
  <2> SUFFICES ASSUME ResInv, RJNext, NEW x \in JobTransfer, txStatus[x] = "Success"
               PROVE  txStatus'[x] = "Success" /\ ~(txPc[x] = "idle" /\ txPc'[x] = "queued")
    OBVIOUS
  <2> USE DEF plan, manager, scheduler, counters, handlerState, statusManager
  <2>1. /\ txStatus \in [JobTransfer -> {"Started", "Success", "Failed", "Skipped", "Cancelled"}]
        /\ txPc \in [JobTransfer -> {"idle", "queued", "settled", "sent", "reported"}]
        /\ txPc[x] # "queued"
    BY DEF ResInv, ResumeTypes, TxInv
  <2>2. CASE SchedulePending
    <3>1. PICK y : y = <<current, nextTx>> /\ txStatus[y] # "Success"
            /\ txPc' = [txPc EXCEPT ![y] = "queued"]
      BY <2>2 DEF SchedulePending
    <3>2. UNCHANGED txStatus
      BY <2>2 DEF SchedulePending
    <3> QED BY <2>1, <3>1, <3>2
  <2>3. ASSUME NEW y \in JobTransfer, TxStep(y)
        PROVE  txStatus'[x] = "Success" /\ ~(txPc[x] = "idle" /\ txPc'[x] = "queued")
    <3>1. CASE RunTransfer(y)
      <4>1. \E s : txStatus' = [txStatus EXCEPT ![y] = s]
        BY <3>1 DEF RunTransfer
      <4>2. txPc[y] = "queued" /\ txPc' = [txPc EXCEPT ![y] = "settled"]
        BY <3>1 DEF RunTransfer
      <4>3. x # y
        BY <2>1, <4>2
      <4> QED BY <2>1, <4>1, <4>2, <4>3
    <3>2. CASE SendXferDoneMsg(y) \/ ReportTransferDone(y)
      <4>1. UNCHANGED txStatus /\ \E s \in {"sent", "reported"} : txPc' = [txPc EXCEPT ![y] = s]
        BY <3>2 DEF SendXferDoneMsg, ReportTransferDone
      <4> QED BY <2>1, <4>1
    <3> QED BY <2>3, <3>1, <3>2 DEF TxStep
  <2>4. CASE RestartTransfer
    <3>1. PICK y \in NeedsRestart : txStatus' = [txStatus EXCEPT ![y] = "Started"]
      BY <2>4 DEF RestartTransfer
    <3>2. x # y /\ UNCHANGED txPc
      BY <2>4, <3>1 DEF RestartTransfer, NeedsRestart
    <3> QED BY <2>1, <3>1, <3>2
  <2>5. CASE PollSummary \/ ProcessDies
    <3>1. UNCHANGED txStatus /\ txPc' = [z \in JobTransfer |-> "idle"]
      BY <2>5 DEF PollSummary, ProcessDies, ForgetMemory
    <3> QED BY <3>1
  <2>6. CASE \/ CreatePlanFile \/ AddNewJobPart \/ SettleCancelling \/ ResetJob \/ RestartedAll
             \/ QueueResumedPart \/ QueuedAll \/ ResurrectJob \/ CancelPauseJob \/ TakePart
             \/ ScheduleDone \/ HandleXferDone \/ HandlerProgress
    <3>1. UNCHANGED <<txStatus, txPc>>
      BY <2>6
      DEF CreatePlanFile, AddNewJobPart, SettleCancelling, ResetJob, RestartedAll, QueueResumedPart,
          QueuedAll, ResurrectJob, CancelPauseJob, TakePart, ScheduleDone, HandleXferDone,
          HandlerProgress, ReportJobPartDone, CountPart, SettleJob
    <3> QED BY <3>1
  <2> QED BY <2>2, <2>3, <2>4, <2>5, <2>6 DEF RJNext, FrontEndStep, ResumeStep, SchedulerStep
<1>2. RJSpec => [][Stays]_rjVars
  BY <1>1, ResumeInvariant, PTL DEF RJSpec
<1> QED BY <1>2 DEF WhatSucceededStays

-----------------------------------------------------------------------------
(* A sum of lengths that fits is kept as it is. *)
LEMMA NoWrap ==
    ASSUME NEW n \in Nat, n <= MaxLen
    PROVE  Wrap(n) = n
<1>1. MaxLen \in Nat
  BY LayoutAssumption
<1>2. Width \in Nat /\ Width > 0 /\ n < Width
  BY <1>1 DEF Width
<1>3. n % Width = n
  BY <1>2
<1> QED BY <1>1, <1>2, <1>3 DEF Wrap

(* Also a sum that wraps is an integer. *)
LEMMA WrapType ==
    ASSUME NEW n \in Nat
    PROVE  Wrap(n) \in Int
<1>1. MaxLen \in Nat
  BY LayoutAssumption
<1>2. Width \in Nat /\ Width > 0
  BY <1>1 DEF Width
<1>3. n % Width \in Int
  BY <1>2
<1> QED BY <1>1, <1>2, <1>3 DEF Wrap

(* The values of the variables of the writer. *)
Lengths == [Field -> 0..MaxLen]
Cell == (0..OrderSize) \X {"header", "padding", "record", "source", "destination", "metadata"}
(* The room that the strings of a transfer take. *)
RealSum(t) == order[t]["source"] + order[t]["destination"] + order[t]["metadata"]
Start == Aligned(HeaderCells)
Base == Start + 8 * OrderSize
(* Where the strings of transfer t end, by its record. *)
NextOf(t) == IF t = 0 THEN Base ELSE records[t].offset + TotalLength(order[t])

PlanTypes ==
    /\ order \in [OrderIndex -> Lengths]
    /\ file \in Seq(Cell)
    /\ records \in Seq([offset : Int, lengths : Lengths])
    /\ Len(records) <= OrderSize
    /\ nextOffset \in Int
    /\ writing \in 0..(OrderSize + 1)
    /\ writerPanicked \in BOOLEAN

(* The offset in a record is where the one before says that its strings end. *)
OffsetsAddUp ==
    \A t \in 1..Len(records) :
        /\ records[t].lengths = order[t]
        /\ records[t].offset = NextOf(t - 1)

(* Written records lie where Transfer looks for them. *)
RecordsLieIn ==
    \A t \in 1..Len(records) : \A i \in 1..8 :
        /\ Start + 8 * (t - 1) + i <= Len(file)
        /\ file[Start + 8 * (t - 1) + i] = <<t, "record">>

(* The header and the records are written first. *)
WhileRecords ==
    writing = 0 =>
        /\ Len(records) < OrderSize
        /\ ~writerPanicked
        /\ file = <<>> => records = <<>>
        /\ file # <<>> => Len(file) = Start + 8 * Len(records) /\ nextOffset = NextOf(Len(records))

(* The file then ends where the strings of the last transfer written end. *)
WhileStrings ==
    writing > 0 =>
        /\ Len(records) = OrderSize
        /\ Len(file) = IF writing = 1 THEN Base
                       ELSE records[writing - 1].offset + RealSum(writing - 1)

(* Written strings lie where their record says. *)
StringsLieIn ==
    \A t \in OrderIndex : t < writing =>
        /\ records[t].offset \in Nat
        /\ records[t].offset + RealSum(t) <= Len(file)
        /\ \A f \in Field : \A i \in 1..order[t][f] :
               file[OffsetOf(records[t], f) + i] = <<t, f>>

(* Create has panicked at the first transfer whose strings are out of place. *)
PanicIsFounded ==
    writerPanicked => writing \in OrderIndex /\ Len(file) # records[writing].offset

(* The inductive invariant. *)
PlanIInv ==
    /\ PlanTypes
    /\ OffsetsAddUp
    /\ RecordsLieIn
    /\ WhileRecords
    /\ WhileStrings
    /\ StringsLieIn
    /\ PanicIsFounded

(* Where the records start, and the strings after them. *)
LEMMA Layout ==
    /\ Start \in Nat /\ Start >= HeaderCells /\ Start > 0 /\ Start % 8 = 0 /\ Start <= HeaderCells + 7
    /\ OrderSize \in Nat /\ OrderSize > 0 /\ HeaderCells \in Nat
    /\ Base \in Nat /\ Base = Start + 8 * OrderSize
    /\ MaxLen \in Nat
<1>1. /\ HeaderCells \in Nat /\ HeaderCells > 0 /\ OrderSize \in Nat /\ OrderSize > 0
      /\ MaxLen \in Nat
  BY LayoutAssumption
<1>2. /\ Start \in Nat /\ Start >= HeaderCells /\ Start % 8 = 0 /\ Start <= HeaderCells + 7
  BY <1>1 DEF Start, Aligned
<1> QED BY <1>1, <1>2 DEF Base

(* Two sequences joined into one.                                          *)
LEMMA Joined ==
    ASSUME NEW S, NEW a \in Seq(S), NEW b \in Seq(S), NEW r, r = a \o b
    PROVE  /\ r \in Seq(S)
           /\ Len(a) \in Nat /\ Len(b) \in Nat
           /\ Len(r) = Len(a) + Len(b)
           /\ \A i \in 1..Len(a) : r[i] = a[i]
           /\ \A i \in 1..Len(b) : r[Len(a) + i] = b[i]
<1>1. Len(a) \in Nat /\ Len(b) \in Nat
  OBVIOUS
<1>2. /\ a \o b \in Seq(S)
      /\ Len(a \o b) = Len(a) + Len(b)
      /\ \A i \in 1..(Len(a) + Len(b)) :
             (a \o b)[i] = IF i <= Len(a) THEN a[i] ELSE b[i - Len(a)]
  BY ConcatProperties
<1>3. /\ r \in Seq(S)
      /\ Len(r) = Len(a) + Len(b)
      /\ \A i \in 1..(Len(a) + Len(b)) : r[i] = IF i <= Len(a) THEN a[i] ELSE b[i - Len(a)]
  BY Zenon, <1>2
<1>4. \A i \in 1..Len(b) : r[Len(a) + i] = b[i]
  <2> TAKE i \in 1..Len(b)
  <2>1. Len(a) + i \in 1..(Len(a) + Len(b)) /\ ~(Len(a) + i <= Len(a)) /\ Len(a) + i - Len(a) = i
    BY <1>1
  <2> QED BY <2>1, <1>3
<1> QED BY <1>1, <1>3, <1>4

(* Cells of one kind. *)
LEMMA CellsType ==
    ASSUME NEW t \in 0..OrderSize, NEW n \in Nat,
           NEW f \in {"header", "padding", "record", "source", "destination", "metadata"}
    PROVE  /\ Cells(t, f, n) \in Seq(Cell)
           /\ Len(Cells(t, f, n)) = n
           /\ \A i \in 1..n : Cells(t, f, n)[i] = <<t, f>>
<1>1. <<t, f>> \in Cell
  BY DEF Cell
<1>2. Cells(t, f, n) \in [1..n -> Cell]
  BY <1>1 DEF Cells
<1>3. Cells(t, f, n) \in Seq(Cell)
  BY <1>2
<1>4. DOMAIN Cells(t, f, n) = 1..n
  BY DEF Cells
<1>5. Len(Cells(t, f, n)) = n
  BY <1>3, <1>4
<1> QED BY <1>3, <1>5 DEF Cells

(* `new' is `old' with n cells of a field added. *)
Grown(new, old, t, f, n) ==
    /\ t \in 0..OrderSize
    /\ n \in Nat
    /\ f \in {"header", "padding", "record", "source", "destination", "metadata"}
    /\ old \in Seq(Cell)
    /\ new = old \o Cells(t, f, n)

(* What that means for every cell. *)
HasGrown(new, old, t, f, n) ==
    /\ new \in Seq(Cell)
    /\ Len(old) \in Nat
    /\ Len(new) = Len(old) + n
    /\ \A i \in 1..Len(old) : new[i] = old[i]
    /\ \A i \in 1..n : new[Len(old) + i] = <<t, f>>

(* What is there stays where it is, and the new cells follow it. *)
LEMMA FileGrows ==
    ASSUME NEW t, NEW n, NEW f, NEW old, NEW new, Grown(new, old, t, f, n)
    PROVE  HasGrown(new, old, t, f, n)
<1>0. /\ t \in 0..OrderSize /\ n \in Nat /\ old \in Seq(Cell)
      /\ f \in {"header", "padding", "record", "source", "destination", "metadata"}
  BY DEF Grown
<1>1. PICK c : c = Cells(t, f, n)
  OBVIOUS
<1>2. c \in Seq(Cell) /\ Len(c) = n /\ \A i \in 1..n : c[i] = <<t, f>>
  BY <1>0, <1>1, CellsType
<1>3. /\ old \o c \in Seq(Cell)
      /\ Len(old \o c) = Len(old) + Len(c)
      /\ \A i \in 1..(Len(old) + Len(c)) :
             (old \o c)[i] = IF i <= Len(old) THEN old[i] ELSE c[i - Len(old)]
  BY <1>0, <1>2, ConcatProperties
<1>4. /\ new \in Seq(Cell)
      /\ Len(new) = Len(old) + n
      /\ \A i \in 1..(Len(old) + n) :
             new[i] = IF i <= Len(old) THEN old[i] ELSE c[i - Len(old)]
  BY Zenon, <1>1, <1>2, <1>3 DEF Grown
<1>5. Len(old) \in Nat
  BY <1>0
<1>6. \A i \in 1..Len(old) : new[i] = old[i]
  BY <1>0, <1>4, <1>5
<1>7. \A i \in 1..n : new[Len(old) + i] = <<t, f>>
  <2> TAKE i \in 1..n
  <2>1. /\ Len(old) + i \in 1..(Len(old) + n)
        /\ ~(Len(old) + i <= Len(old)) /\ Len(old) + i - Len(old) = i
    BY <1>0, <1>5
  <2> QED BY <2>1, <1>2, <1>4
<1> QED BY <1>4, <1>5, <1>6, <1>7 DEF HasGrown

(* The sum of a transfer's lengths that Create computes is the real one when  *)
(* that fits.                                                                 *)
LEMMA SumTypes ==
    ASSUME PlanTypes, NEW t \in OrderIndex
    PROVE  /\ order[t] \in Lengths
           /\ order[t]["source"] \in Nat /\ order[t]["destination"] \in Nat
           /\ order[t]["metadata"] \in Nat
           /\ \A f \in Field : order[t][f] \in Nat
           /\ RealSum(t) \in Nat
           /\ TotalLength(order[t]) = Wrap(RealSum(t))
           /\ TotalLength(order[t]) \in Int
           /\ RealSum(t) <= MaxLen => TotalLength(order[t]) = RealSum(t)
<1>1. order[t] \in Lengths
  BY DEF PlanTypes
<1>2. MaxLen \in Nat
  BY LayoutAssumption
<1>3. \A f \in Field : order[t][f] \in Nat
  BY <1>1, <1>2 DEF Lengths
<1>4. /\ order[t]["source"] \in Nat /\ order[t]["destination"] \in Nat
      /\ order[t]["metadata"] \in Nat
  BY <1>3 DEF Field
<1>5. RealSum(t) \in Nat
  BY <1>4 DEF RealSum
<1>6. TotalLength(order[t]) = Wrap(RealSum(t))
  BY DEF TotalLength, RealSum
<1> QED BY <1>1, <1>3, <1>4, <1>5, <1>6, NoWrap, WrapType

(* The inductive invariant holds initially. *)
LEMMA PlanStarts ==
    ASSUME PFInit
    PROVE  PlanIInv
<1> USE DEF PFInit
<1>1. OrderSize \in Nat /\ OrderSize > 0
  BY LayoutAssumption
<1>2. PlanTypes
  <2>1. order \in [OrderIndex -> Lengths]
    BY DEF Lengths
  <2>2. /\ file \in Seq(Cell) /\ records \in Seq([offset : Int, lengths : Lengths])
        /\ Len(records) <= OrderSize
    BY <1>1, EmptySeq
  <2>3. nextOffset \in Int /\ writing \in 0..(OrderSize + 1)
    BY <1>1
  <2>4. writerPanicked \in BOOLEAN
    OBVIOUS
  <2> QED BY <2>1, <2>2, <2>3, <2>4 DEF PlanTypes
<1>3. Len(records) = 0
  OBVIOUS
<1>4. OffsetsAddUp /\ RecordsLieIn
  BY <1>3 DEF OffsetsAddUp, RecordsLieIn
<1>5. WhileRecords /\ WhileStrings /\ PanicIsFounded
  BY <1>1, <1>3 DEF WhileRecords, WhileStrings, PanicIsFounded
<1>6. StringsLieIn
  BY <1>1 DEF StringsLieIn, OrderIndex
<1> QED BY <1>2, <1>4, <1>5, <1>6 DEF PlanIInv

(* What the header and its padding write belongs to no transfer.              *)
LEMMA HeaderCellsType ==
    ASSUME NEW n \in Nat
    PROVE  /\ Cells(0, "header", n) \in Seq(Cell) /\ Len(Cells(0, "header", n)) = n
           /\ Cells(0, "padding", n) \in Seq(Cell) /\ Len(Cells(0, "padding", n)) = n
<1>1. 0 \in 0..OrderSize
  BY LayoutAssumption
<1>2. Cells(0, "header", n) \in Seq(Cell) /\ Len(Cells(0, "header", n)) = n
  BY <1>1, CellsType
<1>3. Cells(0, "padding", n) \in Seq(Cell) /\ Len(Cells(0, "padding", n)) = n
  BY <1>1, CellsType
<1> QED BY <1>2, <1>3

(* Writing the header keeps it: the records start at a multiple of eight. *)
LEMMA HeaderIsWritten ==
    ASSUME PlanIInv, WriteHeader
    PROVE  PlanIInv'
<1> USE Layout
<1>0. PlanTypes /\ WhileRecords /\ OffsetsAddUp
  BY DEF PlanIInv
<1>1. /\ records = <<>> /\ writing = 0 /\ ~writerPanicked
      /\ records' = records /\ order' = order /\ writing' = writing
      /\ writerPanicked' = writerPanicked
  BY <1>0 DEF WhileRecords, WriteHeader
<1> DEFINE a == Cells(0, "header", HeaderCells)
           b == Cells(0, "padding", Start - HeaderCells)
<1>2. a \in Seq(Cell) /\ Len(a) = HeaderCells
  <2>1. PICK n \in Nat : n = HeaderCells
    OBVIOUS
  <2>2. Cells(0, "header", n) \in Seq(Cell) /\ Len(Cells(0, "header", n)) = n
    BY ONLY <2>1, HeaderCellsType
  <2> QED BY ONLY <2>1, <2>2
<1>3. b \in Seq(Cell) /\ Len(b) = Start - HeaderCells
  <2>1. PICK n \in Nat : n = Start - HeaderCells
    OBVIOUS
  <2>2. Cells(0, "padding", n) \in Seq(Cell) /\ Len(Cells(0, "padding", n)) = n
    BY ONLY <2>1, HeaderCellsType
  <2> QED BY ONLY <2>1, <2>2
<1>4. file' = a \o b
  BY DEF Start, WriteHeader
<1> HIDE DEF a, b
<1>5. file' \in Seq(Cell) /\ Len(file') = Start
  <2>1. file' \in Seq(Cell) /\ Len(file') = Len(a) + Len(b)
    BY <1>2, <1>3, <1>4, Joined
  <2> QED BY <2>1, <1>2, <1>3
<1>6. nextOffset' = Base
  BY DEF Start, Base, WriteHeader
<1>7. PlanTypes'
  BY <1>0, <1>1, <1>5, <1>6 DEF PlanTypes
<1>8. records' = <<>> /\ Len(records') = 0 /\ Len(records) = 0
  BY <1>1
<1>9. OffsetsAddUp' /\ RecordsLieIn'
  BY <1>8 DEF OffsetsAddUp, RecordsLieIn
<1>10. WhileRecords'
  <2>1. NextOf(Len(records))' = Base
    BY <1>8 DEF NextOf
  <2>2. file' # <<>>
    BY <1>5
  <2> QED BY <2>1, <2>2, <1>1, <1>5, <1>6, <1>8 DEF WhileRecords
<1>11. WhileStrings' /\ PanicIsFounded' /\ StringsLieIn'
  BY <1>1 DEF WhileStrings, PanicIsFounded, StringsLieIn, OrderIndex
<1> QED BY <1>7, <1>9, <1>10, <1>11 DEF PlanIInv

(* Writing a record keeps it: the offset is that of the record before it and *)
(* the sum of its lengths, and the last record ends where the strings start. *)
LEMMA RecordIsWritten ==
    ASSUME PlanIInv, WriteRecord
    PROVE  PlanIInv'
<1> USE Layout
<1>0. PlanTypes /\ WhileRecords /\ OffsetsAddUp /\ RecordsLieIn
  BY DEF PlanIInv
<1>1. /\ writing = 0 /\ file # <<>> /\ Len(records) < OrderSize
      /\ order' = order /\ writerPanicked' = writerPanicked
  BY DEF WriteRecord
<1>2. PICK t : t = Len(records) + 1
  OBVIOUS
<1>3. /\ records' = Append(records, [offset |-> nextOffset, lengths |-> order[t]])
      /\ file' = file \o Cells(t, "record", 8)
      /\ nextOffset' = nextOffset + TotalLength(order[t])
      /\ writing' = IF t = OrderSize THEN 1 ELSE 0
  BY <1>2 DEF WriteRecord
<1>4. /\ records \in Seq([offset : Int, lengths : Lengths]) /\ Len(records) \in Nat
      /\ file \in Seq(Cell) /\ nextOffset \in Int /\ Len(file) \in Nat
  BY <1>0 DEF PlanTypes
<1>5. t \in OrderIndex /\ t \in 0..OrderSize /\ t \in Nat /\ t >= 1
  BY <1>1, <1>2, <1>4 DEF OrderIndex
<1>6. /\ Len(file) = Start + 8 * (t - 1) /\ nextOffset = NextOf(t - 1)
      /\ ~writerPanicked
  BY <1>0, <1>1, <1>2, <1>4 DEF WhileRecords
<1>7. order[t] \in Lengths /\ TotalLength(order[t]) \in Int
  BY <1>0, <1>5, SumTypes
<1>8. /\ records' \in Seq([offset : Int, lengths : Lengths])
      /\ Len(records') = t
      /\ \A s \in 1..(t - 1) : records'[s] = records[s]
      /\ records'[t] = [offset |-> nextOffset, lengths |-> order[t]]
  <2> DEFINE r == [offset |-> nextOffset, lengths |-> order[t]]
  <2>1. r \in [offset : Int, lengths : Lengths]
    BY <1>4, <1>7
  <2> HIDE DEF r
  <2>2. records' = Append(records, r)
    BY <1>3 DEF r
  <2>3. /\ records' \in Seq([offset : Int, lengths : Lengths])
        /\ Len(records') = t
        /\ \A s \in 1..(t - 1) : records'[s] = records[s]
        /\ records'[t] = r
    BY <2>1, <2>2, <1>2, <1>4
  <2> QED BY <2>3 DEF r
<1>9. /\ file' \in Seq(Cell)
      /\ Len(file') = Len(file) + 8
      /\ \A i \in 1..Len(file) : file'[i] = file[i]
      /\ \A i \in 1..8 : file'[Len(file) + i] = <<t, "record">>
  <2>1. Grown(file', file, t, "record", 8)
    BY <1>3, <1>4, <1>5 DEF Grown
  <2>2. HasGrown(file', file, t, "record", 8)
    BY <2>1, FileGrows
  <2> QED BY <2>2 DEF HasGrown
<1>10. PlanTypes'
  <2>1. nextOffset' \in Int
    BY <1>3, <1>4, <1>7
  <2>2. writing' \in 0..(OrderSize + 1)
    BY <1>3
  <2>3. order' \in [OrderIndex -> Lengths] /\ writerPanicked' \in BOOLEAN
    BY <1>0, <1>1 DEF PlanTypes
  <2> QED BY <2>1, <2>2, <2>3, <1>5, <1>8, <1>9 DEF PlanTypes
<1>11. OffsetsAddUp'
  <2> SUFFICES ASSUME NEW s \in 1..t
               PROVE  /\ records'[s].lengths = order[s]
                      /\ records'[s].offset = NextOf(s - 1)'
    BY <1>1, <1>8 DEF OffsetsAddUp
  <2>1. NextOf(s - 1)' = NextOf(s - 1)
    <3>1. s - 1 # 0 => s - 1 \in 1..(t - 1)
      BY <1>5
    <3> QED BY <3>1, <1>1, <1>8 DEF NextOf
  <2>2. CASE s = t
    BY <2>1, <2>2, <1>6, <1>8
  <2>3. CASE s # t
    <3>1. s \in 1..Len(records) /\ s \in 1..(t - 1)
      BY <2>3, <1>2, <1>4, <1>5
    <3> QED BY <3>1, <2>1, <1>0, <1>8 DEF OffsetsAddUp
  <2> QED BY <2>2, <2>3
<1>12. RecordsLieIn'
  <2> SUFFICES ASSUME NEW s \in 1..t, NEW i \in 1..8
               PROVE  /\ Start + 8 * (s - 1) + i <= Len(file')
                      /\ file'[Start + 8 * (s - 1) + i] = <<s, "record">>
    BY <1>8 DEF RecordsLieIn
  <2>1. CASE s = t
    <3>1. Start + 8 * (s - 1) + i = Len(file) + i
      BY <2>1, <1>6
    <3>2. Len(file) + i <= Len(file')
      BY <1>4, <1>9
    <3> QED BY <3>1, <3>2, <2>1, <1>9
  <2>2. CASE s # t
    <3>1. s \in 1..Len(records)
      BY <2>2, <1>2, <1>4, <1>5
    <3>2. /\ Start + 8 * (s - 1) + i <= Len(file)
          /\ file[Start + 8 * (s - 1) + i] = <<s, "record">>
      BY <3>1, <1>0 DEF RecordsLieIn
    <3>3. Start + 8 * (s - 1) + i \in 1..Len(file)
      BY <3>2, <1>4, <1>5
    <3>4. file'[Start + 8 * (s - 1) + i] = file[Start + 8 * (s - 1) + i]
      BY <3>3, <1>9
    <3>5. Start + 8 * (s - 1) + i <= Len(file')
      BY <3>2, <1>4, <1>5, <1>9
    <3> QED BY <3>2, <3>4, <3>5
  <2> QED BY <2>1, <2>2
<1>13. NextOf(t)' = nextOffset'
  BY <1>1, <1>3, <1>5, <1>8 DEF NextOf
<1>14. WhileRecords'
  <2>0. NextOf(Len(records))' = NextOf(t)'
    BY <1>8 DEF NextOf
  <2>1. ASSUME writing' = 0
        PROVE  Len(records') < OrderSize /\ Len(file') = Start + 8 * Len(records')
               /\ file' # <<>> /\ ~writerPanicked' /\ nextOffset' = NextOf(Len(records))'
    <3>1. Len(records') < OrderSize
      BY <2>1, <1>3, <1>5, <1>8
    <3>2. Len(file') = Start + 8 * Len(records') /\ file' # <<>>
      BY <1>4, <1>5, <1>6, <1>8, <1>9
    <3> QED BY <3>1, <3>2, <2>0, <1>1, <1>6, <1>13
  <2> QED BY <2>1 DEF WhileRecords
<1>15. WhileStrings'
  BY <1>3, <1>5, <1>6, <1>8, <1>9 DEF WhileStrings
<1>16. StringsLieIn' /\ PanicIsFounded'
  BY <1>1, <1>3, <1>6 DEF StringsLieIn, PanicIsFounded, OrderIndex
<1> QED BY <1>10, <1>11, <1>12, <1>14, <1>15, <1>16 DEF PlanIInv

(* `f3' is `f0' with the three strings of transfer t added. *)
ThreeGrown(f3, f0, t, s, d, m) ==
    /\ f3 \in Seq(Cell)
    /\ Len(f0) \in Nat
    /\ Len(f3) = Len(f0) + s + d + m
    /\ \A i \in 1..Len(f0) : f3[i] = f0[i]
    /\ \A i \in 1..s : f3[Len(f0) + i] = <<t, "source">>
    /\ \A i \in 1..d : f3[Len(f0) + s + i] = <<t, "destination">>
    /\ \A i \in 1..m : f3[Len(f0) + s + d + i] = <<t, "metadata">>

(* Three strings one after the other. *)
LEMMA ThreeGrow ==
    ASSUME NEW t, NEW s, NEW d, NEW m, NEW f0, NEW f1, NEW f2, NEW f3,
           Grown(f1, f0, t, "source", s), Grown(f2, f1, t, "destination", d),
           Grown(f3, f2, t, "metadata", m)
    PROVE  ThreeGrown(f3, f0, t, s, d, m)
<1>0. s \in Nat /\ d \in Nat /\ m \in Nat
  BY DEF Grown
<1>1. HasGrown(f1, f0, t, "source", s)
  BY FileGrows
<1>2. HasGrown(f2, f1, t, "destination", d)
  BY FileGrows
<1>3. HasGrown(f3, f2, t, "metadata", m)
  BY FileGrows
<1>4. PICK l0, l1, l2 : l0 = Len(f0) /\ l1 = Len(f1) /\ l2 = Len(f2)
  OBVIOUS
<1>5. l0 \in Nat /\ l1 = l0 + s /\ l2 = l0 + s + d /\ Len(f3) = l0 + s + d + m
  <2>1. l0 \in Nat /\ l1 = l0 + s /\ l2 = l1 + d /\ Len(f3) = l2 + m
    BY <1>1, <1>2, <1>3, <1>4 DEF HasGrown
  <2> QED BY <2>1, <1>0
<1>6. /\ \A i \in 1..l0 : f1[i] = f0[i]
      /\ \A i \in 1..s : f1[l0 + i] = <<t, "source">>
      /\ \A i \in 1..l1 : f2[i] = f1[i]
      /\ \A i \in 1..d : f2[l1 + i] = <<t, "destination">>
      /\ \A i \in 1..l2 : f3[i] = f2[i]
      /\ \A i \in 1..m : f3[l2 + i] = <<t, "metadata">>
  BY <1>1, <1>2, <1>3, <1>4 DEF HasGrown
<1>7. \A i \in 1..l0 : f3[i] = f0[i]
  <2> TAKE i \in 1..l0
  <2>1. i \in 1..l1 /\ i \in 1..l2
    BY <1>0, <1>5
  <2> QED BY <2>1, <1>6
<1>8. \A i \in 1..s : f3[l0 + i] = <<t, "source">>
  <2> TAKE i \in 1..s
  <2>1. l0 + i \in 1..l1 /\ l0 + i \in 1..l2
    BY <1>0, <1>5
  <2> QED BY <2>1, <1>6
<1>9. \A i \in 1..d : f3[l0 + s + i] = <<t, "destination">>
  <2> TAKE i \in 1..d
  <2>1. l1 + i \in 1..l2 /\ l1 + i = l0 + s + i
    BY <1>0, <1>5
  <2>2. f3[l1 + i] = <<t, "destination">>
    BY <2>1, <1>6
  <2> QED BY <2>1, <2>2
<1>10. \A i \in 1..m : f3[l0 + s + d + i] = <<t, "metadata">>
  <2> TAKE i \in 1..m
  <2>1. l2 + i = l0 + s + d + i
    BY <1>0, <1>5
  <2>2. f3[l2 + i] = <<t, "metadata">>
    BY <1>6
  <2> QED BY <2>1, <2>2
<1>11. f3 \in Seq(Cell)
  BY <1>3 DEF HasGrown
<1> QED BY <1>11, <1>4, <1>5, <1>7, <1>8, <1>9, <1>10 DEF ThreeGrown

(* The strings of a transfer follow what is written. *)
LEMMA StringsFollow ==
    ASSUME PlanTypes, NEW t \in OrderIndex, file' = WithStringsOf(t)
    PROVE  ThreeGrown(file', file, t,
                      order[t]["source"], order[t]["destination"], order[t]["metadata"])
<1>9. PICK s, d, m : s = order[t]["source"] /\ d = order[t]["destination"]
                     /\ m = order[t]["metadata"]
  OBVIOUS
<1>8. s \in Nat /\ d \in Nat /\ m \in Nat
  BY <1>9, SumTypes
<1>1. t \in 0..OrderSize
  BY Layout DEF OrderIndex
<1>2. PICK a, b, c : a = Cells(t, "source", s) /\ b = Cells(t, "destination", d)
                     /\ c = Cells(t, "metadata", m)
  OBVIOUS
<1>3. a \in Seq(Cell) /\ b \in Seq(Cell) /\ c \in Seq(Cell) /\ file \in Seq(Cell)
  <2>1. Cells(t, "source", s) \in Seq(Cell) /\ Cells(t, "destination", d) \in Seq(Cell)
        /\ Cells(t, "metadata", m) \in Seq(Cell)
    BY <1>1, <1>8, CellsType
  <2> QED BY <2>1, <1>2 DEF PlanTypes
<1>4. PICK f1, f2 : f1 = file \o a /\ f2 = f1 \o b
  OBVIOUS
<1>5. file' = f2 \o c
  BY <1>2, <1>4, <1>9 DEF WithStringsOf
<1>6. f1 \in Seq(Cell) /\ f2 \in Seq(Cell)
  <2>1. f1 \in Seq(Cell)
    BY <1>3, <1>4, ConcatProperties
  <2> QED BY <2>1, <1>3, <1>4, ConcatProperties
<1>7. Grown(f1, file, t, "source", s) /\ Grown(f2, f1, t, "destination", d)
      /\ Grown(file', f2, t, "metadata", m)
  BY <1>1, <1>2, <1>3, <1>4, <1>5, <1>6, <1>8 DEF Grown
<1>10. ThreeGrown(file', file, t, s, d, m)
  BY <1>7, ThreeGrow
<1> QED BY <1>9, <1>10

(* Where a record looks for its strings. *)
LEMMA InPlace ==
    ASSUME PlanTypes, OffsetsAddUp, Len(records) = OrderSize,
           NEW r \in OrderIndex, records[r].offset \in Nat,
           NEW e \in Nat, records[r].offset + RealSum(r) <= e,
           NEW f \in Field, NEW i \in 1..order[r][f]
    PROVE  OffsetOf(records[r], f) + i \in 1..e
<1>1. /\ order[r]["source"] \in Nat /\ order[r]["destination"] \in Nat
      /\ order[r]["metadata"] \in Nat
  BY SumTypes
<1>2. PICK s, d, m, o :
          /\ s = order[r]["source"] /\ d = order[r]["destination"] /\ m = order[r]["metadata"]
          /\ o = records[r].offset
          /\ s \in Nat /\ d \in Nat /\ m \in Nat /\ o \in Nat
  BY <1>1
<1>9. s \in Nat /\ d \in Nat /\ m \in Nat /\ o \in Nat
  BY <1>2
<1>3. o + s + d + m <= e
  <2>1. RealSum(r) = s + d + m
    BY <1>2 DEF RealSum
  <2>2. o + (s + d + m) <= e
    BY <2>1, <1>2
  <2> QED BY <2>2, <1>9
<1>4. records[r].lengths = order[r]
  BY DEF OffsetsAddUp, OrderIndex
<1>5. i \in Nat /\ i >= 1 /\ i <= order[r][f]
  <2>1. order[r][f] \in Nat
    BY SumTypes
  <2> QED BY <2>1
<1>6. CASE f = "source"
  <2>1. i <= s /\ OffsetOf(records[r], f) = o
    BY <1>2, <1>5, <1>6 DEF OffsetOf
  <2>2. o + i \in 1..e
    BY <2>1, <1>9, <1>3, <1>5
  <2> QED BY <2>1, <2>2
<1>7. CASE f = "destination"
  <2>1. i <= d /\ OffsetOf(records[r], f) = o + s
    BY <1>2, <1>4, <1>5, <1>7 DEF OffsetOf
  <2>2. o + s + i \in 1..e
    BY <2>1, <1>9, <1>3, <1>5
  <2> QED BY <2>1, <2>2
<1>8. CASE f = "metadata"
  <2>1. i <= m /\ OffsetOf(records[r], f) = o + s + d
    BY <1>2, <1>4, <1>5, <1>8 DEF OffsetOf
  <2>2. o + s + d + i \in 1..e
    BY <2>1, <1>9, <1>3, <1>5
  <2> QED BY <2>1, <2>2
<1> QED BY <1>6, <1>7, <1>8 DEF Field

(* Writing the strings of a transfer keeps it: they lie where its record says, *)
(* for Create has compared the end of the file with the record's offset.       *)
LEMMA StringsAreWritten ==
    ASSUME PlanIInv, WriteStrings
    PROVE  PlanIInv'
<1>0. /\ PlanTypes /\ OffsetsAddUp /\ RecordsLieIn /\ WhileRecords /\ WhileStrings
      /\ StringsLieIn /\ PanicIsFounded
  BY DEF PlanIInv
<1>1. /\ writing \in OrderIndex /\ ~writerPanicked
      /\ order' = order /\ records' = records /\ nextOffset' = nextOffset
  BY DEF WriteStrings
<1>2. /\ writing \in Nat /\ writing >= 1 /\ writing <= OrderSize
      /\ OrderSize \in Nat /\ Start \in Nat /\ Base \in Nat
  BY <1>1, Layout DEF OrderIndex
<1>3. /\ Len(records) = OrderSize
      /\ Len(file) = IF writing = 1 THEN Base
                     ELSE records[writing - 1].offset + RealSum(writing - 1)
  BY <1>0, <1>2 DEF WhileStrings
<1>4. OffsetsAddUp'
  <2> SUFFICES ASSUME NEW s \in 1..Len(records)
               PROVE  records'[s].lengths = order'[s] /\ records'[s].offset = NextOf(s - 1)'
    BY <1>1 DEF OffsetsAddUp
  <2>1. NextOf(s - 1)' = NextOf(s - 1)
    BY <1>1 DEF NextOf
  <2> QED BY <2>1, <1>0, <1>1 DEF OffsetsAddUp
<1>5. CASE Len(file) # records[writing].offset
  <2>1. writerPanicked' = TRUE /\ file' = file /\ writing' = writing
    BY <1>5 DEF WriteStrings
  <2>2. PlanTypes'
    BY <2>1, <1>0, <1>1 DEF PlanTypes
  <2>3. RecordsLieIn'
    BY <2>1, <1>0, <1>1 DEF RecordsLieIn
  <2>4. WhileRecords'
    BY <2>1, <1>2 DEF WhileRecords
  <2>5. WhileStrings'
    <3>1. RealSum(writing - 1)' = RealSum(writing - 1)
      BY <2>1, <1>1 DEF RealSum
    <3> QED BY <3>1, <2>1, <1>1, <1>3 DEF WhileStrings
  <2>6. StringsLieIn'
    <3> SUFFICES ASSUME NEW s \in OrderIndex, s < writing
                 PROVE  /\ records[s].offset \in Nat
                        /\ records[s].offset + RealSum(s) <= Len(file)
                        /\ \A f \in Field : \A i \in 1..order[s][f] :
                               file[OffsetOf(records[s], f) + i] = <<s, f>>
      BY <2>1, <1>1 DEF StringsLieIn, RealSum, OffsetOf
    <3> QED BY <1>0 DEF StringsLieIn
  <2>7. PanicIsFounded'
    BY <2>1, <1>1, <1>5 DEF PanicIsFounded
  <2> QED BY <2>2, <2>3, <2>4, <2>5, <2>6, <2>7, <1>4 DEF PlanIInv
<1>6. CASE Len(file) = records[writing].offset
  <2>1. /\ file' = WithStringsOf(writing) /\ writing' = writing + 1
        /\ writerPanicked' = writerPanicked
    BY <1>6 DEF WriteStrings
  <2>2. PICK t : t = writing
    OBVIOUS
  <2>3. PICK s, d, m : s = order[t]["source"] /\ d = order[t]["destination"]
                       /\ m = order[t]["metadata"]
    OBVIOUS
  <2>4. /\ s \in Nat /\ d \in Nat /\ m \in Nat /\ RealSum(t) \in Nat /\ t \in OrderIndex
    BY <2>2, <2>3, <1>0, <1>1, SumTypes
  <2>5. RealSum(t) = s + d + m
    BY <2>3 DEF RealSum
  <2>6. file' = WithStringsOf(t)
    BY <2>1, <2>2
  <2>7. /\ file' \in Seq(Cell)
        /\ Len(file) \in Nat
        /\ Len(file') = Len(file) + s + d + m
        /\ \A i \in 1..Len(file) : file'[i] = file[i]
        /\ \A i \in 1..s : file'[Len(file) + i] = <<t, "source">>
        /\ \A i \in 1..d : file'[Len(file) + s + i] = <<t, "destination">>
        /\ \A i \in 1..m : file'[Len(file) + s + d + i] = <<t, "metadata">>
    <3>1. ThreeGrown(file', file, t, s, d, m)
      BY <2>3, <2>4, <2>6, <1>0, StringsFollow
    <3> QED BY <3>1 DEF ThreeGrown
  <2>8. Len(file') \in Nat /\ Len(file') >= Len(file) /\ Len(file') = Len(file) + RealSum(t)
    BY <2>4, <2>5, <2>7
  <2>9. PlanTypes'
    <3>1. writing' \in 0..(OrderSize + 1)
      BY <2>1, <1>2
    <3> QED BY <3>1, <2>1, <2>7, <1>0, <1>1 DEF PlanTypes
  <2>10. RecordsLieIn'
    <3> SUFFICES ASSUME NEW r \in 1..Len(records), NEW i \in 1..8
                 PROVE  /\ Start + 8 * (r - 1) + i <= Len(file')
                        /\ file'[Start + 8 * (r - 1) + i] = <<r, "record">>
      BY <1>1 DEF RecordsLieIn
    <3>1. /\ Start + 8 * (r - 1) + i <= Len(file)
          /\ file[Start + 8 * (r - 1) + i] = <<r, "record">>
      BY <1>0 DEF RecordsLieIn
    <3>5. /\ Start + 8 * (r - 1) + i <= Len(file) /\ Len(file) \in Nat
          /\ Start \in Nat /\ r \in Nat /\ r >= 1
      BY <3>1, <2>7, <1>2, <1>3
    <3>2. Start + 8 * (r - 1) + i \in 1..Len(file)
      BY <3>5
    <3>3. file'[Start + 8 * (r - 1) + i] = file[Start + 8 * (r - 1) + i]
      BY <3>2, <2>7
    <3>4. Start + 8 * (r - 1) + i <= Len(file')
      BY <3>2, <2>7, <2>8
    <3> QED BY <3>1, <3>3, <3>4
  <2>11. WhileRecords' /\ PanicIsFounded'
    BY <2>1, <1>1, <1>2 DEF WhileRecords, PanicIsFounded
  <2>12. WhileStrings'
    <3>1. writing' - 1 = t /\ writing' # 1
      BY <2>1, <2>2, <1>2
    <3>2. RealSum(writing - 1)' = RealSum(t)
      BY <3>1, <1>1 DEF RealSum
    <3>3. Len(file') = records'[writing' - 1].offset + RealSum(writing - 1)'
      BY <3>1, <3>2, <2>2, <2>8, <1>1, <1>6
    <3> QED BY <3>1, <3>3, <1>1, <1>3 DEF WhileStrings
  <2>13. StringsLieIn'
    <3> SUFFICES ASSUME NEW r \in OrderIndex, r < writing + 1
                 PROVE  /\ records[r].offset \in Nat
                        /\ records[r].offset + RealSum(r) <= Len(file')
                        /\ \A f \in Field : \A i \in 1..order[r][f] :
                               file'[OffsetOf(records[r], f) + i] = <<r, f>>
      BY <2>1, <1>1 DEF StringsLieIn, RealSum, OffsetOf
    <3>1. CASE r < writing
      <4>1. /\ records[r].offset \in Nat
            /\ records[r].offset + RealSum(r) <= Len(file)
            /\ \A f \in Field : \A i \in 1..order[r][f] :
                   file[OffsetOf(records[r], f) + i] = <<r, f>>
        BY <3>1, <1>0 DEF StringsLieIn
      <4>2. RealSum(r) \in Nat
        BY <1>0, SumTypes
      <4>3. records[r].offset + RealSum(r) <= Len(file')
        BY <4>1, <4>2, <2>7, <2>8
      <4>4. ASSUME NEW f \in Field, NEW i \in 1..order[r][f]
            PROVE  file'[OffsetOf(records[r], f) + i] = <<r, f>>
        <5>1. OffsetOf(records[r], f) + i \in 1..Len(file)
          BY <4>1, <2>7, <1>0, <1>3, InPlace
        <5>2. file'[OffsetOf(records[r], f) + i] = file[OffsetOf(records[r], f) + i]
          BY <5>1, <2>7
        <5> QED BY <5>2, <4>1
      <4> QED BY <4>1, <4>3, <4>4
    <3>2. CASE r = writing
      <4>1. r = t /\ records[r].offset = Len(file)
        BY <3>2, <2>2, <1>6
      <4>2. records[r].offset + RealSum(r) <= Len(file')
        BY <4>1, <2>8
      <4>3. records[r].lengths = order[r]
        BY <1>0, <1>3, <1>2 DEF OffsetsAddUp, OrderIndex
      <4>4. ASSUME NEW f \in Field, NEW i \in 1..order[r][f]
            PROVE  file'[OffsetOf(records[r], f) + i] = <<r, f>>
        <5>1. CASE f = "source"
          <6>1. i \in 1..s /\ OffsetOf(records[r], f) = Len(file)
            BY <5>1, <4>1, <2>3 DEF OffsetOf
          <6> QED BY <6>1, <5>1, <4>1, <2>7
        <5>2. CASE f = "destination"
          <6>1. i \in 1..d /\ OffsetOf(records[r], f) = Len(file) + s
            BY <5>2, <4>1, <4>3, <2>3 DEF OffsetOf
          <6> QED BY <6>1, <5>2, <4>1, <2>7
        <5>3. CASE f = "metadata"
          <6>1. i \in 1..m /\ OffsetOf(records[r], f) = Len(file) + s + d
            BY <5>3, <4>1, <4>3, <2>3 DEF OffsetOf
          <6> QED BY <6>1, <5>3, <4>1, <2>7
        <5> QED BY <5>1, <5>2, <5>3 DEF Field
      <4> QED BY <4>1, <4>2, <4>4, <2>7
    <3>3. r \in Nat
      BY <1>2 DEF OrderIndex
    <3> QED BY <3>1, <3>2, <3>3, <1>2
  <2> QED BY <2>9, <2>10, <2>11, <2>12, <2>13, <1>4 DEF PlanIInv
<1> QED BY <1>5, <1>6

(* A step that changes nothing here keeps it. *)
LEMMA PlanStutters ==
    ASSUME PlanIInv, UNCHANGED pfVars
    PROVE  PlanIInv'
<1>1. /\ order' = order /\ file' = file /\ records' = records /\ nextOffset' = nextOffset
      /\ writing' = writing /\ writerPanicked' = writerPanicked
  BY DEF pfVars
<1> QED BY <1>1 DEF PlanIInv, PlanTypes, OffsetsAddUp, RecordsLieIn, WhileRecords, WhileStrings,
            StringsLieIn, PanicIsFounded, NextOf, RealSum, OffsetOf

(* And so does every step of Create. *)
LEMMA PlanSteps ==
    ASSUME PlanIInv, [PFNext]_pfVars
    PROVE  PlanIInv'
<1>1. CASE WriteHeader
  BY <1>1, HeaderIsWritten
<1>2. CASE WriteRecord
  BY <1>2, RecordIsWritten
<1>3. CASE WriteStrings
  BY <1>3, StringsAreWritten
<1>4. CASE UNCHANGED pfVars
  BY <1>4, PlanStutters
<1> QED BY <1>1, <1>2, <1>3, <1>4 DEF PFNext

(* Transfer finds a record where it was written: from the size of the header *)
(* it computes the same start.                                               *)
LEMMA TransferIsFound ==
    ASSUME NEW t \in Nat
    PROVE  TransferOffset(t) = Start + 8 * (t - 1)
<1>1. Start \in HeaderCells..(HeaderCells + 7) /\ Start % 8 = 0
  BY Layout
<1>2. \A n \in HeaderCells..(HeaderCells + 7) : n % 8 = 0 => n = Start
  BY Layout
<1>3. (CHOOSE n \in HeaderCells..(HeaderCells + 7) : n % 8 = 0) = Start
  BY <1>1, <1>2
<1> QED BY <1>3 DEF TransferOffset

(* The inductive invariant implies what PlanInv says of the records, ... *)
LEMMA RecordsAreFound ==
    ASSUME PlanIInv
    PROVE  RecordsAreAligned
<1>1. PlanTypes /\ RecordsLieIn
  BY DEF PlanIInv
<1> SUFFICES ASSUME NEW t \in 1..Len(records)
             PROVE  GetString(TransferOffset(t), 8) = Cells(t, "record", 8)
  BY DEF RecordsAreAligned
<1>2. t \in Nat /\ t >= 1 /\ Len(file) \in Nat /\ Start \in Nat
  BY <1>1, Layout DEF PlanTypes
<1>3. PICK p : p = Start + 8 * (t - 1) /\ p \in Nat
  BY <1>2
<1>4. TransferOffset(t) = p
  BY <1>2, <1>3, TransferIsFound
<1>5. \A i \in 1..8 : p + i <= Len(file) /\ file[p + i] = <<t, "record">>
  BY <1>1, <1>3 DEF RecordsLieIn
<1>6. \A i \in 1..8 : p + i \in 1..Len(file)
  BY <1>2, <1>3, <1>5
<1>7. \A i \in 1..8 : (IF p + i \in 1..Len(file) THEN file[p + i] ELSE <<0, "outside">>)
                          = <<t, "record">>
  BY <1>5, <1>6
<1> QED BY <1>4, <1>7 DEF GetString, Cells

(* ... of the strings, ... *)
LEMMA StringsAreFound ==
    ASSUME PlanIInv
    PROVE  PlanReadsBack
<1>1. PlanTypes /\ StringsLieIn /\ OffsetsAddUp /\ WhileStrings
  BY DEF PlanIInv
<1> SUFFICES ASSUME Closed, NEW t \in OrderIndex, NEW f \in Field
             PROVE  GetString(OffsetOf(records[t], f), records[t].lengths[f])
                        = Cells(t, f, order[t][f])
  BY DEF PlanReadsBack
<1>2. t \in Nat /\ t >= 1 /\ t < writing /\ writing > 0
  BY Layout DEF Closed, OrderIndex
<1>3. Len(records) = OrderSize /\ records[t].lengths = order[t]
  BY <1>1, <1>2 DEF WhileStrings, OffsetsAddUp, OrderIndex
<1>4. /\ records[t].offset \in Nat
      /\ records[t].offset + RealSum(t) <= Len(file)
      /\ \A i \in 1..order[t][f] : file[OffsetOf(records[t], f) + i] = <<t, f>>
  BY <1>1, <1>2 DEF StringsLieIn
<1>5. Len(file) \in Nat
  BY <1>1 DEF PlanTypes
<1>6. ASSUME NEW i \in 1..order[t][f]
      PROVE  OffsetOf(records[t], f) + i \in 1..Len(file)
  BY <1>1, <1>3, <1>4, <1>5, InPlace
<1>7. PICK p, n : p = OffsetOf(records[t], f) /\ n = order[t][f]
  OBVIOUS
<1>8. \A i \in 1..n : (IF p + i \in 1..Len(file) THEN file[p + i] ELSE <<0, "outside">>)
                          = <<t, f>>
  BY <1>4, <1>6, <1>7
<1> QED BY Zenon, <1>3, <1>7, <1>8 DEF GetString, Cells

(* ... and of when Create panics: the strings of the transfer before took more *)
(* room than its record says, so the sum of their lengths has wrapped.         *)
LEMMA PanicsAreOfLongSums ==
    ASSUME PlanIInv
    PROVE  OnlyLongSumsPanic
<1>1. PlanTypes /\ OffsetsAddUp /\ WhileStrings /\ PanicIsFounded
  BY DEF PlanIInv
<1> SUFFICES ASSUME writerPanicked
             PROVE  \E t \in OrderIndex : RealSum(t) > MaxLen
  BY DEF OnlyLongSumsPanic, RealSum
<1>2. writing \in OrderIndex /\ Len(file) # records[writing].offset
  BY <1>1 DEF PanicIsFounded
<1>3. /\ writing \in Nat /\ writing >= 1 /\ writing <= OrderSize /\ OrderSize \in Nat
  BY <1>2, Layout DEF OrderIndex
<1>4. /\ Len(records) = OrderSize
      /\ Len(file) = IF writing = 1 THEN Base
                     ELSE records[writing - 1].offset + RealSum(writing - 1)
  BY <1>1, <1>3 DEF WhileStrings
<1>5. records[writing].offset = NextOf(writing - 1)
  BY <1>1, <1>3, <1>4 DEF OffsetsAddUp
<1>6. writing # 1
  BY <1>2, <1>4, <1>5 DEF NextOf
<1>7. PICK t : t = writing - 1 /\ t \in OrderIndex /\ t # 0
  BY <1>3, <1>6 DEF OrderIndex
<1>8. records[t].offset + RealSum(t) # records[t].offset + TotalLength(order[t])
  BY <1>2, <1>4, <1>5, <1>6, <1>7 DEF NextOf
<1>9. TotalLength(order[t]) # RealSum(t)
  BY <1>8
<1>10. RealSum(t) \in Nat /\ ~(RealSum(t) <= MaxLen)
  BY <1>1, <1>7, <1>9, SumTypes
<1> QED BY <1>7, <1>10, Layout

(* At every step of Create the records and the strings lie where the invariant *)
(* says, for any lengths.                                                      *)
THEOREM PlanInvariant == PFSpec => []PlanIInv
<1>1. PFInit => PlanIInv
  BY PlanStarts
<1>2. PlanIInv /\ [PFNext]_pfVars => PlanIInv'
  BY PlanSteps
<1> QED BY <1>1, <1>2, PTL DEF PFSpec

(* A plan file that Create closes is read back as it was ordered, whether or  *)
(* not a sum of lengths wraps, for any number of transfers, any lengths, any   *)
(* header and integers of any width; and Create panics only on an order in     *)
(* which the strings of one transfer are together longer than an int16.        *)
THEOREM PlanInvHolds == PFSpec => []PlanInv
<1>1. PlanIInv => PlanInv
  <2> SUFFICES ASSUME PlanIInv
               PROVE  PlanInv
    OBVIOUS
  <2>1. PFTypeOK
    <3>1. PlanTypes
      BY DEF PlanIInv
    <3>2. Len(records) \in 0..OrderSize
      BY <3>1, Layout DEF PlanTypes
    <3> QED BY <3>1, <3>2 DEF PlanTypes, PFTypeOK
  <2> QED BY <2>1, RecordsAreFound, StringsAreFound, PanicsAreOfLongSums DEF PlanInv
<1> QED BY <1>1, PlanInvariant, PTL

-----------------------------------------------------------------------------
(* The command line: CopyCommand and SyncCommand.                         *)

(* A command that has come so far as to have options. *)
Cooked == stage \notin {"raw", "rejected", "panicked"}

Validated == Cooked /\ stage # "options"

(* What all stages keep of what the first one has let through. *)
CookedInv ==
    /\ Cooked => fromTo = asked.fromTo /\ fromTo \in EnumFromTo
    /\ Cooked /\ IsNFS(fromTo) => ~preserved.posix
    /\ Cooked /\ stage # "scheduling" /\ stage # "started" /\ stripTopDir =>
          Has("wildcard") \/ (Has("glob") /\ From(fromTo) = "Local")
    /\ stage = "raw" => credential = "Unknown" /\ srcCredential = "Unknown"

(* Copies through pipes take another way. *)
NoPipe ==
    /\ stage \in {"authenticating", "authenticated", "enumerating", "scheduling", "started"} =>
          fromTo \notin {<<"Blob", "Pipe">>, <<"Pipe", "Blob">>}
    /\ stage = "redirecting" => fromTo \in {<<"Blob", "Pipe">>, <<"Pipe", "Blob">>}

LandingInv ==
    Scheduled =>
        /\ HasTraverser(fromTo) /\ To(fromTo) # "Pipe"
        /\ IsContainerToContainer(fromTo) =>
              IF KeepsTheRoot(fromTo) THEN ~asSubdir /\ (stripTopDir => Has("wildcard"))
              ELSE stripTopDir
        /\ fpo = FolderPropertyOption(fromTo, stripTopDir)

BackupInv == Validated /\ Has("backup") => BackupModeIsOk(fromTo)

CopyIInv ==
    /\ CookedInv /\ OnlyKnownPanics /\ PreservedWhereBothCan /\ BackupInv
    /\ LoginsAreForTrustedHosts /\ NoPipe /\ LandingInv

(* A command line of which nothing is done yet.                            *)
LEMMA CopyStarts == CCInit => CopyIInv
BY DEF CCInit, NothingDone, CopyIInv, CookedInv, OnlyKnownPanics, PreservedWhereBothCan, BackupInv,
       LoginsAreForTrustedHosts, NoPipe, LandingInv, Cooked, Validated, Scheduled, Implicit, AzureOAuth

(* A command that ends without doing anything. *)
LEMMA EndsKeep ==
    ASSUME CopyIInv, Reject \/ (Panic /\ OnlyKnownPanics')
    PROVE  CopyIInv'
BY DEF Reject, Panic, EndWith, CopyIInv, CookedInv, OnlyKnownPanics, PreservedWhereBothCan, BackupInv,
       LoginsAreForTrustedHosts, NoPipe, LandingInv, Cooked, Validated, Scheduled, ccOptions, ccLanding

(* toOptions, cmd/copy.go: what is inferred and what is refused.           *)
LEMMA ToOptionsKeeps ==
    ASSUME CopyIInv, ToOptions
    PROVE  CopyIInv'
<1>1. CASE Reject
  BY <1>1, EndsKeep
<1>2. CASE Panic
  <2>1. OnlyKnownPanics'
    BY <1>2 DEF ToOptions, Panic, EndWith, OnlyKnownPanics, Has, ccOptions, Reject
  <2> QED BY <1>2, <2>1, EndsKeep
<1>3. CASE stage' = "options"
  <2>0. preserved'.posix = (Has("posix") /\ ~IsNFS(asked.fromTo))
    BY <1>3 DEF ToOptions, Reject, Panic, EndWith
  <2>1. /\ fromTo' = asked.fromTo /\ fromTo' \in EnumFromTo
        /\ stripTopDir' => Has("wildcard") \/ (Has("glob") /\ From(asked.fromTo) = "Local")
        /\ UNCHANGED <<asked, asSubdir, credential, srcCredential, fpo>>
    BY <1>3 DEF ToOptions, IsRecognised, Reject, Panic, EndWith
  <2>2. credential = "Unknown" /\ srcCredential = "Unknown"
    BY DEF CopyIInv, CookedInv, ToOptions
  <2> QED BY <1>3, <2>0, <2>1, <2>2
      DEF CopyIInv, CookedInv, OnlyKnownPanics, PreservedWhereBothCan, BackupInv, Has,
       LoginsAreForTrustedHosts, NoPipe, LandingInv, Cooked, Validated, Scheduled, Implicit, AzureOAuth
<1> QED BY <1>1, <1>2, <1>3 DEF ToOptions

(* Which ends the options that pass have. *)
LEMMA OkPreserves ==
    ASSUME stage = "options", fromTo \in EnumFromTo, IsNFS(fromTo) => ~preserved.posix,
           IF IsNFS(fromTo) THEN NFSIsOk(fromTo) ELSE SMBIsOk(fromTo), EndWith("validated")
    PROVE  PreservedWhereBothCan'
<1> DEFINE On(systems) == IF asked.os \in systems THEN {"Local"} ELSE {}
           smb == {"File"} \cup On({"windows", "linux"})
           nfs == {"FileNFS"} \cup On({"linux"})
           d == fromTo
<1>1. UNCHANGED <<asked, fromTo, preserved>>
  BY DEF EndWith, ccOptions
<1>2. CASE IsNFS(d)
  <2>1. NFSIsOk(d)
    BY <1>2
  <2>2. preserved.info => EndsOf(d) \subseteq nfs \/ EndsOf(d) \subseteq FileServices
    BY <2>1 DEF NFSIsOk, EndsOf, FileServices, From, To, IsUpload, IsDownload, Remote
  <2>3. preserved.permissions => EndsOf(d) \subseteq nfs
    BY <2>1 DEF NFSIsOk, EndsOf, From, To, IsUpload, IsDownload, Remote
  <2>4. ~preserved.posix
    BY <1>2
  <2> QED BY <1>1, <2>2, <2>3, <2>4 DEF PreservedWhereBothCan
<1>3. CASE ~IsNFS(d)
  <2>1. SMBIsOk(d)
    BY <1>3
  <2>2. preserved.info => EndsOf(d) \subseteq smb
    BY <2>1 DEF SMBIsOk, EndsOf, From, To, IsUpload, IsDownload, Remote
  <2>3. preserved.permissions => EndsOf(d) \subseteq smb \/ EndsOf(d) \subseteq BlobLike
    BY <2>1 DEF SMBIsOk, EndsOf, From, To, IsUpload, IsDownload, Remote, BlobLike
  <2>4. preserved.posix => EndsOf(d) \subseteq BlobLike \cup On({"linux"})
    BY <2>1 DEF SMBIsOk, AreBothPOSIXAware, EndsOf, From, To, BlobLike
  <2> QED BY <1>1, <2>2, <2>3, <2>4 DEF PreservedWhereBothCan
<1> QED BY <1>2, <1>3

(* What the steps between options and enumeration leave as it was. *)
OnlyStage(before, after) ==
    /\ stage = before /\ stage' = after
    /\ UNCHANGED <<asked, ccOptions, ccLanding, fpo>>

(* validate, cmd/copyValidation.go.                                        *)
LEMMA ValidateKeeps ==
    ASSUME CopyIInv, Validate
    PROVE  CopyIInv'
<1>1. CASE Reject
  BY <1>1, EndsKeep
<1>2. CASE OptionsAreOk(fromTo) /\ EndWith("validated")
  <2>1. PreservedWhereBothCan'
    BY <1>2, OkPreserves DEF OptionsAreOk, Validate, CopyIInv, CookedInv, Cooked
  <2>2. Has("backup") => BackupModeIsOk(fromTo)
    BY <1>2 DEF OptionsAreOk
  <2>3. stage = "options" /\ stage' = "validated"
    BY <1>2 DEF Validate, EndWith
  <2>4. UNCHANGED <<asked, ccOptions, ccLanding, credential, srcCredential, fpo>>
    BY <1>2 DEF EndWith
  <2>5. CookedInv'
    BY <2>3, <2>4 DEF CopyIInv, CookedInv, Cooked, ccOptions, ccLanding, Has, IsNFS, From, To
  <2>6. BackupInv'
    BY <2>2, <2>4 DEF BackupInv, Has, BackupModeIsOk, IsUpload, IsDownload, From, To, Remote, ccOptions
  <2>7. LoginsAreForTrustedHosts'
    BY <2>4 DEF CopyIInv, LoginsAreForTrustedHosts, Implicit, AzureOAuth, ccOptions, To, Remote
  <2> QED BY <2>1, <2>3, <2>5, <2>6, <2>7
          DEF CopyIInv, OnlyKnownPanics, NoPipe, LandingInv, Scheduled
<1>3. CASE Panic /\ Has("unparsableDestination") /\ (Has("cpkByName") \/ Has("cpkByValue"))
  <2>1. OnlyKnownPanics'
    BY <1>3 DEF Panic, EndWith, OnlyKnownPanics, Has, ccOptions
  <2> QED BY <1>3, <2>1, EndsKeep
<1> QED BY <1>1, <1>2, <1>3 DEF Validate

(* process, cmd/copy.go: pipes take another way.                           *)
LEMMA ProcessKeeps ==
    ASSUME CopyIInv, ProcessCommand
    PROVE  CopyIInv'
<1>1. CASE Reject
  BY <1>1, EndsKeep
<1>2. ~(asked.os = "windows" /\ Has("backup") /\ ~IsUpload(fromTo) /\ ~IsDownload(fromTo))
  BY DEF CopyIInv, BackupInv, Validated, Cooked, ProcessCommand, BackupModeIsOk
<1>3. ASSUME ~Reject
      PROVE  EndWith(IF fromTo \in {<<"Blob", "Pipe">>, <<"Pipe", "Blob">>}
                     THEN "redirecting" ELSE "authenticating")
  BY <1>2, <1>3 DEF ProcessCommand
<1>4. CASE ~Reject
  <2>1. /\ stage' \in {"redirecting", "authenticating"}
        /\ stage' = "authenticating" <=> fromTo \notin {<<"Blob", "Pipe">>, <<"Pipe", "Blob">>}
        /\ UNCHANGED <<asked, ccOptions, ccLanding, credential, srcCredential, fpo>>
    BY <1>3, <1>4 DEF EndWith
  <2>2. stage = "validated"
    BY DEF ProcessCommand
  <2> QED BY <2>1, <2>2 DEF CopyIInv, CookedInv, OnlyKnownPanics, PreservedWhereBothCan, BackupInv,
       LoginsAreForTrustedHosts, NoPipe, LandingInv, Cooked, Validated, Scheduled, ccOptions, ccLanding,
       Has, From, To, Remote, BackupModeIsOk, IsUpload, IsDownload, IsNFS
<1> QED BY <1>1, <1>4

(* A type of credential that the check refuses is a forced one. *)
LEMMA OnlyForcedIsUnknown ==
    ASSUME NEW loc, NEW end, NEW isSource, CredentialFor(loc, end, isSource) = "S3PublicBucket"
    PROVE  asked.forced = "S3PublicBucket"
BY DEF CredentialFor

(* A login is used for a host of Azure. *)
LEMMA SafeLogins ==
    ASSUME NEW loc \in Location, NEW end, NEW isSource,
           LET type == CredentialFor(loc, end, isSource) IN IsSafe(type, loc, end) /\ type \in Implicit
    PROVE  loc \in Azure /\ end.host # "other"
<1> DEFINE type == CredentialFor(loc, end, isSource)
<1>1. loc \notin {"Local", "Benchmark", "None", "Pipe"}
  BY DEF CredentialFor, Implicit, AzureOAuth
<1>2. loc \in Remote \cup {"Unknown"}
  BY <1>1 DEF Location
<1>3. type \notin {"Unknown", "Anonymous", "S3AccessKey", "GoogleAppCredentials"}
  BY DEF Implicit, AzureOAuth
<1> QED BY <1>2, <1>3 DEF IsSafe

(* The destination's login, and a copy through a pipe (cmd/copy.go).       *)
LEMMA AuthenticateKeeps ==
    ASSUME CopyIInv, Authenticate \/ Redirect
    PROVE  CopyIInv'
<1> DEFINE to == IF stage = "authenticating" THEN AuthenticatesTo(fromTo)
                 ELSE [loc |-> "Blob", end |-> IF From(fromTo) = "Blob" THEN asked.src ELSE asked.dst,
                       isSource |-> From(fromTo) = "Blob"]
           type == CredentialFor(to.loc, to.end, to.isSource)
<1>1. CASE Reject
  BY <1>1, EndsKeep
<1>2. CASE type = "S3PublicBucket" /\ Panic
  <2>1. asked.forced = "S3PublicBucket"
    BY <1>2, OnlyForcedIsUnknown
  <2>2. OnlyKnownPanics'
    BY <1>2, <2>1 DEF Panic, EndWith, OnlyKnownPanics
  <2> QED BY <1>2, <2>2, EndsKeep
<1>3. ASSUME ~Reject, ~(type = "S3PublicBucket" /\ Panic)
      PROVE  /\ IsSafe(type, to.loc, to.end) /\ credential' = type
             /\ \/ stage = "authenticating" /\ stage' = "authenticated"
                \/ stage = "redirecting" /\ stage' = "redirected"
             /\ UNCHANGED <<asked, ccOptions, ccLanding, srcCredential, fpo>>
  BY <1>3 DEF Authenticate, Redirect, AuthenticateTo
<1>4. CASE /\ IsSafe(type, to.loc, to.end) /\ credential' = type
           /\ \/ stage = "authenticating" /\ stage' = "authenticated"
              \/ stage = "redirecting" /\ stage' = "redirected"
           /\ UNCHANGED <<asked, ccOptions, ccLanding, srcCredential, fpo>>
  <2>1. Cooked /\ fromTo \in EnumFromTo
    BY <1>4 DEF CopyIInv, CookedInv, Cooked
  <2>2. to.loc \in Location
    BY <2>1 DEF AuthenticatesTo, EnumFromTo, From, To, Location, Remote
  <2>3. type \in Implicit => to.loc \in Azure /\ to.end.host # "other"
    BY <1>4, <2>2, SafeLogins
  <2>4. to.loc \in Azure => to.end = IF To(fromTo) \in Remote THEN asked.dst ELSE asked.src
    BY <1>4 DEF CopyIInv, NoPipe, AuthenticatesTo, Azure, BlobLike, FileServices, Remote, From, To
  <2>5. LoginsAreForTrustedHosts'
    BY <1>4, <2>3, <2>4 DEF CopyIInv, LoginsAreForTrustedHosts, ccOptions, To, Remote, Implicit, AzureOAuth
  <2> QED BY <1>4, <2>5 DEF CopyIInv, CookedInv, OnlyKnownPanics, PreservedWhereBothCan, BackupInv,
       NoPipe, LandingInv, Cooked, Validated, Scheduled, ccOptions, ccLanding,
       Has, From, To, Remote, BackupModeIsOk, IsUpload, IsDownload, IsNFS
<1> QED BY <1>1, <1>2, <1>3, <1>4

(* The source's login: getSrcCredential, cmd/copy.go.                      *)
LEMMA AuthenticateSourceKeeps ==
    ASSUME CopyIInv, AuthenticateSource
    PROVE  CopyIInv'
<1> DEFINE type == CredentialFor(From(fromTo), asked.src, TRUE)
<1>0. stage = "authenticated" /\ fromTo = asked.fromTo /\ fromTo \in EnumFromTo
  BY DEF AuthenticateSource, CopyIInv, CookedInv, Cooked
<1>1. CASE Reject
  BY <1>1, EndsKeep
<1>2. CASE Panic
  <2>1. From(fromTo) = "Pipe" \/ asked.forced = "S3PublicBucket" \/ ~Panic
    BY <1>0, OnlyForcedIsUnknown DEF AuthenticateSource, AuthenticateTo, Panic, Reject, EndWith
  <2>2. From(fromTo) = "Pipe" => asked.fromTo = <<"Pipe", "File">>
    BY <1>0 DEF CopyIInv, NoPipe, EnumFromTo, From, Remote
  <2>3. OnlyKnownPanics'
    BY <1>2, <2>1, <2>2 DEF Panic, EndWith, OnlyKnownPanics
  <2> QED BY <1>2, <2>3, EndsKeep
<1>3. CASE /\ IsSafe(type, From(fromTo), asked.src)
           /\ srcCredential' = type /\ stage' = "enumerating"
           /\ UNCHANGED <<asked, ccOptions, ccLanding, credential, fpo>>
  <2>1. From(fromTo) \in Location
    BY <1>0 DEF EnumFromTo, From, Location, Remote
  <2>2. LoginsAreForTrustedHosts'
    BY <1>3, <2>1, SafeLogins DEF CopyIInv, LoginsAreForTrustedHosts, ccOptions, To, Remote, Implicit, AzureOAuth
  <2> QED BY <1>0, <1>3, <2>2 DEF CopyIInv, CookedInv, OnlyKnownPanics, PreservedWhereBothCan, BackupInv,
       NoPipe, LandingInv, Cooked, Validated, Scheduled, ccOptions, ccLanding,
       Has, From, To, Remote, BackupModeIsOk, IsUpload, IsDownload, IsNFS
<1> QED BY <1>1, <1>2, <1>3 DEF AuthenticateSource, AuthenticateTo

(* initEnumerator, cmd/copyEnumeratorInit.go: where objects land is        *)
(* settled.                                                                *)
LEMMA EnumerateKeeps ==
    ASSUME CopyIInv, Enumerate
    PROVE  CopyIInv'
<1>0. stage = "enumerating" /\ fromTo = asked.fromTo /\ fromTo \in EnumFromTo
  BY DEF Enumerate, CopyIInv, CookedInv, Cooked
<1>1. CASE Reject
  BY <1>1, EndsKeep
<1>2. CASE From(fromTo) = "Benchmark" /\ Has("patterns") /\ Panic
  <2>1. OnlyKnownPanics'
    BY <1>0, <1>2 DEF Panic, EndWith, OnlyKnownPanics, Has
  <2> QED BY <1>2, <2>1, EndsKeep
<1>3. CASE /\ CanEnumerate(fromTo)
           /\ asSubdir' = (asSubdir /\ ~KeepsTheRoot(fromTo))
           /\ stripTopDir' = (stripTopDir \/ (IsContainerToContainer(fromTo) /\ ~KeepsTheRoot(fromTo)))
           /\ fpo' = FolderPropertyOption(fromTo, stripTopDir')
           /\ stage' = "scheduling"
           /\ UNCHANGED <<asked, ccOptions, credential, srcCredential>>
  <2>1. HasTraverser(fromTo)
    BY <1>3 DEF CanEnumerate
  <2>2. To(fromTo) # "Pipe"
    <3>1. CASE IsDownload(fromTo)
      BY <1>3, <3>1 DEF CanEnumerate, CanCopy
    <3>2. CASE ~IsDownload(fromTo)
      BY <1>0, <3>2 DEF IsDownload, EnumFromTo, From, To, Remote, CopyIInv, NoPipe
    <3> QED BY <3>1, <3>2
  <2>3. stripTopDir => Has("wildcard") \/ (Has("glob") /\ From(fromTo) = "Local")
    BY <1>0 DEF CopyIInv, CookedInv, Cooked
  <2>4. IsContainerToContainer(fromTo) => From(fromTo) # "Local"
    BY DEF IsContainerToContainer, IsS2S, Remote
  <2>5. UNCHANGED <<asked, fromTo, preserved, stubs>>
    BY <1>3 DEF ccOptions
  <2>6. /\ HasTraverser(fromTo)' /\ To(fromTo)' # "Pipe"
        /\ (IsContainerToContainer(fromTo)' <=> IsContainerToContainer(fromTo))
        /\ (KeepsTheRoot(fromTo)' <=> KeepsTheRoot(fromTo))
        /\ FolderPropertyOption(fromTo, stripTopDir)' = FolderPropertyOption(fromTo, stripTopDir')
        /\ (Has("wildcard")' <=> Has("wildcard"))
    BY <2>1, <2>2, <2>5 DEF HasTraverser, IsContainerToContainer, KeepsTheRoot, FolderPropertyOption,
       OnlyFiles, ToNull, SrcLevel, DstLevel, HasList, Has, IsS2S, From, To
  <2>7. LandingInv'
    BY <1>3, <2>3, <2>4, <2>6 DEF LandingInv, KeepsTheRoot
  <2> QED BY <1>0, <1>3, <2>5, <2>7 DEF CopyIInv, CookedInv, OnlyKnownPanics, PreservedWhereBothCan, BackupInv,
       NoPipe, Cooked, Validated, Scheduled, LoginsAreForTrustedHosts, Implicit, AzureOAuth,
       Has, From, To, Remote, BackupModeIsOk, IsUpload, IsDownload, IsNFS
<1> QED BY <1>1, <1>2, <1>3 DEF Enumerate

(* There is code for every direction that is enumerated. *)
LEMMA EveryDirectionHasCode ==
    ASSUME fromTo \in EnumFromTo, HasTraverser(fromTo), To(fromTo) # "Pipe"
    PROVE  HasXfer(fromTo)
BY DEF EnumFromTo, HasTraverser, HasXfer, IsDownload, From, To, Remote, Azure, BlobLike, FileServices

(* A transfer finds the code that takes it: computeJobXfer, ste/xfer.go.   *)
LEMMA TransferKeeps ==
    ASSUME CopyIInv, NEW entity, Transfer(entity)
    PROVE  CopyIInv'
<1>0. /\ stage = "scheduling" /\ fromTo = asked.fromTo /\ fromTo \in EnumFromTo
      /\ HasTraverser(fromTo) /\ To(fromTo) # "Pipe"
  BY DEF Transfer, CopyIInv, CookedInv, Cooked, LandingInv, Scheduled
<1>1. HasXfer(fromTo)
  BY <1>0, EveryDirectionHasCode
<1>2. CASE Panic
  <2>1. OnlyKnownPanics'
    BY <1>0, <1>1, <1>2 DEF Transfer, Panic, EndWith, OnlyKnownPanics, Has
  <2> QED BY <1>2, <2>1, EndsKeep
<1>3. CASE EndWith("started")
  <2>1. stage' = "started" /\ UNCHANGED <<asked, ccOptions, ccLanding, credential, srcCredential, fpo>>
    BY <1>3 DEF EndWith
  <2>2. LandingInv'
    BY <1>0, <2>1 DEF CopyIInv, LandingInv, Scheduled, ccOptions, ccLanding, Has,
       HasTraverser, IsContainerToContainer, KeepsTheRoot, FolderPropertyOption,
       OnlyFiles, ToNull, SrcLevel, DstLevel, HasList, IsS2S, From, To
  <2> QED BY <1>0, <2>1, <2>2 DEF CopyIInv, CookedInv, OnlyKnownPanics, PreservedWhereBothCan, BackupInv,
       NoPipe, Cooked, Validated, LoginsAreForTrustedHosts, ccOptions, ccLanding, Has, From, To, Remote,
       BackupModeIsOk, IsUpload, IsDownload, IsNFS, EndsOf
<1> QED BY <1>2, <1>3 DEF Transfer

(* Every step of a copy.                                                   *)
LEMMA CopyStep ==
    ASSUME CopyIInv, [CCNext]_ccVars
    PROVE  CopyIInv'
<1>1. CASE UNCHANGED ccVars
  BY <1>1 DEF ccVars, ccOptions, ccLanding, CopyIInv, CookedInv, OnlyKnownPanics, PreservedWhereBothCan,
       BackupInv, LoginsAreForTrustedHosts, NoPipe, LandingInv, Cooked, Validated, Scheduled, Has,
       HasTraverser, IsContainerToContainer, KeepsTheRoot, FolderPropertyOption,
       OnlyFiles, ToNull, SrcLevel, DstLevel, HasList, IsS2S, From, To, BackupModeIsOk, IsUpload, IsDownload,
       IsNFS, EndsOf
<1>2. CASE CCNext
  BY <1>2, ToOptionsKeeps, ValidateKeeps, ProcessKeeps, AuthenticateKeeps, AuthenticateSourceKeeps,
     EnumerateKeeps, TransferKeeps DEF CCNext
<1> QED BY <1>1, <1>2

(* The paths of what is scanned. *)
ScannedPath == {<<>>, <<"d">>, <<"f">>, <<"d", "f">>}

Name == {"c1", "c2", "root", "d", "f"}

(* What a scan finds is at a path of names.                                *)
LEMMA PathsAreSequences == ASSUME NEW p \in ScannedPath PROVE p \in Seq(Name)
<1>1. "d" \in Name /\ "f" \in Name
  BY DEF Name
<1>2. ASSUME NEW x \in Name, NEW y \in Name
      PROVE  <<>> \in Seq(Name) /\ <<x>> \in Seq(Name) /\ <<x, y>> \in Seq(Name)
  OBVIOUS
<1> QED BY <1>1, <1>2 DEF ScannedPath

(* What two equal sequences that begin alike end with.                     *)
LEMMA EqualRest ==
    ASSUME NEW S, NEW s \in Seq(S), NEW t \in Seq(S), NEW v \in Seq(S), s \o t = s \o v
    PROVE  t = v
<1>1. Len(s) + Len(t) = Len(s) + Len(v)
  BY ConcatProperties
<1>2. Len(t) = Len(v)
  BY <1>1
<1>3. ASSUME NEW i \in 1 .. Len(t) PROVE t[i] = v[i]
  <2>1. Len(s) + i \in 1 .. Len(s) + Len(t) /\ ~(Len(s) + i <= Len(s)) /\ Len(s) + i - Len(s) = i
    OBVIOUS
  <2>2. (s \o t)[Len(s) + i] = t[i]
    BY <2>1, ConcatProperties
  <2>3. (s \o v)[Len(s) + i] = v[i]
    BY <1>2, <2>1, ConcatProperties
  <2> QED BY <2>2, <2>3
<1> QED BY <1>2, <1>3, SeqEqual

(* A path under a container tells which container and which path in it.    *)
LEMMA PrefixesSeparate ==
    ASSUME NEW c \in Name, NEW e \in Name, NEW p \in ScannedPath, NEW q \in ScannedPath
    PROVE  /\ <<c>> \o p = <<e>> \o q => c = e /\ p = q
           /\ <<>> \o p = p
<1>1. p \in Seq(Name) /\ q \in Seq(Name)
  BY PathsAreSequences
<1>2. <<c>> \in Seq(Name) /\ <<e>> \in Seq(Name)
  OBVIOUS
<1>3. <<c>> \o p = <<c>> \o q => p = q
  BY <1>1, <1>2, EqualRest
<1>4. (<<c>> \o p)[1] = c /\ (<<e>> \o q)[1] = e
  <2>1. Len(<<c>>) = 1 /\ <<c>>[1] = c /\ Len(<<e>>) = 1 /\ <<e>>[1] = e
    OBVIOUS
  <2> QED BY <1>1, <1>2, <2>1, ConcatProperties
<1>5. <<>> \o p = p
  BY <1>1, ConcatEmptySeq
<1> QED BY <1>3, <1>4, <1>5

(* An object is in a container, at a path that tells folders from files.   *)
LEMMA WhatIsScanned ==
    ASSUME NEW d, NEW o \in Scanned(d)
    PROVE  /\ o.container \in {"c1", "c2"} /\ o.path \in ScannedPath
           /\ SrcLevel(d) # "service" => o.container = "c1"
           /\ \/ Scanned(d) = {o} /\ SrcLevel(d) = "object"
              \/ o.isFolder <=> o.path \in {<<>>, <<"d">>}
           /\ o = [container |-> o.container, path |-> o.path, isFolder |-> o.isFolder]
           /\ o.isFolder \in BOOLEAN
<1> DEFINE Object(c, path, isFolder) == [container |-> c, path |-> path, isFolder |-> isFolder]
           Tree(c) == {Object(c, <<>>, TRUE), Object(c, <<"d">>, TRUE),
                       Object(c, <<"f">>, FALSE), Object(c, <<"d", "f">>, FALSE)}
<1>1. <<>> # <<"f">> /\ <<"d">> # <<"f">> /\ <<>> # <<"d", "f">> /\ <<"d">> # <<"d", "f">>
  OBVIOUS
<1>2. ASSUME NEW c \in {"c1", "c2"}, o \in Tree(c)
      PROVE  /\ o.container = c /\ o.path \in ScannedPath
             /\ o.isFolder <=> o.path \in {<<>>, <<"d">>}
             /\ o = [container |-> o.container, path |-> o.path, isFolder |-> o.isFolder]
             /\ o.isFolder \in BOOLEAN
  <2>1. \/ o = Object(c, <<>>, TRUE) \/ o = Object(c, <<"d">>, TRUE)
        \/ o = Object(c, <<"f">>, FALSE) \/ o = Object(c, <<"d", "f">>, FALSE)
    BY <1>2
  <2>2. CASE o = Object(c, <<>>, TRUE)
    BY <2>2 DEF ScannedPath
  <2>3. CASE o = Object(c, <<"d">>, TRUE)
    BY <2>3 DEF ScannedPath
  <2>4. CASE o = Object(c, <<"f">>, FALSE)
    BY <1>1, <2>4 DEF ScannedPath
  <2>5. CASE o = Object(c, <<"d", "f">>, FALSE)
    BY <1>1, <2>5 DEF ScannedPath
  <2> QED BY <2>1, <2>2, <2>3, <2>4, <2>5
<1>3. \/ SrcLevel(d) = "service" /\ o \in Tree("c1") \cup Tree("c2")
      \/ SrcLevel(d) = "object" /\ Scanned(d) = {Object("c1", <<>>, FALSE)}
      \/ SrcLevel(d) # "service" /\ o \in Tree("c1")
  BY DEF Scanned
<1>4. CASE SrcLevel(d) = "object" /\ Scanned(d) = {Object("c1", <<>>, FALSE)}
  <2>1. o = Object("c1", <<>>, FALSE) /\ Scanned(d) = {o}
    BY <1>4
  <2> QED BY <1>4, <2>1 DEF ScannedPath
<1> QED BY <1>2, <1>3, <1>4

(* What is scanned of a service lies in different containers, and below    *)
(* one root everything has its own path.                                   *)
LEMMA CopiesAreDistinct == CopyIInv => DestinationsAreDistinct
<1> SUFFICES ASSUME CopyIInv, Scheduled, ~ToNull,
                    NEW o \in Scanned(fromTo), NEW p \in Scanned(fromTo),
                    DstRelPath(fromTo, o) = DstRelPath(fromTo, p)
             PROVE  o = p
  BY DEF DestinationsAreDistinct
<1>1. fromTo \in EnumFromTo /\ HasTraverser(fromTo)
  BY DEF CopyIInv, CookedInv, Cooked, LandingInv, Scheduled
<1>2. SrcLevel(fromTo) = "service" => From(fromTo) \in Remote
  BY <1>1 DEF SrcLevel, HasTraverser, EnumFromTo, From, Remote
<1>3. CASE Scanned(fromTo) = {o} \/ Scanned(fromTo) = {p}
  BY <1>3
<1>4. CASE ~(Scanned(fromTo) = {o} \/ Scanned(fromTo) = {p})
  <2> DEFINE common == IF ~stripTopDir /\ asSubdir THEN <<"root">> ELSE <<>>
  <2>1. /\ o.path = <<>> => o.isFolder
        /\ p.path = <<>> => p.isFolder
        /\ o.container \in {"c1", "c2"} /\ p.container \in {"c1", "c2"}
        /\ o.path \in ScannedPath /\ p.path \in ScannedPath
        /\ SrcLevel(fromTo) # "service" => o.container = p.container
    BY <1>4, WhatIsScanned
  <2>a. o.container \in Name /\ p.container \in Name /\ "root" \in Name
    BY <2>1 DEF Name
  <2>b. \A c, e \in Name : <<c>> \o o.path = <<e>> \o p.path => c = e /\ o.path = p.path
    <3>1. \A x, y \in ScannedPath : \A c, e \in Name : <<c>> \o x = <<e>> \o y => c = e /\ x = y
      BY PrefixesSeparate
    <3> QED BY <2>1, <3>1
  <2>c. <<>> \o o.path = o.path /\ <<>> \o p.path = p.path
    BY <2>1, PathsAreSequences, ConcatEmptySeq
  <2>2. o.path = p.path /\ o.container = p.container
    <3>1. CASE KeepsContainer(fromTo)
      <4>1. <<o.container>> \o o.path = <<p.container>> \o p.path
        BY <2>1, <3>1 DEF DstRelPath
      <4> QED BY <2>a, <2>b, <4>1
    <3>2. CASE ~KeepsContainer(fromTo)
      <4>1. common \o o.path = common \o p.path
        BY <2>1, <3>2 DEF DstRelPath
      <4>2. SrcLevel(fromTo) # "service"
        BY <1>2, <3>2 DEF KeepsContainer
      <4>3. CASE common = <<"root">>
        <5>1. <<"root">> \o o.path = <<"root">> \o p.path
          BY <4>1, <4>3
        <5> HIDE DEF common
        <5> QED BY <2>a, <2>b, <4>2, <2>1, <5>1
      <4>4. CASE common = <<>>
        <5>1. <<>> \o o.path = <<>> \o p.path
          BY <4>1, <4>4
        <5> QED BY <2>c, <2>1, <4>2, <5>1
      <4> QED BY <2>1, <4>2, <4>3, <4>4
    <3> QED BY <3>1, <3>2
  <2>3. /\ o = [container |-> o.container, path |-> o.path, isFolder |-> o.isFolder]
        /\ p = [container |-> p.container, path |-> p.path, isFolder |-> p.isFolder]
        /\ o.isFolder <=> p.isFolder
    BY <1>4, <2>2, WhatIsScanned
  <2>4. o.isFolder \in BOOLEAN /\ p.isFolder \in BOOLEAN
    BY <1>4, WhatIsScanned
  <2> QED BY <2>2, <2>3, <2>4
<1> QED BY <1>3, <1>4

(* Copied onto a container, a container does not become a folder in it     *)
(* (MakeEscapedRelativePath, cmd/copyEnumeratorInit.go).                   *)
LEMMA CopiedContainersAreMerged == CopyIInv => ContainersLandOnEachOther
<1> SUFFICES ASSUME CopyIInv, Scheduled, IsContainerToContainer(fromTo)
             PROVE  /\ \A o \in Scanned(fromTo) : DstRelPath(fromTo, o) = o.path
                    /\ /\ preserved.permissions /\ Has("recursive") /\ ~HasList /\ ~Has("wildcard") /\ ~OnlyFiles
                       => fpo = "AllFolders"
  BY DEF ContainersLandOnEachOther
<1>1. fromTo = asked.fromTo /\ To(fromTo) \in Remote
  BY DEF CopyIInv, CookedInv, Cooked, Scheduled, IsContainerToContainer, IsS2S
<1>2. ~ToNull
  BY <1>1 DEF ToNull, Remote
<1>3. SrcLevel(fromTo) = "container" /\ DstLevel(fromTo) = "container"
  BY DEF IsContainerToContainer
<1>4. /\ KeepsTheRoot(fromTo) => ~asSubdir /\ (stripTopDir => Has("wildcard"))
      /\ ~KeepsTheRoot(fromTo) => stripTopDir
      /\ fpo = FolderPropertyOption(fromTo, stripTopDir)
  BY DEF CopyIInv, LandingInv
<1>5. ASSUME NEW o \in Scanned(fromTo) PROVE DstRelPath(fromTo, o) = o.path
  <2>1. o.path \in ScannedPath /\ (o.path = <<>> => o.isFolder)
    BY <1>3, WhatIsScanned
  <2>2. DstRelPath(fromTo, o) = <<>> \o o.path
    BY <1>2, <1>3, <1>4, <2>1 DEF DstRelPath, KeepsContainer
  <2> QED BY <2>1, <2>2, PrefixesSeparate DEF Name
<1>6. ASSUME preserved.permissions, Has("recursive"), ~Has("wildcard"), ~OnlyFiles
      PROVE  fpo = "AllFolders"
  <2>1. ~stripTopDir
    BY <1>4, <1>6 DEF KeepsTheRoot
  <2> QED BY <1>1, <1>2, <1>4, <1>6, <2>1 DEF FolderPropertyOption, Remote
<1> QED BY <1>5, <1>6

(* The invariant has what a copy promises.                                 *)
LEMMA CopyInvFollows == CopyIInv => CopyInv
BY CopiesAreDistinct, CopiedContainersAreMerged DEF CopyInv, CopyIInv

(* What passes one stage of a copy does not panic in a later one but for   *)
(* the known cases; properties and permissions are kept only where both    *)
(* ends know them, implicit logins go to Azure's hosts only, no two        *)
(* objects land at one path, and a container that is copied onto a         *)
(* container becomes no folder in it: for any command lines (cmd/copy.go   *)
(* cook, cmd/copyEnumeratorInit.go).                                       *)
THEOREM CopyInvHolds == CCSpec => []CopyInv
<1>1. CopyIInv /\ [CCNext]_ccVars => CopyIInv'
  BY CopyStep
<1> QED BY <1>1, CopyStarts, CopyInvFollows, PTL DEF CCSpec

-----------------------------------------------------------------------------
(* A sync. *)
SyncCookedInv ==
    /\ asked.dots \in {"Enable", "Disable", "AllowToUnsafeDestination"}
    /\ Cooked => fromTo = asked.fromTo /\ fromTo \in EnumFromTo /\ fromTo \in SyncDirections
    /\ Cooked /\ IsNFS(fromTo) => ~preserved.posix
    /\ stage = "raw" => credential = "Unknown" /\ srcCredential = "Unknown"

SyncIInv ==
    /\ SyncCookedInv /\ OnlyKnownSyncPanics /\ PreservedWhereBothCan
    /\ LoginsAreForTrustedHosts /\ FoldersAreListedAlike /\ DottedNamesAreKeptApart

(* A sync of which nothing is done yet.                                    *)
LEMMA SyncStarts == SCInit => SyncIInv
BY SyncAskedAssumption
   DEF SCInit, NothingDone, NotSetUp, SyncIInv, SyncCookedInv, OnlyKnownSyncPanics, PreservedWhereBothCan,
       LoginsAreForTrustedHosts, FoldersAreListedAlike, DottedNamesAreKeptApart, Cooked, Scheduled,
       Implicit, AzureOAuth

(* A sync that ends without doing anything.                                *)
LEMMA SyncEndsKeep ==
    ASSUME SyncIInv, Reject \/ (Panic /\ OnlyKnownSyncPanics')
    PROVE  SyncIInv'
BY DEF Reject, Panic, EndWith, SyncIInv, SyncCookedInv, OnlyKnownSyncPanics, PreservedWhereBothCan,
       LoginsAreForTrustedHosts, FoldersAreListedAlike, DottedNamesAreKeptApart, Cooked, Scheduled,
       ccOptions, ccLanding

(* A step to a stage before the last, of which the credentials are safe. *)
LEMMA SyncMovesKeep ==
    ASSUME SyncIInv, Cooked, stage # "options", UNCHANGED <<asked, ccOptions>>,
           stage' \notin {"raw", "rejected", "panicked", "scheduling", "started"},
           LoginsAreForTrustedHosts'
    PROVE  SyncIInv'
BY DEF SyncIInv, SyncCookedInv, OnlyKnownSyncPanics, PreservedWhereBothCan, FoldersAreListedAlike,
       DottedNamesAreKeptApart, Cooked, Scheduled, ccOptions, IsNFS, EndsOf, From, To

(* toOptions, cmd/sync.go.                                                 *)
LEMMA SyncToOptionsKeeps ==
    ASSUME SyncIInv, SyncToOptions
    PROVE  SyncIInv'
<1>1. CASE Reject
  BY <1>1, SyncEndsKeep
<1>2. CASE Panic
  <2>1. OnlyKnownSyncPanics'
    BY <1>2 DEF SyncToOptions, Panic, EndWith, OnlyKnownSyncPanics, Has, ccOptions, Reject
  <2> QED BY <1>2, <2>1, SyncEndsKeep
<1>3. CASE stage' = "options"
  <2>0. preserved'.posix = (Has("posix") /\ ~IsNFS(asked.fromTo))
    BY <1>3 DEF SyncToOptions, Reject, Panic, EndWith
  <2>1. /\ fromTo' = asked.fromTo /\ fromTo' \in EnumFromTo /\ fromTo' \in SyncDirections
        /\ UNCHANGED <<asked, credential, srcCredential>>
    BY <1>3 DEF SyncToOptions, IsRecognised, Reject, Panic, EndWith
  <2>2. credential = "Unknown" /\ srcCredential = "Unknown"
    BY DEF SyncIInv, SyncCookedInv, SyncToOptions
  <2> QED BY <1>3, <2>0, <2>1, <2>2
      DEF SyncIInv, SyncCookedInv, OnlyKnownSyncPanics, PreservedWhereBothCan, LoginsAreForTrustedHosts,
          FoldersAreListedAlike, DottedNamesAreKeptApart, Cooked, Scheduled, Implicit, AzureOAuth
<1> QED BY <1>1, <1>2, <1>3 DEF SyncToOptions

(* validate, cmd/sync.go.                                                  *)
LEMMA SyncValidateKeeps ==
    ASSUME SyncIInv, SyncValidate
    PROVE  SyncIInv'
<1>1. CASE Reject
  BY <1>1, SyncEndsKeep
<1>2. CASE SyncOptionsAreOk(fromTo) /\ EndWith("validated")
  <2>1. PreservedWhereBothCan'
    BY <1>2, OkPreserves DEF SyncOptionsAreOk, SyncValidate, SyncIInv, SyncCookedInv, Cooked
  <2>2. stage = "options" /\ stage' = "validated" /\ UNCHANGED <<asked, ccOptions, credential, srcCredential>>
    BY <1>2 DEF SyncValidate, EndWith
  <2> QED BY <2>1, <2>2
          DEF SyncIInv, SyncCookedInv, OnlyKnownSyncPanics, LoginsAreForTrustedHosts,
              FoldersAreListedAlike, DottedNamesAreKeptApart, Cooked, Scheduled, ccOptions, IsNFS, From, To,
              Implicit, AzureOAuth, Remote
<1> QED BY <1>1, <1>2 DEF SyncValidate

(* A bucket that is public is asked for by a login that is forced on the   *)
(* program only (doGetCredentialTypeForLocation, cmd/credentialUtil.go).   *)
LEMMA SyncPanicsAreForced ==
    ASSUME NEW loc, NEW end, NEW isSource, CredentialFor(loc, end, isSource) = "S3PublicBucket", Panic
    PROVE  OnlyKnownSyncPanics'
BY OnlyForcedIsUnknown DEF Panic, EndWith, OnlyKnownSyncPanics

(* process, cmd/sync.go: the destination's login.                          *)
LEMMA AuthenticateDestinationKeeps ==
    ASSUME SyncIInv, AuthenticateDestination
    PROVE  SyncIInv'
<1> DEFINE type == CredentialFor(To(fromTo), asked.dst, FALSE)
<1>0. stage = "validated" /\ fromTo \in EnumFromTo
  BY DEF AuthenticateDestination, SyncIInv, SyncCookedInv, Cooked
<1>1. CASE Reject
  BY <1>1, SyncEndsKeep
<1>2. CASE type = "S3PublicBucket" /\ Panic
  BY <1>2, SyncPanicsAreForced, SyncEndsKeep
<1>3. CASE /\ IsSafe(type, To(fromTo), asked.dst)
           /\ credential' = type /\ stage' = "authenticated"
           /\ UNCHANGED <<asked, ccOptions, ccLanding, srcCredential, fpo>>
  <2>1. To(fromTo) \in Location
    BY <1>0 DEF EnumFromTo, To, Location, Remote
  <2>2. type \in Implicit => To(fromTo) \in Azure /\ asked.dst.host # "other"
    BY <1>3, <2>1, SafeLogins
  <2>3. LoginsAreForTrustedHosts'
    BY <1>3, <2>2 DEF SyncIInv, LoginsAreForTrustedHosts, ccOptions, To, Remote, Azure, BlobLike,
                      FileServices, Implicit, AzureOAuth
  <2> QED BY <1>0, <1>3, <2>3, SyncMovesKeep DEF Cooked
<1> QED BY <1>1, <1>2, <1>3 DEF AuthenticateDestination, AuthenticateTo

(* process, cmd/sync.go: the source's login.                               *)
LEMMA SyncSourceKeeps ==
    ASSUME SyncIInv, SyncSource
    PROVE  SyncIInv'
<1> DEFINE type == CredentialFor(From(fromTo), asked.src, TRUE)
<1>0. stage = "authenticated" /\ fromTo \in EnumFromTo
  BY DEF SyncSource, SyncIInv, SyncCookedInv, Cooked
<1>1. CASE Reject
  BY <1>1, SyncEndsKeep
<1>2. CASE type = "S3PublicBucket" /\ Panic
  BY <1>2, SyncPanicsAreForced, SyncEndsKeep
<1>3. CASE /\ IsSafe(type, From(fromTo), asked.src)
           /\ srcCredential' = type /\ stage' = "authenticating"
           /\ credential' = IF IsDownload(fromTo) THEN type ELSE credential
           /\ UNCHANGED <<asked, ccOptions, ccLanding, fpo>>
  <2>1. From(fromTo) \in Location
    BY <1>0 DEF EnumFromTo, From, Location, Remote
  <2>2. type \in Implicit => asked.src.host # "other"
    BY <1>3, <2>1, SafeLogins
  <2>3. IsDownload(fromTo) => To(fromTo) \notin Remote
    BY DEF IsDownload, Remote
  <2>4. LoginsAreForTrustedHosts'
    BY <1>3, <2>2, <2>3 DEF SyncIInv, LoginsAreForTrustedHosts, ccOptions, To, Remote, Implicit, AzureOAuth
  <2> QED BY <1>0, <1>3, <2>4, SyncMovesKeep DEF Cooked
<1> QED BY <1>1, <1>2, <1>3 DEF SyncSource, AuthenticateTo

(* process, cmd/sync.go: a destination that does not exist.                *)
LEMMA CheckDestinationKeeps ==
    ASSUME SyncIInv, CheckDestination
    PROVE  SyncIInv'
<1>1. CASE Reject
  BY <1>1, SyncEndsKeep
<1>2. CASE stage = "authenticating" /\ EndWith("enumerating")
  <2>1. LoginsAreForTrustedHosts'
    BY <1>2 DEF SyncIInv, LoginsAreForTrustedHosts, EndWith, ccOptions, To, Remote, Implicit, AzureOAuth
  <2> QED BY <1>2, <2>1, SyncMovesKeep DEF EndWith, Cooked
<1> QED BY <1>1, <1>2 DEF CheckDestination

(* initEnumerator, cmd/syncEnumerator.go: how both ends are listed and     *)
(* addressed.                                                              *)
LEMMA SyncEnumerateKeeps ==
    ASSUME SyncIInv, SyncEnumerate
    PROVE  SyncIInv'
<1>0. stage = "enumerating" /\ fromTo = asked.fromTo /\ fromTo \in SyncDirections
  BY DEF SyncEnumerate, SyncIInv, SyncCookedInv, Cooked
<1>1. CASE Reject
  BY <1>1, SyncEndsKeep
<1>2. CASE ~Reject
  <2>1. /\ listsStubs' = ListsStubsFor(fromTo)
        /\ scansDots' = (asked.dots # "Disable")
        /\ jobDots' = JobKeepsDots(fromTo)
        /\ fpo' = FolderPropertyOption(fromTo, stripTopDir')
        /\ stage' = "scheduling"
        /\ UNCHANGED <<asked, ccOptions, asSubdir, credential, srcCredential>>
    BY <1>2 DEF SyncEnumerate
  <2>2. UNCHANGED <<asked, fromTo, preserved, stubs, credential, srcCredential>>
    BY <2>1 DEF ccOptions
  <2>3. FoldersAreListedAlike'
    <3>1. SUFFICES ASSUME fpo' # "NoFolders", ~preserved.posix, "Blob" \in EndsOf(fromTo)
                   PROVE  listsStubs'
      BY <1>0, <2>2 DEF FoldersAreListedAlike, ListsFolders, EndsOf, From, To
    <3>2. stubs \/ preserved.permissions
      BY <1>0, <2>1, <3>1 DEF FolderPropertyOption, SyncDirections, FolderAware, From, To, EndsOf, BlobLike,
                              FileServices
    <3>3. preserved.permissions => EndsOf(fromTo) \subseteq BlobLike
      BY <1>0, <3>1 DEF SyncIInv, PreservedWhereBothCan
    <3> QED BY <2>1, <3>2, <3>3 DEF ListsStubsFor, EndsOf
  <2>4. DottedNamesAreKeptApart'
    <3>1. asked.dots \in {"Enable", "Disable", "AllowToUnsafeDestination"}
      BY DEF SyncIInv, SyncCookedInv
    <3>2. SUFFICES ASSUME ~(SupportsTrailingDot(From(fromTo)) /\ SupportsTrailingDot(To(fromTo)))
                   PROVE  /\ From(fromTo) \in FileServices => DropsDottedNames(fromTo)
                          /\ To(fromTo) \in FileServices => ~SupportsTrailingDot(From(fromTo))
      BY <2>1, <2>2, <3>1 DEF DottedNamesAreKeptApart, JobKeepsDots, DropsDottedNames, SupportsTrailingDot, From, To
    <3> QED BY <1>0, <3>2 DEF SyncDirections, SupportsTrailingDot, DropsDottedNames, From, To, BlobLike,
                              FileServices
  <2> QED BY <1>0, <2>1, <2>2, <2>3, <2>4
          DEF SyncIInv, SyncCookedInv, OnlyKnownSyncPanics, PreservedWhereBothCan, LoginsAreForTrustedHosts,
              Cooked, IsNFS, EndsOf, From, To, Remote, Implicit, AzureOAuth
<1> QED BY <1>1, <1>2

(* Every step of a sync.                                                   *)
LEMMA SyncStep ==
    ASSUME SyncIInv, [SCNext]_scVars
    PROVE  SyncIInv'
<1>1. CASE UNCHANGED scVars
  BY <1>1 DEF scVars, scOwn, ccVars, ccOptions, ccLanding, SyncIInv, SyncCookedInv, OnlyKnownSyncPanics,
       PreservedWhereBothCan, LoginsAreForTrustedHosts, FoldersAreListedAlike, DottedNamesAreKeptApart,
       Cooked, Scheduled, IsNFS, EndsOf, From, To, ListsFolders, DropsDottedNames, SupportsTrailingDot
<1>2. CASE SCNext
  BY <1>2, SyncToOptionsKeeps, SyncValidateKeeps, AuthenticateDestinationKeeps, SyncSourceKeeps,
     CheckDestinationKeeps, SyncEnumerateKeeps DEF SCNext
<1> QED BY <1>1, <1>2

(* The same of a sync's options; and its two listings show folders when    *)
(* its job takes them, and keep apart the dotted names that one end keeps  *)
(* apart: for any command lines (cmd/sync.go cook, cmd/syncEnumerator.go). *)
THEOREM SyncCommandInvHolds == SCSpec => []SyncCommandInv
<1>1. SyncIInv /\ [SCNext]_scVars => SyncIInv'
  BY SyncStep
<1>2. SyncIInv => SyncCommandInv
  BY DEF SyncIInv, SyncCommandInv
<1> QED BY <1>1, <1>2, SyncStarts, PTL DEF SCSpec

-----------------------------------------------------------------------------
(* SecurityDescriptor and FileProperties.                                  *)

(* Rights and flags that are written out and read again are the same. *)
LEMMA RightsAreRead ==
    ASSUME NEW rights
    PROVE  AceRightsToAccessMask(AceRightsToString(rights)) = rights
<1>1. CASE rights \subseteq NamedRights
  <2>1. \A r \in rights : RightsOfName[r] = {r}
    BY <1>1 DEF RightsOfName, NamedRights
  <2>2. UNION {RightsOfName[r] : r \in rights} = rights
    BY <2>1
  <2> QED BY <1>1, <2>2 DEF AceRightsToAccessMask, AceRightsToString
<1>2. CASE ~(rights \subseteq NamedRights)
  BY <1>2 DEF AceRightsToAccessMask, AceRightsToString
<1> QED BY <1>1, <1>2

(* The flags of an entry, but for one that no text has, are read as they   *)
(* are written (sddl/sddlHelper_linux.go).                                 *)
LEMMA FlagsAreRead ==
    ASSUME NEW flags, "TP" \notin flags
    PROVE  {AceFlagToByte(f) : f \in flags} = flags
BY DEF AceFlagToByte

(* What a text says of an access control list, and the one it was made of. *)
LEMMA DaclIsWritten ==
    ASSUME NEW sd, IsBinary(sd)
    PROVE  WhoMay(PortableAcl(GetDaclString(sd))) = sd.dacl
<1> DEFINE aces == sd.dacl.aces
           acl == PortableAcl(GetDaclString(sd))
<1>1. /\ acl.noAccessControl = ~sd.dacl.given
      /\ acl.aces = [i \in DOMAIN aces |-> [AceToString(aces[i]) EXCEPT !.sid = PortableSid(@)]]
  <2> DEFINE first == GetDaclString(sd)
  <2>1. /\ first.aces = [i \in DOMAIN aces |-> AceToString(aces[i])]
        /\ first.noAccessControl = ~sd.dacl.given
        /\ DOMAIN first = {"flags", "noAccessControl", "aces"}
    BY DEF GetDaclString, NoAcl
  <2> HIDE DEF first
  <2> DEFINE entries == [i \in DOMAIN first.aces |-> [first.aces[i] EXCEPT !.sid = PortableSid(@)]]
  <2>2. acl = [first EXCEPT !.aces = entries]
    BY DEF first, PortableAcl
  <2> HIDE DEF acl, entries
  <2>3. acl.noAccessControl = first.noAccessControl
    BY <2>1, <2>2
  <2>4. acl.aces = entries
    BY <2>1, <2>2
  <2> QED BY <2>1, <2>3, <2>4 DEF entries
<1>2. CASE ~sd.dacl.given
  BY <1>1, <1>2 DEF WhoMay, NoDacl, IsBinary
<1>3. CASE sd.dacl.given
  <2> DEFINE written == [i \in DOMAIN acl.aces |->
                          [type |-> acl.aces[i].type,
                           flags |-> {AceFlagToByte(f) : f \in acl.aces[i].flags},
                           rights |-> AceRightsToAccessMask(acl.aces[i].rights),
                           sid |-> acl.aces[i].sid.sid]]
  <2>1. ASSUME NEW i \in DOMAIN aces
        PROVE  written[i] = aces[i]
    <3> DEFINE entry == AceToString(aces[i])
    <3>1. /\ acl.aces[i] = [entry EXCEPT !.sid = PortableSid(@)]
          /\ i \in DOMAIN acl.aces
      BY <1>1
    <3>2. /\ acl.aces[i].type = aces[i].type /\ acl.aces[i].flags = aces[i].flags
          /\ acl.aces[i].rights = AceRightsToString(aces[i].rights)
          /\ acl.aces[i].sid = PortableSid(Numeric(aces[i].sid))
      BY <3>1 DEF AceToString
    <3>3. PortableSid(Numeric(aces[i].sid)).sid = aces[i].sid
      BY DEF PortableSid, Numeric
    <3>4. "TP" \notin aces[i].flags
      BY DEF IsBinary
    <3>5. {AceFlagToByte(f) : f \in acl.aces[i].flags} = aces[i].flags
      BY <3>2, <3>4, FlagsAreRead
    <3>6. AceRightsToAccessMask(acl.aces[i].rights) = aces[i].rights
      BY <3>2, RightsAreRead
    <3>7. aces[i] = [type |-> aces[i].type, flags |-> aces[i].flags,
                     rights |-> aces[i].rights, sid |-> aces[i].sid]
      BY DEF IsBinary
    <3>8. written[i] = [type |-> acl.aces[i].type,
                        flags |-> {AceFlagToByte(f) : f \in acl.aces[i].flags},
                        rights |-> AceRightsToAccessMask(acl.aces[i].rights),
                        sid |-> acl.aces[i].sid.sid]
      BY <3>1
    <3> HIDE DEF written, acl, aces, entry
    <3> QED BY <3>2, <3>3, <3>5, <3>6, <3>7, <3>8
  <2>2. DOMAIN written = DOMAIN aces
    BY <1>1
  <2>3. aces = [i \in DOMAIN aces |-> aces[i]]
    BY DEF IsBinary
  <2>4. written = aces
    <3>1. written = [i \in DOMAIN written |-> written[i]]
      OBVIOUS
    <3> HIDE DEF written, aces
    <3> QED BY <2>1, <2>2, <2>3, <3>1
  <2>5. WhoMay(acl) = [given |-> TRUE, aces |-> written]
    BY <1>1, <1>3 DEF WhoMay
  <2>6. sd.dacl = [given |-> TRUE, aces |-> aces]
    BY <1>3 DEF IsBinary
  <2> HIDE DEF written, aces, acl
  <2>7. WhoMay(acl) = sd.dacl
    BY <2>4, <2>5, <2>6
  <2> QED BY <2>7 DEF acl
<1> QED BY <1>2, <1>3 DEF IsBinary

(* The section of a text, if there is no other of its kind. *)
LEMMA TheSection ==
    ASSUME NEW text, NEW i \in DOMAIN text,
           \A j \in DOMAIN text : text[j].tag = text[i].tag => i = j
    PROVE  /\ SectionOf(text, text[i].tag) = text[i] /\ Names(text, text[i].tag)
           /\ (CHOOSE j \in DOMAIN text : text[j].tag = text[i].tag) = i
BY DEF SectionOf, Names, Range

(* A descriptor that is written as a text, in its portable form, says what *)
(* it said (SecurityDescriptorToString, sddl/sddlHelper_linux.go;          *)
(* PortableString, sddl/sddlString.go).                                    *)
LEMMA DescriptorIsWritten ==
    ASSUME NEW sd, IsBinary(sd)
    PROVE  Meaning(PortableString(SecurityDescriptorToString(sd))) =
              [owner |-> sd.owner, group |-> sd.group, flags |-> sd.flags, dacl |-> sd.dacl]
<1> DEFINE raw == SecurityDescriptorToString(sd)
           text == PortableString(raw)
<1>1. DOMAIN raw = 1 .. 3 /\ DOMAIN text = 1 .. 3
  BY DEF SecurityDescriptorToString, PortableString
<1>2. raw[1] = [tag |-> "O", sid |-> Numeric(sd.owner)] /\ raw[2] = [tag |-> "G", sid |-> Numeric(sd.group)]
      /\ raw[3] = [tag |-> "D", acl |-> GetDaclString(sd)]
  BY DEF SecurityDescriptorToString
<1>3. \A i \in 1 .. 3 : text[i] = IF IsAcl(raw[i]) THEN [raw[i] EXCEPT !.acl = PortableAcl(@)]
                                  ELSE [raw[i] EXCEPT !.sid = PortableSid(@)]
  BY <1>1 DEF PortableString
<1> HIDE DEF raw, text
<1>4. text[1].tag = "O" /\ text[1].sid.sid = sd.owner
  BY <1>2, <1>3 DEF IsAcl, PortableSid, Numeric
<1>5. text[2].tag = "G" /\ text[2].sid.sid = sd.group
  BY <1>2, <1>3 DEF IsAcl, PortableSid, Numeric
<1>6. text[3].tag = "D" /\ text[3].acl = PortableAcl(GetDaclString(sd))
  BY <1>2, <1>3 DEF IsAcl
<1>7. PortableAcl(GetDaclString(sd)).flags = sd.flags
  BY DEF PortableAcl, GetDaclString, NoAcl
<1>8. /\ \A j \in DOMAIN text : text[j].tag = "O" => 1 = j
      /\ \A j \in DOMAIN text : text[j].tag = "G" => 2 = j
      /\ \A j \in DOMAIN text : text[j].tag = "D" => 3 = j
      /\ {1, 2, 3} \subseteq DOMAIN text
  BY <1>1, <1>4, <1>5, <1>6
<1>9. /\ SectionOf(text, "O") = text[1] /\ Names(text, "O")
      /\ SectionOf(text, "G") = text[2] /\ Names(text, "G")
      /\ SectionOf(text, "D") = text[3] /\ Names(text, "D")
  BY <1>4, <1>5, <1>6, <1>8, TheSection
<1>10. Meaning(text) = [owner |-> sd.owner, group |-> sd.group, flags |-> sd.flags, dacl |-> sd.dacl]
  BY <1>4, <1>5, <1>6, <1>7, <1>9, DaclIsWritten DEF Meaning
<1> QED BY <1>10 DEF text, raw

-----------------------------------------------------------------------------
(* Of four conversions that have not failed, none has. *)
LEMMA NoFailure ==
    ASSUME NEW a, NEW b, NEW c, NEW d, FirstFailure(<<a, b, c, d>>) = "ok"
    PROVE  a = "ok" /\ b = "ok" /\ c = "ok" /\ d = "ok"
<1> DEFINE kinds == <<a, b, c, d>>
           failed == {i \in DOMAIN kinds : kinds[i] # "ok"}
<1>1. DOMAIN kinds = 1 .. 4 /\ kinds[1] = a /\ kinds[2] = b /\ kinds[3] = c /\ kinds[4] = d
  OBVIOUS
<1> HIDE DEF kinds
<1>2. SUFFICES ASSUME failed # {} PROVE FALSE
  BY <1>1
<1>3. failed \subseteq {1, 2, 3, 4}
  BY <1>1
<1>4. PICK x \in failed : \A y \in failed : x <= y
  <2>1. CASE 1 \in failed
    BY <1>3, <2>1
  <2>2. CASE 1 \notin failed /\ 2 \in failed
    BY <1>3, <2>2
  <2>3. CASE 1 \notin failed /\ 2 \notin failed /\ 3 \in failed
    BY <1>3, <2>3
  <2>4. CASE 1 \notin failed /\ 2 \notin failed /\ 3 \notin failed
    BY <1>2, <1>3, <2>4
  <2> QED BY <2>1, <2>2, <2>3, <2>4
<1>5. Min(failed) \in failed
  BY <1>4 DEF Min
<1>6. FirstFailure(kinds) = kinds[Min(failed)]
  BY <1>2 DEF FirstFailure
<1> QED BY <1>5, <1>6 DEF kinds

(* A text that can be converted has no list that vanishes. *)
LEMMA NothingVanishes ==
    ASSUME NEW text, IsText(text), SecurityDescriptorFromStringKind(text) = "ok",
           NEW i \in DOMAIN text
    PROVE  ~IsBare(text[i]) /\ ~TakesTheRest(text, i)
<1> DEFINE p == ParseSDDL(text)
           SidKind(s) == IF s.form = "none" THEN "ok" ELSE StringToSid(s)
<1>1. /\ SanityCheckSDDLParse(text)
      /\ SidKind(p.owner) = "ok" /\ SidKind(p.group) = "ok"
      /\ AclKind(p.sacl, TRUE) = "ok" /\ AclKind(p.dacl, FALSE) = "ok"
  <2>1. SanityCheckSDDLParse(text)
    BY DEF SecurityDescriptorFromStringKind
  <2>2. FirstFailure(<<SidKind(p.owner), SidKind(p.group), AclKind(p.sacl, TRUE), AclKind(p.dacl, FALSE)>>) = "ok"
    BY <2>1 DEF SecurityDescriptorFromStringKind
  <2> QED BY <2>1, <2>2, NoFailure
<1>2. ASSUME NEW j \in DOMAIN text, TakesTheRest(text, j)
      PROVE  FALSE
  <2>1. /\ (CHOOSE k \in DOMAIN text : text[k].tag = text[j].tag) = j
        /\ \E k \in DOMAIN text : text[k].tag = text[j].tag
    BY TheSection DEF IsText
  <2>2. CASE text[j].tag \in {"O", "G"}
    <3>1. SidOf(text, text[j].tag) = [text[j].sid EXCEPT !.form = "unknown"]
      BY <1>2, <2>1 DEF SidOf
    <3>2. text[j].sid = [form |-> text[j].sid.form, sid |-> text[j].sid.sid]
      BY <2>2 DEF IsText
    <3>3. SidOf(text, text[j].tag).form = "unknown"
      BY <3>1, <3>2
    <3>4. SidKind(SidOf(text, text[j].tag)) = "error"
      BY <3>3 DEF StringToSid
    <3> QED BY <1>1, <2>2, <3>4 DEF ParseSDDL
  <2>3. CASE text[j].tag \in {"D", "S"}
    <3>1. AclOf(text, text[j].tag) = [text[j].acl EXCEPT !.flags = @ \cup {"colon"}]
      BY <1>2, <2>1 DEF AclOf
    <3>2. text[j].acl = [flags |-> text[j].acl.flags, noAccessControl |-> text[j].acl.noAccessControl,
                         aces |-> text[j].acl.aces]
      BY <2>3 DEF IsText
    <3>3. "colon" \in AclOf(text, text[j].tag).flags
      BY <3>1, <3>2
    <3>4. AclOf(text, text[j].tag) # NoAcl /\ ~(AclOf(text, text[j].tag).flags \subseteq AclFlags)
      BY <3>3 DEF NoAcl, AclFlags
    <3>5. \A forSacl \in BOOLEAN : AclKind(AclOf(text, text[j].tag), forSacl) = "error"
      BY <3>4 DEF AclKind
    <3> QED BY <1>1, <2>3, <3>5 DEF ParseSDDL
  <2> QED BY <2>2, <2>3 DEF IsText
<1>3. ~IsBare(text[i])
  <2>1. SUFFICES ASSUME i > 1, TakesTheRest(text, i - 1) PROVE FALSE
    BY <1>1 DEF SanityCheckSDDLParse
  <2>2. i - 1 \in DOMAIN text
    <3>1. DOMAIN text = 1 .. Len(text) /\ Len(text) \in Nat
      BY LenProperties DEF IsText
    <3> QED BY <2>1, <3>1
  <2> QED BY <1>2, <2>1, <2>2
<1> QED BY <1>2, <1>3

(* What it is converted to is what it says. *)
LEMMA TextIsRead ==
    ASSUME NEW text, IsText(text), SecurityDescriptorFromStringKind(text) = "ok"
    PROVE  LET sd == SecurityDescriptorFromString(text)
               meant == Meaning(text)
           IN /\ sd.owner = meant.owner /\ sd.group = meant.group
              /\ sd.flags = meant.flags /\ sd.dacl = meant.dacl
<1> DEFINE sd == SecurityDescriptorFromString(text)
           meant == Meaning(text)
           p == ParseSDDL(text)
           At(tag) == CHOOSE j \in DOMAIN text : text[j].tag = tag
<1>1. ASSUME NEW tag
      PROVE  /\ (\E i \in DOMAIN text : text[i].tag = tag) <=> Names(text, tag)
             /\ Names(text, tag) => /\ At(tag) \in DOMAIN text /\ text[At(tag)].tag = tag
                                    /\ SectionOf(text, tag) = text[At(tag)]
  <2>1. (\E i \in DOMAIN text : text[i].tag = tag) <=> Names(text, tag)
    BY DEF Names, Range
  <2>2. ASSUME NEW i \in DOMAIN text, text[i].tag = tag
        PROVE  At(tag) = i /\ SectionOf(text, tag) = text[i]
    BY <2>2, TheSection DEF IsText
  <2> QED BY <2>1, <2>2
<1>2. ASSUME NEW tag
      PROVE  /\ SidOf(text, tag) = IF Names(text, tag) THEN SectionOf(text, tag).sid ELSE NoSid
             /\ AclOf(text, tag) = IF Names(text, tag) THEN SectionOf(text, tag).acl ELSE NoAcl
  <2>1. Names(text, tag) => ~TakesTheRest(text, At(tag))
    BY <1>1, NothingVanishes
  <2> QED BY <1>1, <2>1 DEF SidOf, AclOf
<1>3. /\ sd.owner = p.owner.sid /\ sd.group = p.group.sid /\ sd.flags = p.dacl.flags
      /\ p.owner = SidOf(text, "O") /\ p.group = SidOf(text, "G") /\ p.dacl = AclOf(text, "D")
  BY DEF SecurityDescriptorFromString, ParseSDDL
<1>4. /\ meant.owner = IF Names(text, "O") THEN SectionOf(text, "O").sid.sid ELSE "nobody"
      /\ meant.group = IF Names(text, "G") THEN SectionOf(text, "G").sid.sid ELSE "nobody"
      /\ meant.flags = IF Names(text, "D") THEN SectionOf(text, "D").acl.flags ELSE {}
      /\ meant.dacl = IF Names(text, "D") THEN WhoMay(SectionOf(text, "D").acl) ELSE NoDacl
  BY DEF Meaning
<1> HIDE DEF sd, meant, p
<1>5. sd.owner = meant.owner /\ sd.group = meant.group /\ sd.flags = meant.flags
  <2>1. NoSid.sid = "nobody" /\ NoAcl.flags = {}
    BY DEF NoSid, NoAcl
  <2>2. /\ p.owner = IF Names(text, "O") THEN SectionOf(text, "O").sid ELSE NoSid
        /\ p.group = IF Names(text, "G") THEN SectionOf(text, "G").sid ELSE NoSid
        /\ p.dacl = IF Names(text, "D") THEN SectionOf(text, "D").acl ELSE NoAcl
    BY <1>2, <1>3
  <2>3. sd.owner = meant.owner /\ sd.group = meant.group
    BY <1>3, <1>4, <2>1, <2>2
  <2>4. sd.flags = meant.flags
    BY <1>3, <1>4, <2>1, <2>2
  <2> QED BY <2>2, <2>3, <2>4
<1>6. sd.dacl = IF p.dacl = NoAcl \/ p.dacl.noAccessControl THEN NoDacl
                ELSE [given |-> TRUE,
                      aces |-> [i \in DOMAIN p.dacl.aces |-> AclEntryToSlice(p.dacl.aces[i])]]
  BY DEF SecurityDescriptorFromString, sd, p
<1>7. CASE ~Names(text, "D")
  <2>1. p.dacl = NoAcl
    BY <1>2, <1>3, <1>7
  <2> QED BY <1>4, <1>5, <1>6, <1>7, <2>1 DEF sd, meant
<1>8. CASE Names(text, "D")
  <2>1. p.dacl = SectionOf(text, "D").acl
    BY <1>2, <1>3, <1>8
  <2>2. p.dacl # NoAcl
    BY <1>1, <1>8, <2>1, NothingVanishes DEF IsBare, IsAcl
  <2>3. sd.dacl = WhoMay(p.dacl)
    BY <1>6, <2>2 DEF WhoMay, AclEntryToSlice
  <2> QED BY <1>4, <1>5, <1>8, <2>1, <2>3 DEF sd, meant
<1> QED BY <1>7, <1>8

-----------------------------------------------------------------------------
(* The invariant of what is kept with a transfer. *)
TextsOfShares == UNION {Range(SharePermissions[s]) : s \in Shares}
LocalTexts(task) == {PortableString(SecurityDescriptorToString(task.source[t].sd)) : t \in FpTransfers}
KnownTexts(task) == TextsOfShares \cup LocalTexts(task)

HeaderFields == {"permission", "attributes", "created", "written", "owner", "mode"}
DiskFields == {"sd", "ownWish", "attributes", "created", "written", "owner", "mode"}

Sent == {"ranges", "epilogue"}
AtSender == {"put", "createPermission", "folder", "create"} \cup Sent
AtDownloader == {"set", "mode", "attributes"}
FpSteps == {"backend", "permissions", "properties", "cleanup", "done"} \cup AtSender \cup AtDownloader

IsCopy(task) == task.route = "copy"
ToDisk(task) == task.route = "download"
WithNfs(task) == task.fromNFS \/ task.toNFS
SendsAccess(task) == ~ToDisk(task) /\ ~WithNfs(task) /\ task.permissions # "none"
KeepsMode(task) == task.fromNFS /\ task.toNFS /\ task.permissions # "none"
RestoresAccess(task, t) ==
    ToDisk(task) /\ ~WithNfs(task) /\ task.permissions # "none" /\ task.source[t].key # 0

MeantBy(task, t) == Meaning(SharePermissions[task.source[t].from][task.source[t].key])
WantedBy(task, t) ==
    LET sd == task.source[t].sd
    IN IF IsCopy(task) THEN MeantBy(task, t)
       ELSE [owner |-> sd.owner, group |-> sd.group, flags |-> sd.flags, dacl |-> sd.dacl]

(* A permission that says in a share with this table what the source does. *)
Says(task, t, permission, table) ==
    IF IsCopy(task) /\ task.source[t].key = 0 THEN permission = Inherited
    ELSE /\ permission.how # "inherit"
         /\ permission.how = "key" => permission.key \in DOMAIN table
         /\ Meaning(IF permission.how = "key" THEN table[permission.key] ELSE permission.text) =
              WantedBy(task, t)

LetsIn(task, t, sd) ==
    LET meant == MeantBy(task, t)
    IN /\ sd.dacl = meant.dacl
       /\ sd.flags \cap {"AI"} = meant.flags \cap {"AI"}
       /\ "P" \in sd.flags <=> "P" \in meant.flags \/ task.atRoot
       /\ IF task.permissions = "ownership"
          THEN sd.owner = meant.owner /\ sd.group = meant.group
          ELSE sd.owner = OfADisk.owner /\ sd.group = OfADisk.group

(* Where a transfer may be. *)
RouteOk(task, t, step) ==
    /\ step \in FpSteps
    /\ step \in AtSender => ~ToDisk(task)
    /\ step \in AtDownloader => ToDisk(task)
    /\ step \in {"put", "createPermission", "set"} => ~WithNfs(task) /\ task.permissions # "none"
    /\ step = "mode" => WithNfs(task) /\ task.permissions # "none"
    /\ step = "attributes" => task.info /\ ~WithNfs(task)
    /\ step = "backend" => ~ToDisk(task)
    /\ step = "folder" => task.source[t].folder
    /\ step \in {"create"} \cup Sent => ~task.source[t].folder

FailureOk(task, t, step, live, read, d) ==
    /\ live \in BOOLEAN /\ read \in {"no", "yes", "empty"}
    /\ ~live => step \in {"cleanup", "done"}
    /\ live => step # "cleanup" /\ read # "empty"
    /\ ~live /\ step = "done" /\ ~ToDisk(task) /\ ~task.source[t].folder => d = NotThere

(* What a sender is going to apply. *)
HeadersOk(task, t, step, h, table) ==
    LET src == task.source[t]
    IN /\ DOMAIN h = HeaderFields
       /\ step \in {"backend", "permissions"} => h.permission = Inherited
       /\ step \in {"put", "createPermission"} =>
             /\ h.permission.how = "text" /\ h.permission.text \in KnownTexts(task)
             /\ Meaning(h.permission.text) = WantedBy(task, t)
             /\ IsCopy(task) => src.key # 0
       /\ step = "set" => /\ h.permission.text = SharePermissions[src.from][src.key]
                        /\ src.key # 0
       /\ step \in {"properties", "folder", "create"} \cup Sent =>
             /\ SendsAccess(task) => Says(task, t, h.permission, table)
             /\ KeepsMode(task) /\ ~ToDisk(task) => h.owner = src.owner /\ h.mode = src.mode
       /\ step \in {"folder", "create"} \cup Sent /\ task.info =>
             /\ h.created = "source"
             /\ ~src.folder => h.written = "source"
             /\ ~WithNfs(task) => h.attributes = src.attributes \ (IF step \in Sent THEN {"R"} ELSE {})

Ended(task, t, step, live) == step = "done" /\ live /\ ~task.source[t].absent

(* What there is in a share. *)
SentOk(task, t, step, live, h, d, table) ==
    LET src == task.source[t]
    IN /\ step \in Sent => /\ DOMAIN d = HeaderFields
                         /\ d.permission = h.permission /\ d.owner = h.owner /\ d.mode = h.mode
       /\ Ended(task, t, step, live) /\ ~ToDisk(task) =>
             /\ SendsAccess(task) => Says(task, t, d.permission, table)
             /\ KeepsMode(task) => d.owner = src.owner /\ d.mode = src.mode
             /\ task.info =>
                   /\ ~src.folder => d.written = "source"
                   /\ d.created = "source"
                   /\ ~WithNfs(task) => d.attributes = src.attributes \ (IF src.folder THEN {} ELSE {"R"})

(* What there is on a disk. *)
DiskOk(task, t, step, live, d) ==
    LET src == task.source[t]
        isPast(steps) == step \in steps \/ Ended(task, t, step, live)
    IN ToDisk(task) =>
         /\ DOMAIN d = DiskFields
         /\ step \in {"permissions", "set"} => d.sd = OfADisk
         /\ RestoresAccess(task, t) /\ isPast({"properties", "attributes"}) => LetsIn(task, t, d.sd)
         /\ KeepsMode(task) /\ isPast({"mode", "properties", "attributes"}) => d.owner = src.owner
         /\ KeepsMode(task) /\ isPast({"properties", "attributes"}) => d.mode = src.mode \ {"s"}
         /\ task.info /\ isPast({"attributes"}) =>
               /\ ~src.folder => d.written = "source"
               /\ ~WithNfs(task) => d.created = "source"
         /\ task.info /\ ~WithNfs(task) /\ Ended(task, t, step, live) => d.attributes = src.attributes

TransferOk(task, t, step, live, read, h, d, table) ==
    /\ RouteOk(task, t, step) /\ FailureOk(task, t, step, live, read, d)
    /\ HeadersOk(task, t, step, h, table) /\ SentOk(task, t, step, live, h, d, table)
    /\ DiskOk(task, t, step, live, d)

TransferInv(t) ==
    TransferOk(fpJob, t, fpPc[t], fpLive[t], fpRead[t], fpHeaders[t], fpDst[t], Table(fpJob.source[t].to))

(* Texts are only added, and the cache has seen them in the table. *)
CacheIsSound ==
    \A entry \in fpCache :
        /\ entry.share \in Shares /\ entry.key \in DOMAIN Table(entry.share)
        /\ Table(entry.share)[entry.key] = entry.text

FPIInv ==
    /\ fpJob \in FpJobs
    /\ DOMAIN fpPc = FpTransfers /\ DOMAIN fpLive = FpTransfers /\ DOMAIN fpRead = FpTransfers
    /\ DOMAIN fpHeaders = FpTransfers /\ DOMAIN fpDst = FpTransfers
    /\ fpTexts \in [Shares -> Seq(KnownTexts(fpJob))]
    /\ CacheIsSound
    /\ \A t \in FpTransfers : TransferInv(t)

(* What the assumptions say of the job.                                    *)
LEMMA JobIsKnown ==
    ASSUME FPIInv, NEW t \in FpTransfers
    PROVE  /\ fpJob.route \in {"upload", "copy", "download"}
           /\ fpJob.fromNFS \in BOOLEAN /\ fpJob.toNFS \in BOOLEAN
           /\ IsSource(fpJob.source[t])
BY FpJobsAssumption DEF FPIInv

(* More in the table changes nothing. *)
LEMMA LongerTable ==
    ASSUME NEW task, NEW t, NEW step, NEW live, NEW read, NEW h, NEW d, NEW table, NEW longer,
           \A k \in DOMAIN table : k \in DOMAIN longer /\ longer[k] = table[k],
           TransferOk(task, t, step, live, read, h, d, table)
    PROVE  TransferOk(task, t, step, live, read, h, d, longer)
<1>1. ASSUME NEW p, Says(task, t, p, table) PROVE Says(task, t, p, longer)
  BY <1>1 DEF Says
<1>2. HeadersOk(task, t, step, h, table) => HeadersOk(task, t, step, h, longer)
  BY <1>1 DEF HeadersOk
<1>3. SentOk(task, t, step, live, h, d, table) => SentOk(task, t, step, live, h, d, longer)
  BY <1>1 DEF SentOk
<1> QED BY <1>2, <1>3 DEF TransferOk

(* The tables of the shares. *)
LEMMA SeqOfMore == ASSUME NEW S, NEW T, S \subseteq T, NEW s \in Seq(S) PROVE s \in Seq(T)
OBVIOUS

(* A share's table has only texts of the job and those it had.             *)
LEMMA TablesAreSequences ==
    ASSUME FPIInv, NEW s \in Shares
    PROVE  /\ SharePermissions[s] \in Seq(KnownTexts(fpJob)) /\ fpTexts[s] \in Seq(KnownTexts(fpJob))
           /\ Table(s) \in Seq(KnownTexts(fpJob))
           /\ \A k \in 1 .. Len(SharePermissions[s]) : k \in DOMAIN Table(s) /\ Table(s)[k] = SharePermissions[s][k]
<1>1. SharePermissions[s] \in Seq(Range(SharePermissions[s]))
  BY SharePermissionsAssumption
<1>2. Range(SharePermissions[s]) \subseteq KnownTexts(fpJob)
  BY DEF KnownTexts, TextsOfShares
<1>3. SharePermissions[s] \in Seq(KnownTexts(fpJob))
  BY <1>1, <1>2, SeqOfMore
<1>4. fpTexts[s] \in Seq(KnownTexts(fpJob))
  BY DEF FPIInv
<1>5. /\ Table(s) \in Seq(KnownTexts(fpJob)) /\ Len(Table(s)) = Len(SharePermissions[s]) + Len(fpTexts[s])
      /\ \A k \in 1 .. Len(SharePermissions[s]) + Len(fpTexts[s]) :
           Table(s)[k] = IF k <= Len(SharePermissions[s]) THEN SharePermissions[s][k]
                         ELSE fpTexts[s][k - Len(SharePermissions[s])]
  BY <1>3, <1>4, ConcatProperties DEF Table
<1>6. DOMAIN Table(s) = 1 .. Len(SharePermissions[s]) + Len(fpTexts[s])
  BY <1>5
<1>7. Len(SharePermissions[s]) \in Nat /\ Len(fpTexts[s]) \in Nat
  BY <1>3, <1>4
<1>8. ASSUME NEW k \in 1 .. Len(SharePermissions[s])
      PROVE  k \in DOMAIN Table(s) /\ Table(s)[k] = SharePermissions[s][k]
  <2>1. k \in 1 .. Len(SharePermissions[s]) + Len(fpTexts[s]) /\ k <= Len(SharePermissions[s])
    <3>1. \A a, b \in Nat : \A i \in 1 .. a : i \in 1 .. a + b /\ i <= a
      OBVIOUS
    <3> QED BY <1>7, <3>1
  <2> QED BY <1>5, <1>6, <2>1
<1> QED BY <1>3, <1>4, <1>5, <1>8

(* A key still stands for its text when another is added.                  *)
LEMMA AddedAtTheEnd ==
    ASSUME NEW S, NEW s \in Seq(S), NEW t \in Seq(S), NEW x \in S,
           NEW old, old = s \o t, NEW new, new = s \o Append(t, x)
    PROVE  /\ \A k \in DOMAIN old : k \in DOMAIN new /\ new[k] = old[k]
           /\ Len(old) + 1 \in DOMAIN new /\ new[Len(old) + 1] = x
<1>1. Append(t, x) \in Seq(S) /\ Len(Append(t, x)) = Len(t) + 1 /\ Append(t, x)[Len(t) + 1] = x
      /\ \A k \in 1 .. Len(t) : Append(t, x)[k] = t[k]
  OBVIOUS
<1>2. /\ old \in Seq(S) /\ Len(old) = Len(s) + Len(t)
      /\ \A k \in 1 .. Len(s) + Len(t) : old[k] = IF k <= Len(s) THEN s[k] ELSE t[k - Len(s)]
  BY ConcatProperties
<1>3. /\ new \in Seq(S) /\ Len(new) = Len(s) + Len(t) + 1
      /\ \A k \in 1 .. Len(s) + Len(t) + 1 : new[k] = IF k <= Len(s) THEN s[k] ELSE Append(t, x)[k - Len(s)]
  <2>1. /\ new \in Seq(S) /\ Len(new) = Len(s) + Len(Append(t, x))
        /\ \A k \in 1 .. Len(s) + Len(Append(t, x)) : new[k] = IF k <= Len(s) THEN s[k] ELSE Append(t, x)[k - Len(s)]
    <3> DEFINE u == Append(t, x)
    <3>1. u \in Seq(S)
      BY <1>1
    <3> HIDE DEF u
    <3>2. /\ s \o u \in Seq(S) /\ Len(s \o u) = Len(s) + Len(u)
          /\ \A k \in 1 .. Len(s) + Len(u) : (s \o u)[k] = IF k <= Len(s) THEN s[k] ELSE u[k - Len(s)]
      BY <3>1, ConcatProperties
    <3> QED BY <3>2 DEF u
  <2>2. Len(s) + Len(Append(t, x)) = Len(s) + Len(t) + 1
    BY <1>1
  <2> QED BY <2>1, <2>2
<1>4. DOMAIN old = 1 .. Len(s) + Len(t) /\ DOMAIN new = 1 .. Len(s) + Len(t) + 1
  BY <1>2, <1>3
<1>5. Len(s) \in Nat /\ Len(t) \in Nat
  OBVIOUS
<1>6. ASSUME NEW k \in 1 .. Len(s) + Len(t) PROVE new[k] = old[k]
  <2>1. CASE k <= Len(s)
    BY <1>2, <1>3, <1>5, <2>1
  <2>2. CASE ~(k <= Len(s))
    <3>1. k - Len(s) \in 1 .. Len(t)
      BY <1>5, <2>2
    <3> QED BY <1>1, <1>2, <1>3, <1>5, <2>2, <3>1
  <2> QED BY <2>1, <2>2
<1>7. new[Len(s) + Len(t) + 1] = x
  <2>1. Len(s) + Len(t) + 1 - Len(s) = Len(t) + 1 /\ ~(Len(s) + Len(t) + 1 <= Len(s))
    BY <1>5
  <2> QED BY <1>1, <1>3, <1>5, <2>1
<1>8. /\ \A k \in DOMAIN old : k \in DOMAIN new /\ new[k] = old[k]
      /\ Len(old) + 1 \in DOMAIN new /\ new[Len(old) + 1] = x
  BY <1>2, <1>4, <1>5, <1>6, <1>7
<1> QED BY <1>8

-----------------------------------------------------------------------------
(* A step is one transfer's. *)
OnlyIts(t) ==
    /\ DOMAIN fpPc' = FpTransfers /\ DOMAIN fpLive' = FpTransfers /\ DOMAIN fpRead' = FpTransfers
    /\ DOMAIN fpHeaders' = FpTransfers /\ DOMAIN fpDst' = FpTransfers
    /\ \A u \in FpTransfers \ {t} :
          /\ fpPc'[u] = fpPc[u] /\ fpLive'[u] = fpLive[u] /\ fpRead'[u] = fpRead[u]
          /\ fpHeaders'[u] = fpHeaders[u] /\ fpDst'[u] = fpDst[u]

(* Tables change by additions only.                                        *)
LEMMA SameTables == ASSUME UNCHANGED fpTexts PROVE \A s : Table(s)' = Table(s)
BY DEF Table

(* A step of one transfer that adds to no table leaves the others as they  *)
(* are.                                                                    *)
LEMMA OneMoves ==
    ASSUME FPIInv, NEW t \in FpTransfers, OnlyIts(t), UNCHANGED <<fpJob, fpTexts>>, CacheIsSound',
           TransferOk(fpJob, t, fpPc'[t], fpLive'[t], fpRead'[t], fpHeaders'[t], fpDst'[t],
                      Table(fpJob.source[t].to))
    PROVE  FPIInv'
<1>1. \A s : Table(s)' = Table(s)
  BY SameTables
<1>2. ASSUME NEW u \in FpTransfers PROVE TransferInv(u)'
  <2>1. Table(fpJob.source[u].to)' = Table(fpJob.source[u].to)
    BY DEF Table
  <2>2. CASE u = t
    BY <2>1, <2>2 DEF TransferInv
  <2>3. CASE u # t
    <3>1. TransferInv(u)
      BY DEF FPIInv
    <3> QED BY <2>1, <2>3, <3>1 DEF TransferInv, OnlyIts
  <2> QED BY <2>2, <2>3
<1> QED BY <1>2 DEF FPIInv, OnlyIts

(* A step that leaves the cache and the tables.                            *)
LEMMA SameCache == ASSUME FPIInv, UNCHANGED <<fpTexts, fpCache>> PROVE CacheIsSound'
BY DEF FPIInv, CacheIsSound, Table

(* A step that leaves all that the invariant is about.                     *)
LEMMA NothingMoves ==
    ASSUME FPIInv, UNCHANGED <<fpJob, fpPc, fpLive, fpRead, fpHeaders, fpDst, fpTexts, fpCache>>
    PROVE  FPIInv'
<1>1. CacheIsSound'
  BY SameCache
<1>2. ASSUME NEW u \in FpTransfers PROVE TransferInv(u)'
  <2>1. TransferInv(u)
    BY DEF FPIInv
  <2>2. Table(fpJob.source[u].to)' = Table(fpJob.source[u].to)
    BY DEF Table
  <2> QED BY <2>1, <2>2 DEF TransferInv
<1> QED BY <1>1, <1>2 DEF FPIInv

(* What the invariant says of one transfer.                                *)
LEMMA Its ==
    ASSUME FPIInv, NEW t \in FpTransfers
    PROVE  TransferOk(fpJob, t, fpPc[t], fpLive[t], fpRead[t], fpHeaders[t], fpDst[t], Table(fpJob.source[t].to))
BY DEF FPIInv, TransferInv

(* FailActiveSend, ste/sender-azureFile-helper.go: the transfer is over    *)
(* but for its removal.                                                    *)
LEMMA FailKeeps ==
    ASSUME FPIInv, NEW t \in FpTransfers, FailTransfer(t),
           UNCHANGED fpRead \/ fpRead' = [fpRead EXCEPT ![t] = "empty"]
    PROVE  FPIInv'
<1>1. OnlyIts(t) /\ CacheIsSound' /\ UNCHANGED <<fpJob, fpTexts, fpHeaders, fpDst>>
  BY SameCache DEF FailTransfer, Goto, OnlyIts, FPIInv
<1>2. fpPc'[t] = "cleanup" /\ fpLive'[t] = FALSE /\ fpRead'[t] \in {fpRead[t], "empty"}
  BY DEF FailTransfer, Goto, FPIInv
<1>3. ASSUME NEW read \in {fpRead[t], "empty"}
      PROVE  TransferOk(fpJob, t, "cleanup", FALSE, read, fpHeaders[t], fpDst[t], Table(fpJob.source[t].to))
  BY Its DEF TransferOk, RouteOk, FailureOk, HeadersOk, SentOk, DiskOk, Ended, FpSteps, Sent, AtSender,
             AtDownloader
<1> QED BY <1>1, <1>2, <1>3, OneMoves

(* getCachedProperties, ste/sourceInfoProvider-File.go.                    *)
LEMMA GetPropertiesKeeps ==
    ASSUME FPIInv, NEW t \in FpTransfers, GetProperties(t)
    PROVE  FPIInv'
<1>1. OnlyIts(t) /\ CacheIsSound' /\ UNCHANGED <<fpJob, fpTexts, fpPc, fpLive, fpHeaders, fpDst>>
  BY SameCache DEF GetProperties, OnlyIts, FPIInv
<1>2. fpRead'[t] = "yes"
  BY DEF GetProperties, FPIInv
<1>3. TransferOk(fpJob, t, fpPc[t], fpLive[t], "yes", fpHeaders[t], fpDst[t], Table(fpJob.source[t].to))
  BY Its DEF TransferOk, FailureOk
<1> QED BY <1>1, <1>2, <1>3, OneMoves

(* The same when the service does not answer.                              *)
LEMMA GetPropertiesFailsKeeps ==
    ASSUME FPIInv, NEW t \in FpTransfers, GetPropertiesFails(t)
    PROVE  FPIInv'
BY FailKeeps DEF GetPropertiesFails

(* Properties, ste/sourceInfoProvider-File.go.                             *)
LEMMA PropertiesInBackendKeeps ==
    ASSUME FPIInv, NEW t \in FpTransfers, PropertiesInBackend(t)
    PROVE  FPIInv'
<1>1. /\ OnlyIts(t) /\ CacheIsSound' /\ UNCHANGED <<fpJob, fpTexts, fpRead, fpLive, fpHeaders, fpDst>>
      /\ fpPc[t] = "backend" /\ fpPc'[t] = "permissions"
  BY SameCache DEF PropertiesInBackend, Goto, OnlyIts, FPIInv
<1>2. TransferOk(fpJob, t, "permissions", fpLive[t], fpRead[t], fpHeaders[t], fpDst[t], Table(fpJob.source[t].to))
  BY <1>1, Its DEF TransferOk, RouteOk, FailureOk, HeadersOk, SentOk, DiskOk, Ended, FpSteps, Sent, AtSender,
             AtDownloader
<1> QED BY <1>1, <1>2, OneMoves

(* What a transfer knows that is about to look at permissions. *)
LEMMA AtPermissions ==
    ASSUME FPIInv, NEW t \in FpTransfers, Ready(t), ~OverNFS, fpJob.permissions # "none"
    PROVE  /\ fpPc[t] = "permissions" /\ fpLive[t] = TRUE
           /\ ~Uploading => fpRead[t] = "yes" /\ KeyOf(t) = fpJob.source[t].key
           /\ fpHeaders[t].permission = Inherited /\ DOMAIN fpHeaders[t] = HeaderFields
           /\ Downloading => DOMAIN fpDst[t] = DiskFields /\ fpDst[t].sd = OfADisk
           /\ ~WithNfs(fpJob)
<1>1. ~CrossProtocol
  BY JobIsKnown DEF OverNFS, CrossProtocol
<1>2. fpLive[t] = TRUE /\ fpRead[t] \in {"no", "yes"}
  BY Its DEF Ready, TransferOk, FailureOk
<1>3. ~Uploading => fpRead[t] = "yes"
  BY <1>1, <1>2 DEF Ready, NeedsProperties
<1> QED BY <1>2, <1>3, Its DEF Ready, KeyOf, Src, TransferOk, HeadersOk, DiskOk, Downloading, ToDisk, OverNFS, WithNfs

(* Transfers that are to keep no permissions (preservePermissions,         *)
(* ste/downloader-azureFiles.go).                                          *)
LEMMA NoPermissionsKeeps ==
    ASSUME FPIInv, NEW t \in FpTransfers, NoPermissions(t)
    PROVE  FPIInv'
<1>1. /\ OnlyIts(t) /\ CacheIsSound' /\ UNCHANGED <<fpJob, fpTexts, fpRead, fpLive, fpHeaders, fpDst>>
      /\ fpPc[t] = "permissions" /\ fpPc'[t] = "properties" /\ Ready(t) /\ ~WithNfs(fpJob)
  BY SameCache DEF NoPermissions, Goto, OnlyIts, FPIInv, Ready, OverNFS, WithNfs
<1>2. fpJob.permissions # "none" => ~Uploading /\ fpJob.source[t].key = 0
  BY <1>1, AtPermissions DEF NoPermissions
<1>3. SendsAccess(fpJob) => IsCopy(fpJob) /\ fpJob.source[t].key = 0
  BY <1>2, JobIsKnown DEF SendsAccess, IsCopy, ToDisk, Uploading
<1>4. ~RestoresAccess(fpJob, t) /\ ~KeepsMode(fpJob)
  BY <1>1, <1>2 DEF RestoresAccess, KeepsMode, WithNfs
<1>5. TransferOk(fpJob, t, "properties", fpLive[t], fpRead[t], fpHeaders[t], fpDst[t], Table(fpJob.source[t].to))
  BY <1>1, <1>3, <1>4, Its DEF TransferOk, RouteOk, FailureOk, HeadersOk, SentOk, DiskOk, Ended, FpSteps, Sent, AtSender,
             AtDownloader, Says
<1> QED BY <1>1, <1>5, OneMoves

(* A permission is put into the headers, and is right there. *)
LEMMA SetPermissionKeeps ==
    ASSUME FPIInv, NEW t \in FpTransfers, NEW permission, NEW step \in {"put", "properties", "set"},
           Ready(t) \/ fpPc[t] = "put", SetPermission(t, permission, step), CacheIsSound',
           ~WithNfs(fpJob), fpJob.permissions # "none",
           step # "set" => ~ToDisk(fpJob), step = "set" => ToDisk(fpJob),
           step = "properties" => Says(fpJob, t, permission, Table(fpJob.source[t].to)),
           step = "put" => /\ permission.how = "text" /\ permission.text \in KnownTexts(fpJob)
                           /\ Meaning(permission.text) = WantedBy(fpJob, t)
                           /\ IsCopy(fpJob) => fpJob.source[t].key # 0,
           step = "set" => /\ Ready(t)
                           /\ permission.text = SharePermissions[fpJob.source[t].from][fpJob.source[t].key]
                           /\ fpJob.source[t].key # 0
    PROVE  FPIInv'
<1> DEFINE h == [fpHeaders[t] EXCEPT !.permission = permission]
<1>1. /\ OnlyIts(t) /\ UNCHANGED <<fpJob, fpTexts, fpRead, fpLive, fpDst>>
      /\ fpPc[t] \in {"permissions", "put"} /\ fpPc'[t] = step /\ fpHeaders'[t] = h
  BY DEF SetPermission, Goto, OnlyIts, FPIInv, Ready
<1>2. DOMAIN h = HeaderFields /\ h.permission = permission
  BY Its DEF TransferOk, HeadersOk, HeaderFields
<1> HIDE DEF h
<1>3. TransferOk(fpJob, t, step, fpLive[t], fpRead[t], h, fpDst[t], Table(fpJob.source[t].to))
  <2>1. RouteOk(fpJob, t, step)
    BY DEF RouteOk, FpSteps, AtSender, AtDownloader, Sent
  <2>2. FailureOk(fpJob, t, step, fpLive[t], fpRead[t], fpDst[t])
    BY <1>1, Its DEF TransferOk, FailureOk
  <2>3. HeadersOk(fpJob, t, step, h, Table(fpJob.source[t].to))
    BY <1>2 DEF HeadersOk, KeepsMode, WithNfs, Sent
  <2>4. SentOk(fpJob, t, step, fpLive[t], h, fpDst[t], Table(fpJob.source[t].to))
    BY DEF SentOk, Ended, Sent
  <2>5. DiskOk(fpJob, t, step, fpLive[t], fpDst[t])
    BY <1>1, Its DEF TransferOk, DiskOk, Ended, KeepsMode, WithNfs, Ready
  <2> QED BY <2>1, <2>2, <2>3, <2>4, <2>5 DEF TransferOk
<1> QED BY <1>1, <1>3, OneMoves

(* The text that the source's key stands for. *)
LEMMA TextOfKey ==
    ASSUME FPIInv, NEW t \in FpTransfers, fpJob.source[t].key # 0
    PROVE  LET src == fpJob.source[t]
               text == SharePermissions[src.from][src.key]
           IN /\ src.from \in Shares /\ src.key \in DOMAIN Table(src.from)
              /\ Table(src.from)[src.key] = text
              /\ text \in KnownTexts(fpJob) /\ IsText(text) /\ Meaning(text) = MeantBy(fpJob, t)
<1> DEFINE src == fpJob.source[t]
           text == SharePermissions[src.from][src.key]
           all == SharePermissions[src.from]
<1>1. src.from \in Shares /\ src.key \in 0 .. Len(all)
  BY JobIsKnown DEF IsSource
<1>2. all \in Seq(Range(all)) /\ \A x \in Range(all) : IsText(x)
  BY <1>1, SharePermissionsAssumption
<1>3. src.key \in 1 .. Len(all) /\ DOMAIN all = 1 .. Len(all)
  BY <1>1, <1>2
<1>4. text \in Range(all)
  BY <1>3 DEF Range
<1>5. text \in KnownTexts(fpJob)
  BY <1>1, <1>4 DEF KnownTexts, TextsOfShares
<1>6. src.key \in DOMAIN Table(src.from) /\ Table(src.from)[src.key] = text
  BY <1>1, <1>3, TablesAreSequences
<1> QED BY <1>1, <1>2, <1>4, <1>5, <1>6 DEF MeantBy

(* Within a share the key is used as it is (addPermissionsToHeaders,       *)
(* ste/sender-azureFile-helper.go).                                        *)
LEMMA UseTheKeyKeeps ==
    ASSUME FPIInv, NEW t \in FpTransfers, UseTheKey(t)
    PROVE  FPIInv'
<1> DEFINE key == CachedPermissionKey(t)
<1>1. /\ Ready(t) /\ fpJob.permissions # "none" /\ ~OverNFS /\ Copying /\ SameShare(t) /\ key # 0
      /\ SetPermission(t, AsKey(key), "properties") /\ UNCHANGED fpCache
  BY DEF UseTheKey, WantsPermissions
<1>2. key = fpJob.source[t].key /\ ~WithNfs(fpJob)
  BY <1>1, AtPermissions DEF CachedPermissionKey, Copying, Uploading
<1>3. fpJob.source[t].from = fpJob.source[t].to
  BY <1>1 DEF SameShare, SrcShare, DstShare, Src
<1>4. Says(fpJob, t, AsKey(key), Table(fpJob.source[t].to))
  BY <1>1, <1>2, <1>3, TextOfKey DEF Says, AsKey, WantedBy, IsCopy, Copying
<1>5. CacheIsSound'
  BY <1>1, SameCache DEF SetPermission
<1> HIDE DEF key
<1> QED BY <1>1, <1>2, <1>4, <1>5, SetPermissionKeeps DEF Copying, ToDisk

(* GetSDDL, ste/sourceInfoProvider-Local_linux.go.                         *)
LEMMA GetLocalSDDLKeeps ==
    ASSUME FPIInv, NEW t \in FpTransfers, GetLocalSDDL(t)
    PROVE  FPIInv'
<1> DEFINE sd == Src(t).sd
           text == PortableString(SecurityDescriptorToString(sd))
           step == IF IsLong(SecurityDescriptorToString(sd)) THEN "put" ELSE "properties"
<1>1. Ready(t) /\ fpJob.permissions # "none" /\ ~OverNFS /\ Uploading
  BY DEF GetLocalSDDL, WantsPermissions
<1>2. CASE FpPanics
  BY <1>2, NothingMoves DEF FpPanics
<1>3. CASE FailTransfer(t) /\ UNCHANGED fpRead
  BY <1>3, FailKeeps
<1>4. CASE SetPermission(t, AsText(text), step) /\ UNCHANGED fpCache
  <2>1. IsBinary(sd)
    BY JobIsKnown DEF IsSource, Src
  <2>2. Meaning(text) = WantedBy(fpJob, t)
    BY <1>1, <2>1, DescriptorIsWritten DEF WantedBy, Uploading, IsCopy, Src
  <2>3. text \in KnownTexts(fpJob)
    <3>1. text \in LocalTexts(fpJob)
      BY Zenon DEF LocalTexts, Src
    <3> HIDE DEF text
    <3> QED BY <3>1 DEF KnownTexts
  <2> HIDE DEF text
  <2>4. AsText(text).how = "text" /\ AsText(text).text = text
    BY DEF AsText
  <2>5. ~IsCopy(fpJob) /\ ~ToDisk(fpJob) /\ ~WithNfs(fpJob)
    BY <1>1 DEF Uploading, IsCopy, ToDisk, OverNFS, WithNfs
  <2>6. Says(fpJob, t, AsText(text), Table(fpJob.source[t].to))
    BY <2>2, <2>4, <2>5 DEF Says
  <2>7. CacheIsSound'
    BY <1>4, SameCache DEF SetPermission
  <2>8. step \in {"put", "properties"}
    OBVIOUS
  <2> HIDE DEF step
  <2> QED BY <1>1, <1>4, <2>2, <2>3, <2>4, <2>5, <2>6, <2>7, <2>8, SetPermissionKeeps
<1> QED BY <1>2, <1>3, <1>4 DEF GetLocalSDDL

(* A text of the source goes on to the sender or to the disk               *)
(* (addPermissionsToHeaders, ste/sender-azureFile-helper.go).              *)
LEMMA HaveTextKeeps ==
    ASSUME FPIInv, NEW t \in FpTransfers, WantsText(t), NEW text, HaveText(t, text), CacheIsSound',
           text = Table(SrcShare(t))[KeyOf(t)]
    PROVE  FPIInv'
<1> DEFINE step == IF Downloading THEN "set" ELSE IF IsLong(text) THEN "put" ELSE "properties"
<1>1. Ready(t) /\ fpJob.permissions # "none" /\ ~OverNFS /\ ~Uploading /\ KeyOf(t) # 0
  BY DEF WantsText, WantsPermissions
<1>2. KeyOf(t) = fpJob.source[t].key /\ ~WithNfs(fpJob) /\ fpJob.source[t].key # 0
  BY <1>1, AtPermissions
<1>3. /\ text = SharePermissions[fpJob.source[t].from][fpJob.source[t].key]
      /\ text \in KnownTexts(fpJob) /\ Meaning(text) = MeantBy(fpJob, t)
  BY <1>2, TextOfKey DEF SrcShare, Src
<1>4. AsText(text).how = "text" /\ AsText(text).text = text
  BY DEF AsText
<1>5. ~ToDisk(fpJob) => IsCopy(fpJob)
  BY <1>1, JobIsKnown DEF ToDisk, IsCopy, Uploading
<1>6. ~ToDisk(fpJob) => Says(fpJob, t, AsText(text), Table(fpJob.source[t].to)) /\ Meaning(text) = WantedBy(fpJob, t)
  BY <1>2, <1>3, <1>4, <1>5 DEF Says, WantedBy
<1>7. /\ step \in {"put", "properties", "set"} /\ (step = "set" <=> ToDisk(fpJob))
      /\ SetPermission(t, AsText(text), step)
  BY DEF HaveText, Downloading, ToDisk
<1> HIDE DEF step
<1> QED BY <1>1, <1>2, <1>3, <1>4, <1>6, <1>7, SetPermissionKeeps

(* GetSDDLFromID, ste/securityInfoPersistenceManager.go, with the key in   *)
(* the cache.                                                              *)
LEMMA GetSDDLFromCacheKeeps ==
    ASSUME FPIInv, NEW t \in FpTransfers, GetSDDLFromCache(t)
    PROVE  FPIInv'
<1>1. PICK entry \in fpCache : /\ entry.share = SrcShare(t) /\ entry.key = KeyOf(t)
                               /\ HaveText(t, entry.text)
  BY DEF GetSDDLFromCache
<1>2. entry.text = Table(SrcShare(t))[KeyOf(t)]
  BY <1>1 DEF FPIInv, CacheIsSound
<1>3. CacheIsSound'
  BY <1>1, SameCache DEF GetSDDLFromCache, HaveText, SetPermission
<1> QED BY <1>1, <1>2, <1>3, HaveTextKeeps DEF GetSDDLFromCache

(* GetSDDLFromID, ste/securityInfoPersistenceManager.go, with a call.      *)
LEMMA GetSDDLFromIDKeeps ==
    ASSUME FPIInv, NEW t \in FpTransfers, GetSDDLFromID(t)
    PROVE  FPIInv'
<1> DEFINE text == Table(SrcShare(t))[KeyOf(t)]
           entry == [share |-> SrcShare(t), by |-> "ID", key |-> KeyOf(t), text |-> text]
<1>1. CASE FailTransfer(t) /\ UNCHANGED fpRead
  BY <1>1, FailKeeps
<1>2. CASE HaveText(t, text) /\ fpCache' = fpCache \cup {entry}
  <2>1. Ready(t) /\ fpJob.permissions # "none" /\ ~OverNFS /\ ~Uploading /\ KeyOf(t) # 0
    BY DEF GetSDDLFromID, WantsText, WantsPermissions
  <2>2. KeyOf(t) = fpJob.source[t].key /\ fpJob.source[t].key # 0
    BY <2>1, AtPermissions
  <2>3. SrcShare(t) \in Shares /\ KeyOf(t) \in DOMAIN Table(SrcShare(t))
    BY <2>2, TextOfKey DEF SrcShare, Src
  <2>4. \A s : Table(s)' = Table(s)
    BY <1>2, SameTables DEF HaveText, SetPermission
  <2>5. entry.share = SrcShare(t) /\ entry.key = KeyOf(t) /\ entry.text = text
    OBVIOUS
  <2> HIDE DEF entry, text
  <2>6. CacheIsSound'
    <3>1. SUFFICES ASSUME NEW e \in fpCache'
                   PROVE  /\ e.share \in Shares /\ e.key \in DOMAIN Table(e.share)
                          /\ Table(e.share)[e.key] = e.text
      BY <2>4 DEF CacheIsSound, Table
    <3>2. CASE e \in fpCache
      BY <3>2 DEF FPIInv, CacheIsSound
    <3>3. CASE e = entry
      BY <2>3, <2>5, <3>3 DEF text
    <3> QED BY <1>2, <3>2, <3>3
  <2> QED BY <1>2, <2>6, HaveTextKeeps DEF text, GetSDDLFromID
<1> QED BY <1>1, <1>2 DEF GetSDDLFromID

(* About to look for a key in the share at the destination. *)
LEMMA AtPut ==
    ASSUME FPIInv, NEW t \in FpTransfers, fpPc[t] \in {"put", "createPermission"}
    PROVE  LET text == fpHeaders[t].permission.text
           IN /\ ~ToDisk(fpJob) /\ ~WithNfs(fpJob) /\ fpJob.permissions # "none" /\ fpLive[t] = TRUE
              /\ text \in KnownTexts(fpJob) /\ Meaning(text) = WantedBy(fpJob, t)
              /\ IsCopy(fpJob) => fpJob.source[t].key # 0
              /\ DOMAIN fpHeaders[t] = HeaderFields
BY Its DEF TransferOk, RouteOk, FailureOk, HeadersOk, AtSender

(* PutSDDL, ste/securityInfoPersistenceManager.go, with the text in the    *)
(* cache.                                                                  *)
LEMMA PutSDDLFromCacheKeeps ==
    ASSUME FPIInv, NEW t \in FpTransfers, PutSDDLFromCache(t)
    PROVE  FPIInv'
<1>1. PICK entry \in fpCache : /\ CacheHolds(entry, DstShare(t), fpHeaders[t].permission.text)
                               /\ SetPermission(t, AsKey(entry.key), "properties")
  BY DEF PutSDDLFromCache
<1>2. entry.key \in DOMAIN Table(fpJob.source[t].to)
      /\ Table(fpJob.source[t].to)[entry.key] = fpHeaders[t].permission.text
  BY <1>1 DEF FPIInv, CacheIsSound, CacheHolds, DstShare, Src
<1>3. CacheIsSound'
  BY <1>1, SameCache DEF PutSDDLFromCache, SetPermission
<1>4. fpPc[t] = "put"
  BY DEF PutSDDLFromCache
<1>5. Says(fpJob, t, AsKey(entry.key), Table(fpJob.source[t].to))
  BY <1>2, <1>4, AtPut DEF Says, AsKey
<1> QED BY <1>1, <1>3, <1>4, <1>5, AtPut, SetPermissionKeeps

(* PutSDDL, ste/securityInfoPersistenceManager.go: the text is not in the  *)
(* cache.                                                                  *)
LEMMA PutSDDLMissesKeeps ==
    ASSUME FPIInv, NEW t \in FpTransfers, PutSDDLMisses(t)
    PROVE  FPIInv'
<1>1. /\ OnlyIts(t) /\ CacheIsSound' /\ UNCHANGED <<fpJob, fpTexts, fpRead, fpLive, fpHeaders, fpDst>>
      /\ fpPc[t] = "put" /\ fpPc'[t] = "createPermission"
  BY SameCache DEF PutSDDLMisses, Goto, OnlyIts, FPIInv
<1>2. TransferOk(fpJob, t, "createPermission", fpLive[t], fpRead[t], fpHeaders[t], fpDst[t], Table(fpJob.source[t].to))
  BY <1>1, Its DEF TransferOk, RouteOk, FailureOk, HeadersOk, SentOk, DiskOk, Ended, FpSteps, Sent, AtSender,
             AtDownloader
<1> QED BY <1>1, <1>2, OneMoves

(* PutSDDL, ste/securityInfoPersistenceManager.go: the destination's table *)
(* gets a text, maybe one that another transfer has put there since.       *)
LEMMA CreatePermissionKeeps ==
    ASSUME FPIInv, NEW t \in FpTransfers, CreatePermission(t)
    PROVE  FPIInv'
<1>0. fpPc[t] = "createPermission" /\ fpJob.source[t].to \in Shares
  BY JobIsKnown DEF CreatePermission, IsSource
<1>1. CASE FailTransfer(t) /\ UNCHANGED fpRead
  BY <1>1, FailKeeps
<1>2. CASE ~(FailTransfer(t) /\ UNCHANGED fpRead)
  <2>x. PICK share, text : share = fpJob.source[t].to /\ text = fpHeaders[t].permission.text
    OBVIOUS
  <2>y. PICK table, known : table = Table(share) /\ known = {k \in DOMAIN table : table[k] = text}
    OBVIOUS
  <2>z. PICK k \in known \cup {Len(table) + 1} :
           /\ fpTexts' = IF k \in known THEN fpTexts ELSE [fpTexts EXCEPT ![share] = Append(@, text)]
           /\ fpCache' = fpCache \cup {[share |-> share, by |-> "SDDL", key |-> k, text |-> text]}
           /\ fpHeaders' = [fpHeaders EXCEPT ![t].permission = AsKey(k)]
           /\ Goto(t, "properties") /\ UNCHANGED <<fpJob, fpLive, fpRead, fpDst>>
    BY <1>2, <2>x, <2>y DEF CreatePermission, DstShare, Src
  <2> DEFINE h == [fpHeaders[t] EXCEPT !.permission = AsKey(k)]
             entry == [share |-> share, by |-> "SDDL", key |-> k, text |-> text]
  <2>1. /\ OnlyIts(t) /\ fpPc'[t] = "properties" /\ fpHeaders'[t] = h
        /\ fpLive'[t] = fpLive[t] /\ fpRead'[t] = fpRead[t] /\ fpDst'[t] = fpDst[t]
    BY <2>x, <2>y, <2>z DEF OnlyIts, FPIInv, Goto
  <2>2. /\ text \in KnownTexts(fpJob) /\ Meaning(text) = WantedBy(fpJob, t)
        /\ ~ToDisk(fpJob) /\ ~WithNfs(fpJob) /\ (IsCopy(fpJob) => fpJob.source[t].key # 0)
        /\ fpLive[t] = TRUE /\ fpRead[t] # "empty"
    BY <1>0, <2>x, <2>y, <2>z, AtPut, Its DEF TransferOk, FailureOk
  <2>3. entry.share = share /\ entry.key = k /\ entry.text = text
    OBVIOUS
  <2>4. DOMAIN h = HeaderFields /\ h.permission = AsKey(k)
    BY Its DEF TransferOk, HeadersOk, HeaderFields
  <2>a. share \in Shares
    BY <1>0, <2>x, <2>y, <2>z
  <2> HIDE DEF h, entry
  <2>5. /\ fpTexts' \in [Shares -> Seq(KnownTexts(fpJob))]
        /\ \A s \in Shares : \A i \in DOMAIN Table(s) : i \in DOMAIN Table(s)' /\ Table(s)'[i] = Table(s)[i]
        /\ k \in DOMAIN Table(share)' /\ Table(share)'[k] = text
    <3>1. CASE k \in known
      BY <2>x, <2>y, <2>z, <3>1, SameTables DEF FPIInv
    <3>2. CASE k \notin known
      <4>1. fpTexts' = [fpTexts EXCEPT ![share] = Append(fpTexts[share], text)] /\ k = Len(table) + 1
        BY <2>x, <2>y, <2>z, <3>2
      <4>2. /\ SharePermissions[share] \in Seq(KnownTexts(fpJob))
            /\ fpTexts[share] \in Seq(KnownTexts(fpJob))
            /\ fpTexts \in [Shares -> Seq(KnownTexts(fpJob))]
        BY <2>a, TablesAreSequences DEF FPIInv
      <4>3. Append(fpTexts[share], text) \in Seq(KnownTexts(fpJob))
        BY <2>2, <4>2
      <4>4. fpTexts' \in [Shares -> Seq(KnownTexts(fpJob))]
        BY <2>a, <4>1, <4>2, <4>3
      <4>5. ASSUME NEW s \in Shares, s # share PROVE Table(s)' = Table(s)
        BY <4>1, <4>2, <4>5 DEF Table
      <4>6. Table(share) = SharePermissions[share] \o fpTexts[share]
            /\ Table(share)' = SharePermissions[share] \o Append(fpTexts[share], text)
        <5>1. fpTexts'[share] = Append(fpTexts[share], text)
          BY <2>a, <4>1, <4>2
        <5> QED BY <5>1 DEF Table
      <4>7. /\ \A i \in DOMAIN Table(share) : i \in DOMAIN Table(share)' /\ Table(share)'[i] = Table(share)[i]
            /\ Len(Table(share)) + 1 \in DOMAIN Table(share)' /\ Table(share)'[Len(Table(share)) + 1] = text
        <5>1. PICK S, first, added, old, new :
                 /\ S = KnownTexts(fpJob) /\ first = SharePermissions[share] /\ added = fpTexts[share]
                 /\ old = Table(share) /\ new = Table(share)'
          OBVIOUS
        <5>2. first \in Seq(S) /\ added \in Seq(S) /\ text \in S
          BY <2>2, <4>2, <5>1
        <5>3. old = first \o added /\ new = first \o Append(added, text)
          BY <4>6, <5>1
        <5>4. /\ \A i \in DOMAIN old : i \in DOMAIN new /\ new[i] = old[i]
              /\ Len(old) + 1 \in DOMAIN new /\ new[Len(old) + 1] = text
          BY <5>2, <5>3, AddedAtTheEnd
        <5> QED BY <5>1, <5>4
      <4> QED BY <4>1, <4>4, <4>5, <4>7, <2>x, <2>y, <2>z
    <3> QED BY <3>1, <3>2
  <2>6. CacheIsSound'
    <3>1. SUFFICES ASSUME NEW e \in fpCache'
                   PROVE  /\ e.share \in Shares /\ e.key \in DOMAIN Table(e.share)'
                          /\ Table(e.share)'[e.key] = e.text
      BY DEF CacheIsSound, Table
    <3>2. CASE e \in fpCache
      <4>1. e.share \in Shares /\ e.key \in DOMAIN Table(e.share) /\ Table(e.share)[e.key] = e.text
        BY <3>2 DEF FPIInv, CacheIsSound
      <4> QED BY <2>5, <4>1
    <3>3. CASE e = entry
      BY <2>a, <2>3, <2>5, <3>3
    <3> QED BY <2>x, <2>y, <2>z, <3>2, <3>3 DEF entry
  <2>7. TransferInv(t)'
    <3>1. Says(fpJob, t, AsKey(k), Table(share)')
      BY <2>2, <2>5 DEF Says, AsKey
    <3>2. RouteOk(fpJob, t, "properties") /\ DiskOk(fpJob, t, "properties", fpLive[t], fpDst[t])
      BY <2>2 DEF RouteOk, DiskOk, FpSteps, AtSender, AtDownloader, Sent
    <3>3. FailureOk(fpJob, t, "properties", fpLive[t], fpRead[t], fpDst[t])
      BY <2>2, Its DEF TransferOk, FailureOk
    <3>4. HeadersOk(fpJob, t, "properties", h, Table(share)')
      BY <2>2, <2>4, <3>1 DEF HeadersOk, KeepsMode, WithNfs, Sent
    <3>5. SentOk(fpJob, t, "properties", fpLive[t], h, fpDst[t], Table(share)')
      BY DEF SentOk, Ended, Sent
    <3>6. TransferOk(fpJob, t, "properties", fpLive[t], fpRead[t], h, fpDst[t], Table(share)')
      BY <3>2, <3>3, <3>4, <3>5 DEF TransferOk
    <3> QED BY <2>x, <2>y, <2>z, <2>1, <3>6 DEF TransferInv
  <2>8. ASSUME NEW u \in FpTransfers, u # t PROVE TransferInv(u)'
    <3>0. PICK to : to = fpJob.source[u].to
      OBVIOUS
    <3>1. to \in Shares
      BY <3>0, JobIsKnown DEF IsSource
    <3>2. \A i \in DOMAIN Table(to) : i \in DOMAIN Table(to)' /\ Table(to)'[i] = Table(to)[i]
      BY <2>5, <3>1
    <3>3. TransferOk(fpJob, u, fpPc[u], fpLive[u], fpRead[u], fpHeaders[u], fpDst[u], Table(to)')
      BY <3>0, <3>2, Its, LongerTable
    <3> QED BY <2>x, <2>y, <2>z, <2>1, <2>8, <3>0, <3>3 DEF TransferInv, OnlyIts
  <2> QED BY <2>x, <2>y, <2>z, <2>1, <2>5, <2>6, <2>7, <2>8 DEF FPIInv, OnlyIts
<1> QED BY <1>1, <1>2

(* addNFSPermissionsToHeaders, ste/sender-azureFile-helper.go.             *)
LEMMA NFSPermissionsKeeps ==
    ASSUME FPIInv, NEW t \in FpTransfers, NFSPermissions(t)
    PROVE  FPIInv'
<1> DEFINE h == IF CrossProtocol \/ (~Uploading /\ fpJob.permissions = "none") THEN fpHeaders[t]
                ELSE IF fpJob.permissions # "none"
                THEN [fpHeaders[t] EXCEPT !.owner = Src(t).owner, !.mode = Src(t).mode]
                ELSE [fpHeaders[t] EXCEPT !.owner = "me", !.mode = Src(t).mode \ {"w"}]
<1>0. fpPc[t] = "permissions" /\ WithNfs(fpJob) /\ ~ToDisk(fpJob)
  BY DEF NFSPermissions, Ready, OverNFS, WithNfs, Downloading, ToDisk
<1>1. CASE FailTransfer(t) /\ UNCHANGED fpRead
  BY <1>1, FailKeeps
<1>2. CASE ~(FailTransfer(t) /\ UNCHANGED fpRead)
  <2>1. /\ fpHeaders' = [fpHeaders EXCEPT ![t] = h]
        /\ Goto(t, "properties") /\ UNCHANGED <<fpJob, fpLive, fpRead, fpDst, fpTexts, fpCache>>
    BY <1>2 DEF NFSPermissions
  <2>2. DOMAIN fpHeaders[t] = HeaderFields
    BY Its DEF TransferOk, HeadersOk
  <2>3. DOMAIN h = HeaderFields
    BY <2>2
  <2>4. KeepsMode(fpJob) => h.owner = fpJob.source[t].owner /\ h.mode = fpJob.source[t].mode
    <3>1. KeepsMode(fpJob) => ~CrossProtocol /\ fpJob.permissions # "none"
      BY JobIsKnown DEF KeepsMode, CrossProtocol
    <3> QED BY <2>2, <3>1 DEF HeaderFields, Src
  <2> HIDE DEF h
  <2>5. /\ OnlyIts(t) /\ CacheIsSound'
        /\ fpPc'[t] = "properties" /\ fpHeaders'[t] = h
        /\ fpLive'[t] = fpLive[t] /\ fpRead'[t] = fpRead[t] /\ fpDst'[t] = fpDst[t]
    BY <2>1, SameCache DEF Goto, OnlyIts, FPIInv
  <2>6. TransferOk(fpJob, t, "properties", fpLive[t], fpRead[t], h, fpDst[t], Table(fpJob.source[t].to))
    <3>1. RouteOk(fpJob, t, "properties") /\ DiskOk(fpJob, t, "properties", fpLive[t], fpDst[t])
      BY <1>0 DEF RouteOk, DiskOk, FpSteps, AtSender, AtDownloader, Sent
    <3>2. FailureOk(fpJob, t, "properties", fpLive[t], fpRead[t], fpDst[t])
      BY <1>0, Its DEF TransferOk, FailureOk
    <3>3. HeadersOk(fpJob, t, "properties", h, Table(fpJob.source[t].to))
      BY <1>0, <2>3, <2>4 DEF HeadersOk, SendsAccess, Sent
    <3>4. SentOk(fpJob, t, "properties", fpLive[t], h, fpDst[t], Table(fpJob.source[t].to))
      BY DEF SentOk, Ended, Sent
    <3> QED BY <3>1, <3>2, <3>3, <3>4 DEF TransferOk
  <2> QED BY <2>1, <2>5, <2>6, OneMoves
<1> QED BY <1>1, <1>2

(* addSMBPropertiesToHeaders, ste/sender-azureFile-helper.go.              *)
LEMMA PropertiesToHeadersKeeps ==
    ASSUME FPIInv, NEW t \in FpTransfers, PropertiesToHeaders(t)
    PROVE  FPIInv'
<1> DEFINE src == fpJob.source[t]
           old == fpHeaders[t]
           given == [old EXCEPT !.attributes = IF OverNFS THEN @ ELSE Src(t).attributes,
                                !.created = "source",
                                !.written = IF TransfersWriteTime(t) THEN "source" ELSE @]
           h == IF fpJob.info THEN given ELSE old
           step == IF Src(t).folder THEN "folder" ELSE "create"
<1>0. fpPc[t] = "properties" /\ ~ToDisk(fpJob)
  BY DEF PropertiesToHeaders, Downloading, ToDisk
<1>1. CASE FailTransfer(t) /\ UNCHANGED fpRead
  BY <1>1, FailKeeps
<1>2. CASE ~(FailTransfer(t) /\ UNCHANGED fpRead)
  <2>1. /\ fpHeaders' = [fpHeaders EXCEPT ![t] = h]
        /\ Goto(t, step) /\ UNCHANGED <<fpJob, fpLive, fpRead, fpDst, fpTexts, fpCache>>
    BY <1>2 DEF PropertiesToHeaders
  <2>2. HeadersOk(fpJob, t, "properties", fpHeaders[t], Table(src.to))
    BY <1>0, Its DEF TransferOk
  <2>3. DOMAIN fpHeaders[t] = HeaderFields
    BY <2>2 DEF HeadersOk
  <2>4. /\ DOMAIN h = HeaderFields
        /\ h.permission = fpHeaders[t].permission /\ h.owner = fpHeaders[t].owner /\ h.mode = fpHeaders[t].mode
    BY <2>3 DEF HeaderFields
  <2>5. fpJob.info => /\ h.created = "source" /\ (~src.folder => h.written = "source")
                      /\ ~WithNfs(fpJob) => h.attributes = src.attributes
    BY <2>3 DEF HeaderFields, TransfersWriteTime, Src, OverNFS, WithNfs
  <2>6. step \in {"folder", "create"} /\ (step = "folder" <=> src.folder)
    BY DEF Src
  <2> HIDE DEF h, step
  <2>7. /\ OnlyIts(t) /\ CacheIsSound'
        /\ fpPc'[t] = step /\ fpHeaders'[t] = h
        /\ fpLive'[t] = fpLive[t] /\ fpRead'[t] = fpRead[t] /\ fpDst'[t] = fpDst[t]
    BY <2>1, SameCache DEF Goto, OnlyIts, FPIInv
  <2>8. TransferOk(fpJob, t, step, fpLive[t], fpRead[t], h, fpDst[t], Table(src.to))
    <3>1. RouteOk(fpJob, t, step) /\ DiskOk(fpJob, t, step, fpLive[t], fpDst[t])
      BY <1>0, <2>6 DEF RouteOk, DiskOk, FpSteps, AtSender, AtDownloader, Sent
    <3>2. FailureOk(fpJob, t, step, fpLive[t], fpRead[t], fpDst[t])
      BY <1>0, <2>6, Its DEF TransferOk, FailureOk
    <3>3. HeadersOk(fpJob, t, step, h, Table(src.to))
      <4>1. /\ SendsAccess(fpJob) => Says(fpJob, t, h.permission, Table(src.to))
            /\ KeepsMode(fpJob) /\ ~ToDisk(fpJob) => h.owner = src.owner /\ h.mode = src.mode
        BY <2>2, <2>4 DEF HeadersOk
      <4>2. src.attributes \ {} = src.attributes
        OBVIOUS
      <4> HIDE DEF src
      <4> QED BY <2>4, <2>5, <2>6, <4>1, <4>2 DEF HeadersOk, Sent, src
    <3>4. SentOk(fpJob, t, step, fpLive[t], h, fpDst[t], Table(src.to))
      BY <2>6 DEF SentOk, Ended, Sent
    <3> QED BY <3>1, <3>2, <3>3, <3>4 DEF TransferOk
  <2> QED BY <2>1, <2>7, <2>8, OneMoves
<1> QED BY <1>1, <1>2

(* Prologue, ste/sender-azureFile.go: the object is made with its headers. *)
LEMMA CreateKeeps ==
    ASSUME FPIInv, NEW t \in FpTransfers, Create(t)
    PROVE  FPIInv'
<1> DEFINE src == fpJob.source[t]
           h == [fpHeaders[t] EXCEPT !.attributes = @ \ {"R"}]
           d == [h EXCEPT !.attributes = AttributesGiven(h)]
<1>0. fpPc[t] = "create" /\ ~ToDisk(fpJob) /\ ~src.folder
  BY Its DEF Create, TransferOk, RouteOk, AtSender
<1>1. CASE FailTransfer(t) /\ UNCHANGED fpRead
  BY <1>1, FailKeeps
<1>2. CASE ~(FailTransfer(t) /\ UNCHANGED fpRead)
  <2>1. /\ fpHeaders' = [fpHeaders EXCEPT ![t] = h] /\ fpDst' = [fpDst EXCEPT ![t] = d]
        /\ Goto(t, "ranges") /\ UNCHANGED <<fpJob, fpLive, fpRead, fpTexts, fpCache>>
    BY <1>2 DEF Create
  <2>2. HeadersOk(fpJob, t, "create", fpHeaders[t], Table(src.to))
    BY <1>0, Its DEF TransferOk
  <2>3. DOMAIN fpHeaders[t] = HeaderFields
    BY <2>2 DEF HeadersOk
  <2>4. /\ DOMAIN h = HeaderFields /\ h.attributes = fpHeaders[t].attributes \ {"R"}
        /\ h.permission = fpHeaders[t].permission /\ h.owner = fpHeaders[t].owner /\ h.mode = fpHeaders[t].mode
        /\ h.created = fpHeaders[t].created /\ h.written = fpHeaders[t].written
    BY <2>3 DEF HeaderFields
  <2> HIDE DEF h
  <2>5. DOMAIN d = HeaderFields /\ d.permission = h.permission /\ d.owner = h.owner /\ d.mode = h.mode
    BY <2>4 DEF HeaderFields
  <2> HIDE DEF d
  <2>6. /\ OnlyIts(t) /\ CacheIsSound'
        /\ fpPc'[t] = "ranges" /\ fpHeaders'[t] = h /\ fpDst'[t] = d
        /\ fpLive'[t] = fpLive[t] /\ fpRead'[t] = fpRead[t]
    BY <2>1, SameCache DEF Goto, OnlyIts, FPIInv
  <2>7. TransferOk(fpJob, t, "ranges", fpLive[t], fpRead[t], h, d, Table(src.to))
    <3>1. RouteOk(fpJob, t, "ranges") /\ DiskOk(fpJob, t, "ranges", fpLive[t], d)
      BY <1>0 DEF RouteOk, DiskOk, FpSteps, AtSender, AtDownloader, Sent
    <3>2. FailureOk(fpJob, t, "ranges", fpLive[t], fpRead[t], d)
      BY <1>0, Its DEF TransferOk, FailureOk
    <3>3. HeadersOk(fpJob, t, "ranges", h, Table(src.to))
      <4>1. /\ SendsAccess(fpJob) => Says(fpJob, t, h.permission, Table(src.to))
            /\ KeepsMode(fpJob) /\ ~ToDisk(fpJob) => h.owner = src.owner /\ h.mode = src.mode
        BY <2>2, <2>4 DEF HeadersOk
      <4>2. fpJob.info => /\ h.created = "source" /\ h.written = "source"
                          /\ ~WithNfs(fpJob) => fpHeaders[t].attributes = src.attributes \ {}
        BY <1>0, <2>2, <2>4 DEF HeadersOk, Sent
      <4>3. fpJob.info /\ ~WithNfs(fpJob) => h.attributes = src.attributes \ {"R"}
        BY <2>4, <4>2
      <4> HIDE DEF src
      <4> QED BY <2>4, <4>1, <4>2, <4>3 DEF HeadersOk, Sent, src
    <3>4. SentOk(fpJob, t, "ranges", fpLive[t], h, d, Table(src.to))
      BY <2>5 DEF SentOk, Ended, Sent
    <3> QED BY <3>1, <3>2, <3>3, <3>4 DEF TransferOk
  <2> QED BY <2>1, <2>6, <2>7, OneMoves
<1> QED BY <1>1, <1>2

(* The data is sent, and the service sets the time of the last write       *)
(* (ste/sender-azureFileFromLocal.go).                                     *)
LEMMA PutRangesKeeps ==
    ASSUME FPIInv, NEW t \in FpTransfers, PutRanges(t)
    PROVE  FPIInv'
<1> DEFINE d == [fpDst[t] EXCEPT !.written = "now"]
<1>0. fpPc[t] = "ranges" /\ ~ToDisk(fpJob)
  BY Its DEF PutRanges, TransferOk, RouteOk, AtSender, Sent
<1>1. CASE FailTransfer(t) /\ UNCHANGED fpRead
  BY <1>1, FailKeeps
<1>2. CASE ~(FailTransfer(t) /\ UNCHANGED fpRead)
  <2>1. /\ fpDst' = [fpDst EXCEPT ![t] = d]
        /\ Goto(t, "epilogue") /\ UNCHANGED <<fpJob, fpLive, fpRead, fpHeaders, fpTexts, fpCache>>
    BY <1>2 DEF PutRanges
  <2>2. /\ DOMAIN fpDst[t] = HeaderFields /\ fpDst[t].permission = fpHeaders[t].permission
        /\ fpDst[t].owner = fpHeaders[t].owner /\ fpDst[t].mode = fpHeaders[t].mode
    BY <1>0, Its DEF TransferOk, SentOk, Sent
  <2>3. /\ DOMAIN d = HeaderFields /\ d.permission = fpHeaders[t].permission
        /\ d.owner = fpHeaders[t].owner /\ d.mode = fpHeaders[t].mode
    BY <2>2 DEF HeaderFields
  <2> HIDE DEF d
  <2>4. /\ OnlyIts(t) /\ CacheIsSound'
        /\ fpPc'[t] = "epilogue" /\ fpHeaders'[t] = fpHeaders[t] /\ fpDst'[t] = d
        /\ fpLive'[t] = fpLive[t] /\ fpRead'[t] = fpRead[t]
    BY <2>1, SameCache DEF Goto, OnlyIts, FPIInv
  <2>5. TransferOk(fpJob, t, "epilogue", fpLive[t], fpRead[t], fpHeaders[t], d, Table(fpJob.source[t].to))
    <3>1. RouteOk(fpJob, t, "epilogue") /\ DiskOk(fpJob, t, "epilogue", fpLive[t], d)
      BY <1>0, Its DEF TransferOk, RouteOk, DiskOk, FpSteps, AtSender, AtDownloader, Sent
    <3>2. FailureOk(fpJob, t, "epilogue", fpLive[t], fpRead[t], d)
      BY <1>0, Its DEF TransferOk, FailureOk
    <3>3. HeadersOk(fpJob, t, "epilogue", fpHeaders[t], Table(fpJob.source[t].to))
      BY <1>0, Its DEF TransferOk, HeadersOk, Sent
    <3>4. SentOk(fpJob, t, "epilogue", fpLive[t], fpHeaders[t], d, Table(fpJob.source[t].to))
      BY <2>3 DEF SentOk, Ended, Sent
    <3> QED BY <3>1, <3>2, <3>3, <3>4 DEF TransferOk
  <2> QED BY <2>1, <2>4, <2>5, OneMoves
<1> QED BY <1>1, <1>2

(* Epilogue, ste/sender-azureFile.go: the headers are set again.           *)
LEMMA SenderEpilogueKeeps ==
    ASSUME FPIInv, NEW t \in FpTransfers, SenderEpilogue(t)
    PROVE  FPIInv'
<1> DEFINE src == fpJob.source[t]
           h == fpHeaders[t]
           d == IF fpJob.info THEN Apply(fpDst[t], h) ELSE fpDst[t]
<1>0. fpPc[t] = "epilogue" /\ ~ToDisk(fpJob) /\ ~src.folder
  BY Its DEF SenderEpilogue, TransferOk, RouteOk, AtSender, Sent
<1>1. CASE FailTransfer(t) /\ UNCHANGED fpRead
  BY <1>1, FailKeeps
<1>2. CASE ~(FailTransfer(t) /\ UNCHANGED fpRead)
  <2>1. /\ fpDst' = [fpDst EXCEPT ![t] = d]
        /\ Goto(t, "done") /\ UNCHANGED <<fpJob, fpLive, fpRead, fpHeaders, fpTexts, fpCache>>
    BY <1>2 DEF SenderEpilogue
  <2>2. /\ DOMAIN fpDst[t] = HeaderFields /\ fpDst[t].permission = h.permission
        /\ fpDst[t].owner = h.owner /\ fpDst[t].mode = h.mode
    BY <1>0, Its DEF TransferOk, SentOk, Sent
  <2>3. HeadersOk(fpJob, t, "epilogue", h, Table(src.to))
    BY <1>0, Its DEF TransferOk
  <2>4. d.permission = h.permission /\ d.owner = h.owner /\ d.mode = h.mode
    BY <2>2 DEF HeaderFields, Apply
  <2>5. fpJob.info => /\ d.written = h.written /\ d.created = h.created
                      /\ d.attributes = AttributesGiven(h)
    BY <2>2 DEF HeaderFields, Apply
  <2>6. fpJob.info => /\ h.created = "source" /\ h.written = "source"
                      /\ ~WithNfs(fpJob) => h.attributes = src.attributes \ {"R"}
    BY <1>0, <2>3 DEF HeadersOk, Sent
  <2>7. fpJob.info /\ ~WithNfs(fpJob) => d.attributes = src.attributes \ {"R"}
    <3>1. "unset" \notin src.attributes
      BY JobIsKnown DEF IsSource
    <3> QED BY <2>5, <2>6, <3>1 DEF AttributesGiven
  <2>8. /\ SendsAccess(fpJob) => Says(fpJob, t, h.permission, Table(src.to))
        /\ KeepsMode(fpJob) /\ ~ToDisk(fpJob) => h.owner = src.owner /\ h.mode = src.mode
    BY <2>3 DEF HeadersOk, Sent
  <2> HIDE DEF d
  <2>9. /\ OnlyIts(t) /\ CacheIsSound'
        /\ fpPc'[t] = "done" /\ fpHeaders'[t] = h /\ fpDst'[t] = d
        /\ fpLive'[t] = fpLive[t] /\ fpRead'[t] = fpRead[t]
    BY <2>1, SameCache DEF Goto, OnlyIts, FPIInv
  <2>10. TransferOk(fpJob, t, "done", fpLive[t], fpRead[t], h, d, Table(src.to))
    <3>1. RouteOk(fpJob, t, "done") /\ DiskOk(fpJob, t, "done", fpLive[t], d)
      BY <1>0 DEF RouteOk, DiskOk, FpSteps, AtSender, AtDownloader, Sent
    <3>2. FailureOk(fpJob, t, "done", fpLive[t], fpRead[t], d)
      BY <1>0, Its DEF TransferOk, FailureOk
    <3>3. HeadersOk(fpJob, t, "done", h, Table(src.to))
      BY <2>3 DEF HeadersOk, Sent
    <3>4. SentOk(fpJob, t, "done", fpLive[t], h, d, Table(src.to))
      <4>1. /\ SendsAccess(fpJob) => Says(fpJob, t, d.permission, Table(src.to))
            /\ KeepsMode(fpJob) => d.owner = src.owner /\ d.mode = src.mode
            /\ fpJob.info => d.written = "source" /\ d.created = "source"
        BY <1>0, <2>4, <2>5, <2>6, <2>8
      <4> HIDE DEF h, src
      <4> QED BY <1>0, <2>7, <4>1 DEF SentOk, Sent, src
    <3> QED BY <3>1, <3>2, <3>3, <3>4 DEF TransferOk
  <2> QED BY <2>1, <2>9, <2>10, OneMoves
<1> QED BY <1>1, <1>2

(* SetFolderProperties, ste/sender-azureFile.go.                           *)
LEMMA SetFolderPropertiesKeeps ==
    ASSUME FPIInv, NEW t \in FpTransfers, SetFolderProperties(t)
    PROVE  FPIInv'
<1> DEFINE src == fpJob.source[t]
           h == fpHeaders[t]
           d == [h EXCEPT !.attributes = AttributesGiven(h)]
<1>0. fpPc[t] = "folder" /\ ~ToDisk(fpJob) /\ src.folder
  BY Its DEF SetFolderProperties, TransferOk, RouteOk, AtSender
<1>1. CASE FailTransfer(t) /\ UNCHANGED fpRead
  BY <1>1, FailKeeps
<1>2. CASE ~(FailTransfer(t) /\ UNCHANGED fpRead)
  <2>1. /\ fpDst' = [fpDst EXCEPT ![t] = d]
        /\ Goto(t, "done") /\ UNCHANGED <<fpJob, fpLive, fpRead, fpHeaders, fpTexts, fpCache>>
    BY <1>2 DEF SetFolderProperties
  <2>2. HeadersOk(fpJob, t, "folder", h, Table(src.to))
    BY <1>0, Its DEF TransferOk
  <2>3. /\ d.permission = h.permission /\ d.owner = h.owner /\ d.mode = h.mode
        /\ d.written = h.written /\ d.created = h.created /\ d.attributes = AttributesGiven(h)
    BY <2>2 DEF HeadersOk, HeaderFields
  <2>4. fpJob.info => h.created = "source" /\ (~WithNfs(fpJob) => h.attributes = src.attributes \ {})
    BY <2>2 DEF HeadersOk, Sent
  <2>5. fpJob.info /\ ~WithNfs(fpJob) => d.attributes = src.attributes
    <3>1. "unset" \notin src.attributes
      BY JobIsKnown DEF IsSource
    <3> QED BY <2>3, <2>4, <3>1 DEF AttributesGiven
  <2>6. /\ SendsAccess(fpJob) => Says(fpJob, t, h.permission, Table(src.to))
        /\ KeepsMode(fpJob) /\ ~ToDisk(fpJob) => h.owner = src.owner /\ h.mode = src.mode
    BY <2>2 DEF HeadersOk
  <2> HIDE DEF d
  <2>7. /\ OnlyIts(t) /\ CacheIsSound'
        /\ fpPc'[t] = "done" /\ fpHeaders'[t] = h /\ fpDst'[t] = d
        /\ fpLive'[t] = fpLive[t] /\ fpRead'[t] = fpRead[t]
    BY <2>1, SameCache DEF Goto, OnlyIts, FPIInv
  <2>8. TransferOk(fpJob, t, "done", fpLive[t], fpRead[t], h, d, Table(src.to))
    <3>1. RouteOk(fpJob, t, "done") /\ DiskOk(fpJob, t, "done", fpLive[t], d)
      BY <1>0 DEF RouteOk, DiskOk, FpSteps, AtSender, AtDownloader, Sent
    <3>2. FailureOk(fpJob, t, "done", fpLive[t], fpRead[t], d)
      BY <1>0, Its DEF TransferOk, FailureOk
    <3>3. HeadersOk(fpJob, t, "done", h, Table(src.to))
      BY <2>2 DEF HeadersOk, Sent
    <3>4. SentOk(fpJob, t, "done", fpLive[t], h, d, Table(src.to))
      <4>1. /\ SendsAccess(fpJob) => Says(fpJob, t, d.permission, Table(src.to))
            /\ KeepsMode(fpJob) => d.owner = src.owner /\ d.mode = src.mode
            /\ fpJob.info => d.created = "source"
        BY <1>0, <2>3, <2>4, <2>6
      <4>2. src.attributes \ {} = src.attributes
        OBVIOUS
      <4> HIDE DEF h, src
      <4> QED BY <1>0, <2>5, <4>1, <4>2 DEF SentOk, Sent, src
    <3> QED BY <3>1, <3>2, <3>3, <3>4 DEF TransferOk
  <2> QED BY <2>1, <2>7, <2>8, OneMoves
<1> QED BY <1>1, <1>2

(* Cleanup, ste/sender-azureFile.go: a file that failed is removed.        *)
LEMMA CleanUpKeeps ==
    ASSUME FPIInv, NEW t \in FpTransfers, CleanUp(t)
    PROVE  FPIInv'
<1> DEFINE d == IF ToDisk(fpJob) \/ fpJob.source[t].folder THEN fpDst[t] ELSE NotThere
<1>1. fpPc[t] = "cleanup" /\ fpLive[t] = FALSE
  BY Its DEF CleanUp, TransferOk, FailureOk
<1>2. /\ fpDst' = [fpDst EXCEPT ![t] = d]
      /\ Goto(t, "done") /\ UNCHANGED <<fpJob, fpLive, fpRead, fpHeaders, fpTexts, fpCache>>
  BY DEF CleanUp, Downloading, ToDisk, Src
<1> HIDE DEF d
<1>3. /\ OnlyIts(t) /\ CacheIsSound' /\ fpPc'[t] = "done" /\ fpDst'[t] = d
  BY <1>2, SameCache DEF Goto, OnlyIts, FPIInv
<1>4. TransferOk(fpJob, t, "done", FALSE, fpRead[t], fpHeaders[t], d, Table(fpJob.source[t].to))
  <2>1. RouteOk(fpJob, t, "done") /\ FailureOk(fpJob, t, "done", FALSE, fpRead[t], d)
    BY <1>1, Its DEF TransferOk, RouteOk, FailureOk, FpSteps, AtSender, AtDownloader, Sent, d
  <2>2. HeadersOk(fpJob, t, "done", fpHeaders[t], Table(fpJob.source[t].to))
    BY <1>1, Its DEF TransferOk, HeadersOk, Sent
  <2>3. SentOk(fpJob, t, "done", FALSE, fpHeaders[t], d, Table(fpJob.source[t].to))
    BY DEF SentOk, Ended, Sent
  <2>4. DiskOk(fpJob, t, "done", FALSE, d)
    BY Its DEF TransferOk, DiskOk, Ended, d
  <2> QED BY <2>1, <2>2, <2>3, <2>4 DEF TransferOk
<1> QED BY <1>1, <1>2, <1>3, <1>4, OneMoves

(* A downloader that has done something to what is on the disk. *)
LEMMA DownloaderKeeps ==
    ASSUME FPIInv, NEW t \in FpTransfers, NEW step \in {"mode", "properties", "attributes", "done"}, NEW d,
           ToDisk(fpJob), fpLive[t] = TRUE,
           fpDst' = [fpDst EXCEPT ![t] = d], Goto(t, step),
           UNCHANGED <<fpJob, fpLive, fpRead, fpHeaders, fpTexts, fpCache>>,
           step = "mode" => WithNfs(fpJob) /\ fpJob.permissions # "none",
           step = "attributes" => fpJob.info /\ ~WithNfs(fpJob),
           DiskOk(fpJob, t, step, TRUE, d)
    PROVE  FPIInv'
<1>1. OnlyIts(t) /\ CacheIsSound' /\ fpPc'[t] = step /\ fpDst'[t] = d
  BY SameCache DEF Goto, OnlyIts, FPIInv
<1>2. TransferOk(fpJob, t, step, TRUE, fpRead[t], fpHeaders[t], d, Table(fpJob.source[t].to))
  <2>1. RouteOk(fpJob, t, step)
    BY DEF RouteOk, FpSteps, AtSender, AtDownloader, Sent
  <2>2. FailureOk(fpJob, t, step, TRUE, fpRead[t], d)
    BY Its DEF TransferOk, FailureOk
  <2>3. HeadersOk(fpJob, t, step, fpHeaders[t], Table(fpJob.source[t].to))
    BY Its DEF TransferOk, HeadersOk, SendsAccess, Sent
  <2>4. SentOk(fpJob, t, step, TRUE, fpHeaders[t], d, Table(fpJob.source[t].to))
    BY DEF SentOk, Sent
  <2> QED BY <2>1, <2>2, <2>3, <2>4 DEF TransferOk
<1> QED BY <1>1, <1>2, OneMoves

(* A transfer that sets what a disk keeps has not failed.                  *)
LEMMA AtDisk ==
    ASSUME FPIInv, NEW t \in FpTransfers, ToDisk(fpJob), fpPc[t] \notin {"cleanup", "done"}
    PROVE  fpLive[t] = TRUE /\ DiskOk(fpJob, t, fpPc[t], TRUE, fpDst[t])
BY Its DEF TransferOk, FailureOk

(* PutSDDL, ste/downloader-azureFiles_linux.go.                            *)
LEMMA PutSDDLKeeps ==
    ASSUME FPIInv, NEW t \in FpTransfers, PutSDDL(t)
    PROVE  FPIInv'
<1> DEFINE text == fpHeaders[t].permission.text
           given == SecurityDescriptorFromString(text)
           sd == WithControl(given)
           withOwner == fpJob.permissions = "ownership"
           written == SetSecurityObject(fpDst[t].sd, withOwner, sd)
           d == [fpDst[t] EXCEPT !.sd = written]
<1>0. /\ fpPc[t] = "set" /\ ToDisk(fpJob) /\ ~WithNfs(fpJob)
      /\ text = SharePermissions[fpJob.source[t].from][fpJob.source[t].key] /\ fpJob.source[t].key # 0
  BY Its DEF PutSDDL, TransferOk, RouteOk, HeadersOk, AtDownloader
<1>1. CASE FailTransfer(t) /\ UNCHANGED fpRead
  BY <1>1, FailKeeps
<1>2. CASE FpPanics
  BY <1>2, NothingMoves DEF FpPanics
<1>3. CASE /\ SecurityDescriptorFromStringKind(text) = "ok"
           /\ fpDst' = [fpDst EXCEPT ![t].sd = written]
           /\ Goto(t, "properties") /\ UNCHANGED <<fpJob, fpLive, fpRead, fpHeaders, fpTexts, fpCache>>
  <2>1. fpLive[t] = TRUE /\ DOMAIN fpDst[t] = DiskFields /\ fpDst[t].sd = OfADisk
    BY <1>0, AtDisk DEF DiskOk
  <2>2. fpDst' = [fpDst EXCEPT ![t] = d]
    BY <1>3
  <2>3. DOMAIN d = DiskFields /\ d.sd = written
    BY <2>1 DEF DiskFields
  <2>4. /\ given.owner = MeantBy(fpJob, t).owner /\ given.group = MeantBy(fpJob, t).group
        /\ given.flags = MeantBy(fpJob, t).flags /\ given.dacl = MeantBy(fpJob, t).dacl
    <3>1. IsText(text) /\ Meaning(text) = MeantBy(fpJob, t)
      BY <1>0, TextOfKey
    <3> HIDE DEF text
    <3> QED BY <1>3, <3>1, TextIsRead
  <2>5. LetsIn(fpJob, t, written)
    <3>1. DOMAIN given = {"present", "owner", "group", "flags", "dacl"}
      BY DEF SecurityDescriptorFromString
    <3> HIDE DEF given, text
    <3>2. /\ sd.owner = given.owner /\ sd.group = given.group /\ sd.dacl = given.dacl
          /\ sd.flags = given.flags \cup (IF "AI" \in given.flags THEN {"AR"} ELSE {})
                                    \cup (IF fpJob.atRoot THEN {"P"} ELSE {})
      BY <3>1 DEF WithControl
    <3> HIDE DEF sd
    <3>3. DOMAIN OfADisk = {"owner", "group", "present", "flags", "dacl"}
      BY DEF OfADisk
    <3>4. /\ written.dacl = sd.dacl
          /\ written.flags = (sd.flags \cap {"P"}) \cup (IF {"AI", "AR"} \subseteq sd.flags THEN {"AI"} ELSE {})
          /\ written.owner = IF withOwner THEN sd.owner ELSE OfADisk.owner
          /\ written.group = IF withOwner THEN sd.group ELSE OfADisk.group
      BY <2>1, <3>3 DEF SetSecurityObject
    <3> HIDE DEF written
    <3>5. ("AI" \in written.flags <=> "AI" \in given.flags)
          /\ ("P" \in written.flags <=> "P" \in given.flags \/ fpJob.atRoot)
      BY <3>2, <3>4
    <3>6. written.flags \cap {"AI"} = given.flags \cap {"AI"}
      BY <3>5
    <3> QED BY <2>4, <3>2, <3>4, <3>5, <3>6 DEF LetsIn
  <2> HIDE DEF d, written
  <2>6. DiskOk(fpJob, t, "properties", TRUE, d)
    BY <1>0, <2>3, <2>5 DEF DiskOk, Ended, KeepsMode, WithNfs
  <2> QED BY <1>0, <1>3, <2>1, <2>2, <2>6, DownloaderKeeps
<1> QED BY <1>1, <1>2, <1>3 DEF PutSDDL

(* PutNFSPermissions, ste/downloader-azureFiles_linux.go: owner and group. *)
LEMMA PutNFSOwnerKeeps ==
    ASSUME FPIInv, NEW t \in FpTransfers, PutNFSOwner(t)
    PROVE  FPIInv'
<1> DEFINE d == [fpDst[t] EXCEPT !.owner = IF fpJob.permissions = "none" THEN @ ELSE Src(t).owner]
           step == IF fpJob.permissions = "none" THEN "properties" ELSE "mode"
<1>0. fpPc[t] = "permissions" /\ ToDisk(fpJob) /\ WithNfs(fpJob)
  BY DEF PutNFSOwner, Ready, OverNFS, WithNfs, Downloading, ToDisk
<1>1. CASE FailTransfer(t) /\ UNCHANGED fpRead
  BY <1>1, FailKeeps
<1>2. CASE ~(FailTransfer(t) /\ UNCHANGED fpRead)
  <2>1. /\ fpDst' = [fpDst EXCEPT ![t] = d]
        /\ Goto(t, step) /\ UNCHANGED <<fpJob, fpLive, fpRead, fpHeaders, fpTexts, fpCache>>
    BY <1>2 DEF PutNFSOwner
  <2>2. fpLive[t] = TRUE /\ DOMAIN fpDst[t] = DiskFields
    BY <1>0, AtDisk DEF DiskOk
  <2>3. DOMAIN d = DiskFields /\ (fpJob.permissions # "none" => d.owner = fpJob.source[t].owner)
    BY <2>2 DEF DiskFields, Src
  <2> HIDE DEF d
  <2>4. DiskOk(fpJob, t, step, TRUE, d)
    BY <1>0, <2>3 DEF DiskOk, Ended, KeepsMode, RestoresAccess
  <2> QED BY <1>0, <2>1, <2>2, <2>4, DownloaderKeeps
<1> QED BY <1>1, <1>2

(* PutNFSPermissions, ste/downloader-azureFiles_linux.go: the mode.        *)
LEMMA PutNFSModeKeeps ==
    ASSUME FPIInv, NEW t \in FpTransfers, PutNFSMode(t)
    PROVE  FPIInv'
<1> DEFINE bits == Src(t).mode \cap {"r", "w"}
           d == [fpDst[t] EXCEPT !.mode = bits]
<1>0. fpPc[t] = "mode" /\ ToDisk(fpJob) /\ WithNfs(fpJob)
  BY Its DEF PutNFSMode, TransferOk, RouteOk, AtDownloader
<1>1. CASE FailTransfer(t) /\ UNCHANGED fpRead
  BY <1>1, FailKeeps
<1>2. CASE ~(FailTransfer(t) /\ UNCHANGED fpRead)
  <2>1. /\ fpDst' = [fpDst EXCEPT ![t] = d]
        /\ Goto(t, "properties") /\ UNCHANGED <<fpJob, fpLive, fpRead, fpHeaders, fpTexts, fpCache>>
    BY <1>2 DEF PutNFSMode
  <2>2. /\ fpLive[t] = TRUE /\ DOMAIN fpDst[t] = DiskFields
        /\ KeepsMode(fpJob) => fpDst[t].owner = fpJob.source[t].owner
    BY <1>0, AtDisk DEF DiskOk
  <2>3. bits = fpJob.source[t].mode \ {"s"}
    <3>1. fpJob.source[t].mode \subseteq {"r", "w", "s"}
      BY JobIsKnown DEF IsSource
    <3> QED BY <3>1 DEF Src
  <2> HIDE DEF bits
  <2>4. DOMAIN d = DiskFields /\ d.owner = fpDst[t].owner /\ d.mode = bits
    BY <2>2 DEF DiskFields
  <2> HIDE DEF d
  <2>5. DiskOk(fpJob, t, "properties", TRUE, d)
    BY <1>0, <2>2, <2>3, <2>4 DEF DiskOk, Ended, RestoresAccess
  <2> QED BY <1>0, <2>1, <2>2, <2>5, DownloaderKeeps
<1> QED BY <1>1, <1>2

(* PutSMBProperties, ste/downloader-azureFiles_linux.go: the times.        *)
LEMMA PutDatesKeeps ==
    ASSUME FPIInv, NEW t \in FpTransfers, PutDates(t)
    PROVE  FPIInv'
<1> DEFINE old == fpDst[t]
           dated == [old EXCEPT !.written = IF OverNFS \/ TransfersWriteTime(t) THEN "source" ELSE @,
                                !.created = IF OverNFS THEN @ ELSE "source"]
           d == IF fpJob.info THEN dated ELSE old
           step == IF fpJob.info /\ ~OverNFS THEN "attributes" ELSE "done"
<1>0. fpPc[t] = "properties" /\ ToDisk(fpJob)
  BY DEF PutDates, Downloading, ToDisk
<1>1. CASE FailTransfer(t) /\ UNCHANGED fpRead
  BY <1>1, FailKeeps
<1>2. CASE ~(FailTransfer(t) /\ UNCHANGED fpRead)
  <2>1. /\ fpDst' = [fpDst EXCEPT ![t] = d]
        /\ Goto(t, step) /\ UNCHANGED <<fpJob, fpLive, fpRead, fpHeaders, fpTexts, fpCache>>
    BY <1>2 DEF PutDates
  <2>2. fpLive[t] = TRUE /\ DiskOk(fpJob, t, "properties", TRUE, old)
    BY <1>0, AtDisk
  <2>3. DOMAIN old = DiskFields
    BY <1>0, <2>2 DEF DiskOk
  <2>4. DOMAIN d = DiskFields /\ d.sd = old.sd /\ d.owner = old.owner /\ d.mode = old.mode
    BY <2>3 DEF DiskFields
  <2>5. fpJob.info => /\ ~fpJob.source[t].folder => d.written = "source"
                      /\ ~WithNfs(fpJob) => d.created = "source"
    BY <2>3 DEF DiskFields, TransfersWriteTime, Src, OverNFS, WithNfs
  <2>6. /\ step \in {"attributes", "done"}
        /\ step = "attributes" <=> fpJob.info /\ ~WithNfs(fpJob)
    BY DEF OverNFS, WithNfs
  <2> HIDE DEF d, step, old
  <2>7. DiskOk(fpJob, t, step, TRUE, d)
    BY <1>0, <2>2, <2>4, <2>5, <2>6 DEF DiskOk, Ended
  <2> QED BY <1>0, <2>1, <2>2, <2>6, <2>7, DownloaderKeeps
<1> QED BY <1>1, <1>2

(* PutSMBProperties, ste/downloader-azureFiles_linux.go: the attributes.   *)
LEMMA PutAttributesKeeps ==
    ASSUME FPIInv, NEW t \in FpTransfers, PutAttributes(t)
    PROVE  FPIInv'
<1> DEFINE d == [fpDst[t] EXCEPT !.attributes = Src(t).attributes]
<1>0. fpPc[t] = "attributes" /\ ToDisk(fpJob) /\ fpJob.info
  BY Its DEF PutAttributes, TransferOk, RouteOk, AtDownloader
<1>1. CASE FailTransfer(t) /\ UNCHANGED fpRead
  BY <1>1, FailKeeps
<1>2. CASE ~(FailTransfer(t) /\ UNCHANGED fpRead)
  <2>1. /\ fpDst' = [fpDst EXCEPT ![t] = d]
        /\ Goto(t, "done") /\ UNCHANGED <<fpJob, fpLive, fpRead, fpHeaders, fpTexts, fpCache>>
    BY <1>2 DEF PutAttributes
  <2>2. fpLive[t] = TRUE /\ DiskOk(fpJob, t, "attributes", TRUE, fpDst[t])
    BY <1>0, AtDisk
  <2>3. DOMAIN fpDst[t] = DiskFields
    BY <1>0, <2>2 DEF DiskOk
  <2>4. /\ DOMAIN d = DiskFields /\ d.sd = fpDst[t].sd /\ d.owner = fpDst[t].owner /\ d.mode = fpDst[t].mode
        /\ d.written = fpDst[t].written /\ d.created = fpDst[t].created
        /\ d.attributes = fpJob.source[t].attributes
    BY <2>3 DEF DiskFields, Src
  <2> HIDE DEF d
  <2>5. DiskOk(fpJob, t, "done", TRUE, d)
    BY <1>0, <2>2, <2>4 DEF DiskOk, Ended
  <2> QED BY <1>0, <2>1, <2>2, <2>5, DownloaderKeeps
<1> QED BY <1>1, <1>2

-----------------------------------------------------------------------------
(* Every job starts with nothing sent and an empty cache.                  *)
LEMMA FPStarts == FPInit => FPIInv
<1> SUFFICES ASSUME FPInit PROVE FPIInv
  OBVIOUS
<1>1. /\ fpJob \in FpJobs /\ fpCache = {} /\ fpTexts = [s \in Shares |-> <<>>]
      /\ DOMAIN fpPc = FpTransfers /\ DOMAIN fpLive = FpTransfers /\ DOMAIN fpRead = FpTransfers
      /\ DOMAIN fpHeaders = FpTransfers /\ DOMAIN fpDst = FpTransfers
  BY DEF FPInit, NothingPreserved
<1>2. fpTexts \in [Shares -> Seq(KnownTexts(fpJob))]
  <2>1. <<>> \in Seq(KnownTexts(fpJob))
    OBVIOUS
  <2> QED BY <1>1, <2>1
<1>3. ASSUME NEW t \in FpTransfers PROVE TransferInv(t)
  <2>1. /\ fpPc[t] \in {"backend", "permissions", "done"} /\ (fpPc[t] = "done" <=> fpJob.source[t].absent)
        /\ fpPc[t] = "backend" => IsCopy(fpJob)
        /\ fpLive[t] = TRUE /\ fpRead[t] = "no" /\ fpHeaders[t] = NothingSet
        /\ fpDst[t] = IF ToDisk(fpJob) THEN NewOnDisk ELSE NotThere
    BY DEF FPInit, NothingPreserved, IsCopy, ToDisk
  <2>2. DOMAIN NothingSet = HeaderFields /\ NothingSet.permission = Inherited
    BY DEF NothingSet, HeaderFields
  <2>3. DOMAIN NewOnDisk = DiskFields /\ NewOnDisk.sd = OfADisk
    BY DEF NewOnDisk, DiskFields
  <2>4. RouteOk(fpJob, t, fpPc[t])
    BY <2>1 DEF RouteOk, FpSteps, AtSender, AtDownloader, Sent, IsCopy, ToDisk
  <2>5. FailureOk(fpJob, t, fpPc[t], fpLive[t], fpRead[t], fpDst[t])
    BY <2>1 DEF FailureOk
  <2>6. HeadersOk(fpJob, t, fpPc[t], fpHeaders[t], Table(fpJob.source[t].to))
    BY <2>1, <2>2 DEF HeadersOk, Sent
  <2>7. SentOk(fpJob, t, fpPc[t], fpLive[t], fpHeaders[t], fpDst[t], Table(fpJob.source[t].to))
    BY <2>1 DEF SentOk, Ended, Sent
  <2>8. DiskOk(fpJob, t, fpPc[t], fpLive[t], fpDst[t])
    BY <2>1, <2>3 DEF DiskOk, Ended
  <2> QED BY <2>4, <2>5, <2>6, <2>7, <2>8 DEF TransferInv, TransferOk
<1>4. CacheIsSound
  BY <1>1 DEF CacheIsSound
<1> QED BY <1>1, <1>2, <1>3, <1>4 DEF FPIInv

(* Every step of a transfer.                                               *)
LEMMA FPStep == FPIInv /\ [FPNext]_fpVars => FPIInv'
<1> SUFFICES ASSUME FPIInv, [FPNext]_fpVars PROVE FPIInv'
  OBVIOUS
<1>1. CASE UNCHANGED fpVars
  BY <1>1, NothingMoves DEF fpVars
<1>2. CASE FPNext
  <2>1. PICK t \in FpTransfers :
           \/ GetProperties(t)
           \/ GetPropertiesFails(t)
           \/ PropertiesInBackend(t)
           \/ NoPermissions(t)
           \/ UseTheKey(t)
           \/ GetLocalSDDL(t)
           \/ GetSDDLFromCache(t)
           \/ GetSDDLFromID(t)
           \/ PutSDDLFromCache(t)
           \/ PutSDDLMisses(t)
           \/ CreatePermission(t)
           \/ NFSPermissions(t)
           \/ PropertiesToHeaders(t)
           \/ Create(t)
           \/ PutRanges(t)
           \/ SenderEpilogue(t)
           \/ SetFolderProperties(t)
           \/ CleanUp(t)
           \/ PutSDDL(t)
           \/ PutNFSOwner(t)
           \/ PutNFSMode(t)
           \/ PutDates(t)
           \/ PutAttributes(t)
    BY <1>2 DEF FPNext
  <2>2. CASE GetProperties(t) BY <2>2, GetPropertiesKeeps
  <2>3. CASE GetPropertiesFails(t) BY <2>3, GetPropertiesFailsKeeps
  <2>4. CASE PropertiesInBackend(t) BY <2>4, PropertiesInBackendKeeps
  <2>5. CASE NoPermissions(t) BY <2>5, NoPermissionsKeeps
  <2>6. CASE UseTheKey(t) BY <2>6, UseTheKeyKeeps
  <2>7. CASE GetLocalSDDL(t) BY <2>7, GetLocalSDDLKeeps
  <2>8. CASE GetSDDLFromCache(t) BY <2>8, GetSDDLFromCacheKeeps
  <2>9. CASE GetSDDLFromID(t) BY <2>9, GetSDDLFromIDKeeps
  <2>10. CASE PutSDDLFromCache(t) BY <2>10, PutSDDLFromCacheKeeps
  <2>11. CASE PutSDDLMisses(t) BY <2>11, PutSDDLMissesKeeps
  <2>12. CASE CreatePermission(t) BY <2>12, CreatePermissionKeeps
  <2>13. CASE NFSPermissions(t) BY <2>13, NFSPermissionsKeeps
  <2>14. CASE PropertiesToHeaders(t) BY <2>14, PropertiesToHeadersKeeps
  <2>15. CASE Create(t) BY <2>15, CreateKeeps
  <2>16. CASE PutRanges(t) BY <2>16, PutRangesKeeps
  <2>17. CASE SenderEpilogue(t) BY <2>17, SenderEpilogueKeeps
  <2>18. CASE SetFolderProperties(t) BY <2>18, SetFolderPropertiesKeeps
  <2>19. CASE CleanUp(t) BY <2>19, CleanUpKeeps
  <2>20. CASE PutSDDL(t) BY <2>20, PutSDDLKeeps
  <2>21. CASE PutNFSOwner(t) BY <2>21, PutNFSOwnerKeeps
  <2>22. CASE PutNFSMode(t) BY <2>22, PutNFSModeKeeps
  <2>23. CASE PutDates(t) BY <2>23, PutDatesKeeps
  <2>24. CASE PutAttributes(t) BY <2>24, PutAttributesKeeps
  <2> QED BY <2>1, <2>2, <2>3, <2>4, <2>5, <2>6, <2>7, <2>8, <2>9, <2>10, <2>11, <2>12, <2>13, <2>14, <2>15, <2>16, <2>17, <2>18, <2>19, <2>20, <2>21, <2>22, <2>23, <2>24
<1> QED BY <1>1, <1>2

(* The invariant has what the transfers promise.                           *)
LEMMA FPMeans == FPIInv => FilePropertiesInv
<1> SUFFICES ASSUME FPIInv PROVE FilePropertiesInv
  OBVIOUS
<1>1. ASSUME NEW t \in FpTransfers, Delivered(t)
      PROVE  Ended(fpJob, t, fpPc[t], fpLive[t]) /\ fpPc[t] = "done"
  BY <1>1 DEF Delivered, Ended, Src
<1>2. AccessIsSent
  <2>1. SUFFICES ASSUME NEW t \in FpTransfers,
                        Delivered(t) /\ ~Downloading /\ ~OverNFS /\ fpJob.permissions # "none"
                 PROVE  IF Copying /\ Src(t).key = 0 THEN fpDst[t].permission = Inherited
                        ELSE /\ fpDst[t].permission.how # "inherit"
                             /\ Meaning(TextOf(fpDst[t].permission, DstShare(t))) =
                                  IF Copying THEN MeantBySource(t)
                                  ELSE [owner |-> Src(t).sd.owner, group |-> Src(t).sd.group,
                                        flags |-> Src(t).sd.flags, dacl |-> Src(t).sd.dacl]
    BY DEF AccessIsSent
  <2>2. SendsAccess(fpJob) /\ ~ToDisk(fpJob)
    BY <2>1 DEF SendsAccess, Downloading, ToDisk, OverNFS, WithNfs
  <2>3. Says(fpJob, t, fpDst[t].permission, Table(fpJob.source[t].to))
    BY <1>1, <2>1, <2>2, Its DEF TransferOk, SentOk
  <2>4. TextOf(fpDst[t].permission, DstShare(t)) =
          IF fpDst[t].permission.how = "key" THEN Table(fpJob.source[t].to)[fpDst[t].permission.key]
          ELSE fpDst[t].permission.text
    BY DEF TextOf, DstShare, Src
  <2>5. WantedBy(fpJob, t) = IF Copying THEN MeantBySource(t)
                             ELSE [owner |-> Src(t).sd.owner, group |-> Src(t).sd.group,
                                   flags |-> Src(t).sd.flags, dacl |-> Src(t).sd.dacl]
    BY DEF WantedBy, MeantBy, MeantBySource, SrcShare, Src, Copying, IsCopy
  <2> QED BY <2>3, <2>4, <2>5 DEF Says, IsCopy, Copying, Src
<1>3. AccessIsRestored
  <2>1. ASSUME NEW t \in FpTransfers, Delivered(t) /\ Downloading /\ ~OverNFS
                                        /\ fpJob.permissions # "none" /\ Src(t).key # 0
        PROVE  LetsIn(fpJob, t, fpDst[t].sd)
    <3>1. RestoresAccess(fpJob, t) /\ ToDisk(fpJob)
      BY <2>1 DEF RestoresAccess, Downloading, ToDisk, OverNFS, WithNfs, Src
    <3> QED BY <1>1, <2>1, <3>1, Its DEF TransferOk, DiskOk
  <2>2. \A t : MeantBySource(t) = MeantBy(fpJob, t)
    BY DEF MeantBySource, MeantBy, SrcShare, Src
  <2> QED BY <2>1, <2>2 DEF AccessIsRestored, LetsIn
<1>4. InfoIsKept
  <2>1. SUFFICES ASSUME NEW t \in FpTransfers, Delivered(t), fpJob.info
                 PROVE  /\ ~Src(t).folder => fpDst[t].written = "source"
                        /\ ~(Downloading /\ OverNFS) => fpDst[t].created = "source"
                        /\ ~OverNFS => fpDst[t].attributes =
                             Src(t).attributes \ (IF Downloading \/ Src(t).folder THEN {} ELSE {"R"})
    BY DEF InfoIsKept
  <2>2. CASE ToDisk(fpJob)
    <3>1. /\ ~Src(t).folder => fpDst[t].written = "source"
          /\ ~WithNfs(fpJob) => fpDst[t].created = "source" /\ fpDst[t].attributes = Src(t).attributes
      BY <1>1, <2>1, <2>2, Its DEF TransferOk, DiskOk, Src
    <3>2. Src(t).attributes \ {} = Src(t).attributes
      OBVIOUS
    <3> QED BY <2>2, <3>1, <3>2 DEF Downloading, ToDisk, OverNFS, WithNfs
  <2>3. CASE ~ToDisk(fpJob)
    <3>1. /\ ~Src(t).folder => fpDst[t].written = "source"
          /\ fpDst[t].created = "source"
          /\ ~WithNfs(fpJob) => fpDst[t].attributes = Src(t).attributes \ (IF Src(t).folder THEN {} ELSE {"R"})
      BY <1>1, <2>1, <2>3, Its DEF TransferOk, SentOk, Src
    <3> QED BY <2>3, <3>1 DEF Downloading, ToDisk, OverNFS, WithNfs
  <2> QED BY <2>2, <2>3
<1>5. ModeIsKept
  <2>1. SUFFICES ASSUME NEW t \in FpTransfers,
                        Delivered(t) /\ fpJob.fromNFS /\ fpJob.toNFS /\ fpJob.permissions # "none"
                 PROVE  /\ fpDst[t].owner = Src(t).owner
                        /\ fpDst[t].mode = Src(t).mode \ (IF Downloading THEN {"s"} ELSE {})
    BY DEF ModeIsKept
  <2>2. KeepsMode(fpJob)
    BY <2>1 DEF KeepsMode
  <2>3. CASE ToDisk(fpJob)
    BY <1>1, <2>1, <2>2, <2>3, Its DEF TransferOk, DiskOk, Src, Downloading, ToDisk
  <2>4. CASE ~ToDisk(fpJob)
    <3>1. fpDst[t].owner = Src(t).owner /\ fpDst[t].mode = Src(t).mode
      BY <1>1, <2>1, <2>2, <2>4, Its DEF TransferOk, SentOk, Src
    <3>2. Src(t).mode \ {} = Src(t).mode
      OBVIOUS
    <3> QED BY <2>4, <3>1, <3>2 DEF Downloading, ToDisk
  <2> QED BY <2>3, <2>4
<1>6. NoHalfSentFile
  BY Its DEF NoHalfSentFile, TransferOk, FailureOk, Src, Downloading, ToDisk
<1> QED BY <1>2, <1>3, <1>4, <1>5, <1>6 DEF FilePropertiesInv

(* Who may do what with an object, its attributes and its times are at the *)
(* destination of every transfer that succeeded what they were at the      *)
(* source, and no file is left half sent, whatever the shares and the      *)
(* sources, whichever calls fail and however the transfers of a job use    *)
(* each other's keys (ste/sender-azureFile.go, securityInfoPersistence-    *)
(* Manager.go, downloader-azureFiles_linux.go).                            *)
THEOREM FilePropertiesInvHolds == FPSpec => []FilePropertiesInv
<1>1. FPSpec => []FPIInv
  BY FPStarts, FPStep, PTL DEF FPSpec
<1> QED BY <1>1, FPMeans, PTL

-----------------------------------------------------------------------------
(* Runs.                                                                   *)
(* The command line of a copy never changes.                               *)
LEMMA CopiesAreAsked == CCSpec => [](asked \in Asked)
<1>1. CCInit => asked \in Asked
  BY DEF CCInit
<1>2. asked \in Asked /\ [CCNext]_ccVars => (asked \in Asked)'
  <2> SUFFICES ASSUME [CCNext]_ccVars PROVE UNCHANGED asked
    OBVIOUS
  <2>0. Reject \/ Panic => UNCHANGED asked
    BY DEF Reject, Panic, EndWith
  <2>1. ToOptions => UNCHANGED asked
    BY <2>0 DEF ToOptions
  <2>2. Validate => UNCHANGED asked
    BY <2>0 DEF Validate, EndWith
  <2>3. ProcessCommand => UNCHANGED asked
    BY <2>0 DEF ProcessCommand, EndWith
  <2>4. Redirect => UNCHANGED asked
    BY <2>0 DEF Redirect, AuthenticateTo
  <2>5. Authenticate => UNCHANGED asked
    BY <2>0 DEF Authenticate, AuthenticateTo
  <2>6. AuthenticateSource => UNCHANGED asked
    BY <2>0 DEF AuthenticateSource, AuthenticateTo
  <2>7. Enumerate => UNCHANGED asked
    BY <2>0 DEF Enumerate
  <2>8. ASSUME NEW entity, Transfer(entity) PROVE UNCHANGED asked
    BY <2>0, <2>8 DEF Transfer, EndWith
  <2> QED BY <2>1, <2>2, <2>3, <2>4, <2>5, <2>6, <2>7, <2>8 DEF CCNext, ccVars
<1> QED BY <1>1, <1>2, PTL DEF CCSpec

(* The command line of a sync never changes.                               *)
LEMMA SyncsAreAsked == SCSpec => [](asked \in SyncAsked)
<1>1. SCInit => asked \in SyncAsked
  BY DEF SCInit
<1>2. asked \in SyncAsked /\ [SCNext]_scVars => (asked \in SyncAsked)'
  <2> SUFFICES ASSUME [SCNext]_scVars PROVE UNCHANGED asked
    OBVIOUS
  <2>0. Reject \/ Panic => UNCHANGED asked
    BY DEF Reject, Panic, EndWith
  <2>1. SyncToOptions => UNCHANGED asked
    BY <2>0 DEF SyncToOptions
  <2>2. SyncValidate => UNCHANGED asked
    BY <2>0 DEF SyncValidate, EndWith
  <2>3. AuthenticateDestination => UNCHANGED asked
    BY <2>0 DEF AuthenticateDestination, AuthenticateTo
  <2>4. SyncSource => UNCHANGED asked
    BY <2>0 DEF SyncSource, AuthenticateTo
  <2>5. CheckDestination => UNCHANGED asked
    BY <2>0 DEF CheckDestination, EndWith
  <2>6. SyncEnumerate => UNCHANGED asked
    BY <2>0 DEF SyncEnumerate
  <2> QED BY <2>1, <2>2, <2>3, <2>4, <2>5, <2>6 DEF SCNext, scVars, ccVars
<1> QED BY <1>1, <1>2, PTL DEF SCSpec

(* A command, a copy or a sync, is carried out as the two ends allow, and  *)
(* so are its transfers: the invariants of the command and of what its     *)
(* transfers keep hold together (cmd/copy.go, cmd/sync.go, ste/sender-     *)
(* azureFile.go).                                                          *)
THEOREM CommandInvHolds == (CCSpec \/ SCSpec) /\ FPSpec => []CommandInv
<1>1. asked \in Asked => ~IsSync
  BY CommandsAssumption DEF IsSync
<1>2. asked \in SyncAsked => IsSync
  BY SyncAskedAssumption DEF IsSync
<1>3. asked \in Asked /\ CopyInv /\ FilePropertiesInv => CommandInv
  BY <1>1 DEF CommandInv
<1>4. asked \in SyncAsked /\ SyncCommandInv /\ FilePropertiesInv => CommandInv
  BY <1>2 DEF CommandInv
<1> QED BY <1>3, <1>4, CopiesAreAsked, SyncsAreAsked, CopyInvHolds, SyncCommandInvHolds,
           FilePropertiesInvHolds, PTL

(* A later process keeps the data of a download that has progress, and the *)
(* transfers that have succeeded (ste/xfer-remoteToLocal-file.go,          *)
(* jobsAdmin/init.go).                                                     *)
THEOREM NothingIsLostHolds == RDSpec /\ RJSpec => NothingIsLost
BY ProgressIsKept, SuccessesStay DEF NothingIsLost
=============================================================================
