------------------------------- MODULE MCRuns -------------------------------
(***************************************************************************)
(* Small instances, side by side, of what a run of the program does before *)
(* and around its transfers, and of what later processes do with what it   *)
(* left on disk (the plan files of a job, the temporary and progress files *)
(* of a download).  They share no state: chosen says which of them a       *)
(* behaviour is about, the others stay in one of their initial states.     *)
(***************************************************************************)
EXTENDS Scans, Console, Runs, MCCopyCommand, MCSyncCommand, MCFileProperties

(* top/f, top/d/g, top/d/n and out/h; the links top/k -> d, d/m -> g,      *)
(* d/l -> out, out/y -> top (a cycle) and out/z, which leads nowhere.      *)
MCInDir == [p \in ScanPaths |->
              CASE p \in {"f", "d", "k"} -> "top" [] p \in {"g", "l", "m", "n"} -> "d"
                [] p \in {"h", "y", "z"} -> "out" [] OTHER -> Nowhere]
MCLinkTo == [p \in ScanLinks |->
               CASE p = "k" -> "d" [] p = "l" -> "out" [] p = "m" -> "g" [] p = "y" -> "top"
                 [] OTHER -> Nowhere]

(* Of a service: top/s1, top/s2, top/d/s3, top/h, which is empty.         *)
MCSvIn == [p \in SvPaths |-> IF p = "s3" THEN "d" ELSE "top"]
MCSvForm == [x \in SvLeaves |->
               CASE x = "s1" -> "version" [] x = "s2" -> "deletedSnapshot" [] OTHER -> "deletedVersion"]
MCSvFileType == [x \in SvLeaves |->
                   CASE x = "s1" -> "regular" [] x = "s2" -> "special" [] OTHER -> "hardlink"]

CONSTANTS v1, v2

TwoChunks == 0 .. 1
TwoVersions == {v1, v2}

(* A part of one transfer, then one of two. *)
GrowingParts == [p \in PartNum |-> p + 1]

VARIABLE chosen

runVars == <<lsVars, svVars, cnVars, rdVars, rjVars, scVars, fpVars, chosen>>

NothingListed == <<"share", FALSE, FALSE, "none", FALSE, TRUE, OnlyAt(SvRoot, "nothing"),
                   OnlyAt(SvRoot, "nothing")>>

MCInit ==
    /\ chosen \in {"scan", "listing", "console", "download", "job", "copy", "sync",
                 "properties"}
    /\ LSInit /\ (chosen # "scan" => ~recursive /\ ~hashing /\ handling = "skip")
    /\ SVInit /\ (chosen # "listing" => svOptions = NothingListed)
    /\ CNInit /\ (chosen # "console" => ~quiet /\ kind = "resume")
    /\ RDInit /\ (chosen # "download" => ~sourceHasMd5)
    /\ RJInit
    /\ CASE chosen = "copy" -> CCInit
         [] chosen = "sync" -> SCInit
         [] OTHER -> asked = PlainCopy /\ NothingDone
    /\ NotSetUp
    /\ IF chosen = "properties" THEN FPInit ELSE fpJob = PlainJob /\ NothingPreserved

MCNext ==
    /\ UNCHANGED chosen
    /\ \/ chosen = "scan" /\ LSNext /\ UNCHANGED <<svVars, cnVars, rdVars, rjVars, scVars, fpVars>>
       \/ chosen = "listing" /\ SVNext /\ UNCHANGED <<lsVars, cnVars, rdVars, rjVars, scVars, fpVars>>
       \/ chosen = "console" /\ CNNext /\ UNCHANGED <<lsVars, svVars, rdVars, rjVars, scVars, fpVars>>
       \/ chosen = "download" /\ RDNext /\ UNCHANGED <<lsVars, svVars, cnVars, rjVars, scVars, fpVars>>
       \/ chosen = "job" /\ RJNext /\ UNCHANGED <<lsVars, svVars, cnVars, rdVars, scVars, fpVars>>
       \/ /\ chosen = "copy" /\ CCNext
          /\ UNCHANGED <<lsVars, svVars, cnVars, rdVars, rjVars, fpVars, scOwn>>
       \/ /\ chosen = "sync" /\ SCNext
          /\ UNCHANGED <<lsVars, svVars, cnVars, rdVars, rjVars, fpVars>>
       \/ /\ chosen = "properties" /\ FPNext
          /\ UNCHANGED <<lsVars, svVars, cnVars, rdVars, rjVars, scVars>>

(* The fairness of LSSpec, SVSpec, CNSpec, RDSpec and RJSpec, for the      *)
(* chosen one.                                                             *)
MCFairness ==
    LET Scan(A) == chosen = "scan" /\ ~panicked /\ A
        List(A) == chosen = "listing" /\ A
        Talk(A) == chosen = "console" /\ exit = "none" /\ A
        Job(A) == chosen = "job" /\ A
    IN /\ WF_lsVars(Scan(MainStep))
       /\ \A w \in Workers : WF_lsVars(Scan(WorkerStep(w)))
       /\ \A t \in Threads : WF_lsVars(Scan(ThreadStep(t)))
       /\ WF_svVars(List(TraverserStep))
       /\ \A w \in SvWorkers : WF_svVars(List(ListerStep(w)))
       /\ \A c \in SvConverters : WF_svVars(List(ConverterStep(c)))
       /\ WF_cnVars(Talk(PrinterStep)) /\ WF_cnVars(Talk(WatcherStep))
       /\ WF_cnVars(Talk(TakeCancel \/ CancelAnswered \/ CancelJob))
       /\ WF_cnVars(Talk(ReportProgressOrExit))
       /\ WF_cnVars(Talk(UserAnswers))
       /\ \A s \in Speakers : WF_cnVars(Talk(Ask(s)))
       /\ \A t \in Askers : WF_cnVars(Talk(TransferStep(t)))
       /\ WF_rdVars(chosen = "download" /\ DownloadStep)
       /\ WF_rdVars(chosen = "download" /\ ChunkStep)
       /\ WF_rjVars(Job(FrontEndStep)) /\ WF_rjVars(Job(PollSummary))
       /\ WF_rjVars(Job(SchedulerStep))
       /\ \A x \in JobTransfer : WF_rjVars(Job(TxStep(x)))
       /\ WF_rjVars(Job(HandleXferDone)) /\ WF_rjVars(Job(HandlerProgress))

MCSpec == MCInit /\ [][MCNext]_runVars /\ MCFairness

(* Every scan and every listing ends, every process ends when its work is done, and also one *)
(* that resumes what another has left.                                     *)
TheScanEnds == []<>(chosen = "scan" => main = "done" \/ panicked \/ HashingIsGivenUp)
TheListingEnds == []<>(chosen = "listing" => traverser = "returned")
TheProcessEnds == []<>(chosen = "job" => ~Running)

EveryRunEnds ==
    /\ TheScanEnds
    /\ TheListingEnds
    /\ FinishedProcessEnds
    /\ EveryStartEnds
    /\ TheProcessEnds
=============================================================================
