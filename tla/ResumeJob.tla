------------------------------ MODULE ResumeJob ------------------------------
(***************************************************************************)
(* A job that outlives its process.  What lasts is in the plan files: one  *)
(* per part, each with a status per transfer, and the job's status in part *)
(* 0.  They are memory-mapped, so every store is on disk the moment it is  *)
(* made, and a process that dies between two stores leaves the first.      *)
(*                                                                         *)
(*   a first process orders the job     Create, AddJobPart                 *)
(*   it dies at any point, or exits     ListJobSummary, GetJobSummary      *)
(*   "azcopy jobs resume" starts a      ResurrectJob, ResumeJobOrder,      *)
(*     new one                          ResumeTransfers                    *)
(*   in each of them a scheduler, the   ScheduleTransfers,                 *)
(*     transfers and a handler run      ReportTransferDone,                *)
(*                                      reportJobPartDoneHandler           *)
(*                                                                         *)
(* The steps inside a report and inside the handler, which other threads   *)
(* of the same process can come between, are the subject of JobMgr and are *)
(* taken together here.  A plan file is written in one step.               *)
(***************************************************************************)
EXTENDS Integers, Sequences, FiniteSets

CONSTANTS JobParts,           \* number of parts of the job
          PartTransfers,      \* number of transfers of each part, by its number
          PartsQueueSize,     \* capacity of partsChannel (10000 in the code)
          TransferResults,    \* what a transfer that is not cancelled ends with
          MaxProcesses,       \* bound: processes that work on the job
          MayCancel           \* whether the user may cancel

ASSUME ResumeAssumption ==
    /\ JobParts \in Nat /\ JobParts > 0
    /\ PartTransfers \in [0..(JobParts - 1) -> Nat]
    /\ \A p \in 0..(JobParts - 1) : PartTransfers[p] > 0
    /\ PartsQueueSize \in Nat /\ PartsQueueSize > 0
    /\ MaxProcesses \in Nat
    /\ TransferResults \subseteq {"Success", "Failed", "Skipped"}
    /\ MayCancel \in BOOLEAN

PartNum == 0..(JobParts - 1)
JobTransfer == UNION {{p} \X (0..(PartTransfers[p] - 1)) : p \in PartNum}

SettledStatuses == {"Completed", "CompletedWithErrors", "CompletedWithSkipped",
                    "CompletedWithErrorsAndSkipped", "Failed"}

IsJobDone(status) == status \in SettledStatuses \cup {"Cancelled"}

EnhancedStatus(tally) ==
    CASE tally.failed > 0 /\ tally.skipped > 0   -> "CompletedWithErrorsAndSkipped"
      [] tally.failed > 0 /\ tally.completed > 0 -> "CompletedWithErrors"
      [] tally.failed > 0                        -> "Failed"
      [] tally.skipped > 0                       -> "CompletedWithSkipped"
      [] OTHER                                   -> "Completed"

NoTally == [completed |-> 0, skipped |-> 0, failed |-> 0]

WithOutcome(tally, status) ==
    CASE status = "Success" -> [tally EXCEPT !.completed = @ + 1]
      [] status = "Failed"  -> [tally EXCEPT !.failed = @ + 1]
      [] status = "Skipped" -> [tally EXCEPT !.skipped = @ + 1]
      [] OTHER              -> tally

SumOf(a, b) ==
    [completed |-> a.completed + b.completed, skipped |-> a.skipped + b.skipped,
     failed |-> a.failed + b.failed]

VARIABLES
    \* the plan files
    partFiles,        \* parts 0..partFiles-1 have one
    jobStatus,        \* JobStatus in part 0
    txStatus,         \* TransferStatus of each transfer
    \* processes
    processes,        \* started so far
    command,          \* what the front end of the present one is doing
    \* the job manager
    partsKnown,       \* jobPartMgrs holds parts 0..partsKnown-1
    haveFinalPart,    \* atomicFinalPartOrderedIndicator
    allScheduled,     \* atomicAllTransfersScheduled
    jobCancelled,     \* the context of the job
    mapLocked,        \* ResumeTransfers holds the lock of jobPartMgrs
    \* scheduleJobParts
    queue,            \* parts on partsChannel
    toQueue,          \* parts ResumeTransfers has not come to
    current, nextTx,  \* the part taken last, or -1, and its next transfer
    \* parts and transfers
    doneOfPart,       \* atomicTransfersDone of each part
    tallyOfPart,      \* its atomicTransfersCompleted, -Skipped, -Failed
    txPc,             \* where each transfer is in this process
    toSend,           \* finished parts that wait to be reported, or {}
    \* the handler
    handler,          \* where it is
    received,         \* the message it took last
    partsReported, total,  \* parts and transfers it has counted
    \* the status manager
    unhandled,        \* transfers reported on xferDone and not handled yet
    summary           \* its summary

plan == <<partFiles, jobStatus, txStatus>>
manager == <<partsKnown, haveFinalPart, allScheduled, jobCancelled, mapLocked>>
scheduler == <<queue, toQueue, current, nextTx>>
counters == <<doneOfPart, tallyOfPart, txPc, toSend>>
handlerState == <<handler, received, partsReported, total>>
statusManager == <<unhandled, summary>>

rjVars == <<plan, processes, command, manager, scheduler, counters, handlerState,
            statusManager>>

NewSummary == [completed |-> 0, skipped |-> 0, failed |-> 0, completeJobOrdered |-> FALSE]

(* The memory of a new process. *)
FreshMemory ==
    /\ partsKnown = 0 /\ haveFinalPart = FALSE /\ allScheduled = FALSE
    /\ jobCancelled = FALSE /\ mapLocked = FALSE
    /\ queue = <<>> /\ toQueue = {} /\ current = -1 /\ nextTx = 0
    /\ doneOfPart = [p \in PartNum |-> 0]
    /\ tallyOfPart = [p \in PartNum |-> NoTally]
    /\ txPc = [x \in JobTransfer |-> "idle"]
    /\ toSend = {}
    /\ handler = "idle" /\ received = NoTally /\ partsReported = 0 /\ total = NoTally
    /\ unhandled = {} /\ summary = NewSummary

ForgetMemory ==
    /\ partsKnown' = 0 /\ haveFinalPart' = FALSE /\ allScheduled' = FALSE
    /\ jobCancelled' = FALSE /\ mapLocked' = FALSE
    /\ queue' = <<>> /\ toQueue' = {} /\ current' = -1 /\ nextTx' = 0
    /\ doneOfPart' = [p \in PartNum |-> 0]
    /\ tallyOfPart' = [p \in PartNum |-> NoTally]
    /\ txPc' = [x \in JobTransfer |-> "idle"]
    /\ toSend' = {}
    /\ handler' = "idle" /\ received' = NoTally /\ partsReported' = 0 /\ total' = NoTally
    /\ unhandled' = {} /\ summary' = NewSummary

RJInit ==
    /\ partFiles = 0 /\ jobStatus = "InProgress"
    /\ txStatus = [x \in JobTransfer |-> "Started"]
    /\ processes = 1 /\ command = "createPlan"
    /\ FreshMemory

Running == command # "down"

-----------------------------------------------------------------------------
(* The first process orders the parts one after the other.                 *)

CreatePlanFile ==
    /\ command = "createPlan"
    /\ partFiles' = partFiles + 1
    /\ command' = "addPart"
    /\ UNCHANGED <<jobStatus, txStatus, processes, manager, scheduler, counters,
                   handlerState, statusManager>>

AddNewJobPart ==
    /\ command = "addPart"
    /\ Len(queue) < PartsQueueSize
    /\ partsKnown' = partsKnown + 1
    /\ haveFinalPart' = (partsKnown + 1 = JobParts)
    /\ queue' = Append(queue, partsKnown)
    /\ summary' = [summary EXCEPT !.completeJobOrdered = (partsKnown + 1 = JobParts)]
    /\ command' = IF partsKnown + 1 = JobParts THEN "poll" ELSE "createPlan"
    /\ UNCHANGED <<plan, processes, allScheduled, jobCancelled, mapLocked, toQueue,
                   current, nextTx, counters, handlerState, unhandled>>

-----------------------------------------------------------------------------
(* The process dies, or the user runs "jobs resume" after it has ended.    *)

ProcessDies ==
    /\ Running
    /\ command' = "down"
    /\ ForgetMemory
    /\ UNCHANGED <<plan, processes>>

(* ResurrectJob maps the plan files in the order of their parts, adds each *)
(* part, and counts the transfers of the plans into the summary.           *)
CountIn(statuses) == Cardinality({x \in JobTransfer : x[1] < partFiles /\ txStatus[x] \in statuses})

ResurrectedSummary ==
    [completed |-> CountIn({"Success"}), failed |-> CountIn({"Failed"}),
     skipped |-> CountIn({"Skipped"}), completeJobOrdered |-> partFiles = JobParts]

(* A job whose final part has no plan is refused by ResumeJobOrder: that   *)
(* process ends with nothing done, and is no step here.                    *)
ResurrectJob ==
    /\ command = "down" /\ processes < MaxProcesses
    /\ partFiles = JobParts
    /\ processes' = processes + 1
    /\ command' = "resetStatus"
    /\ partsKnown' = partFiles
    /\ haveFinalPart' = TRUE
    /\ summary' = ResurrectedSummary
    /\ UNCHANGED <<plan, allScheduled, jobCancelled, mapLocked, scheduler, counters,
                   handlerState, unhandled>>

(* ResumeJobOrder: a job that was being cancelled is cancelled first, ...  *)
SettleCancelling ==
    /\ command = "resetStatus" /\ jobStatus = "Cancelling"
    /\ jobStatus' = "Cancelled"
    /\ UNCHANGED <<partFiles, txStatus, processes, command, manager, scheduler, counters,
                   handlerState, statusManager>>

MutResetJob ==  \* keeps the failures of the runs before
    /\ command = "resetStatus" /\ jobStatus # "Cancelling"
    /\ jobStatus' = "InProgress"
    /\ command' = "resetTransfers"
    /\ UNCHANGED <<partFiles, txStatus, processes, manager, scheduler, counters, handlerState,
                   statusManager>>

(* ... the failures are taken out of the summary, and the job is in        *)
(* progress again; ...                                                     *)
ResetJob ==
    /\ command = "resetStatus" /\ jobStatus # "Cancelling"
    /\ jobStatus' = "InProgress"
    /\ summary' = [summary EXCEPT !.failed = 0]
    /\ command' = "resetTransfers"
    /\ UNCHANGED <<partFiles, txStatus, processes, manager, scheduler, counters, handlerState,
                   unhandled>>

(* ... then each transfer that failed, was skipped or was cancelled is     *)
(* restarted, one store after the other.                                   *)
NeedsRestart == {x \in JobTransfer : txStatus[x] \in {"Failed", "Skipped", "Cancelled"}}

RestartTransfer ==
    /\ command = "resetTransfers"
    /\ \E x \in NeedsRestart : txStatus' = [txStatus EXCEPT ![x] = "Started"]
    /\ UNCHANGED <<partFiles, jobStatus, processes, command, manager, scheduler, counters,
                   handlerState, statusManager>>

(* ResumeTransfers queues the parts, in whatever order the map gives them, *)
(* and holds the lock of jobPartMgrs from the first to the last.           *)
RestartedAll ==
    /\ command = "resetTransfers" /\ NeedsRestart = {}
    /\ command' = "queueParts"
    /\ allScheduled' = FALSE
    /\ mapLocked' = TRUE
    /\ toQueue' = 0..(partsKnown - 1)
    /\ UNCHANGED <<plan, processes, partsKnown, haveFinalPart, jobCancelled, queue, current,
                   nextTx, counters, handlerState, statusManager>>

QueueResumedPart ==
    /\ command = "queueParts"
    /\ Len(queue) < PartsQueueSize
    /\ \E p \in toQueue :
           /\ queue' = Append(queue, p)
           /\ toQueue' = toQueue \ {p}
    /\ UNCHANGED <<plan, processes, command, manager, current, nextTx, counters, handlerState,
                   statusManager>>

QueuedAll ==
    /\ command = "queueParts" /\ toQueue = {}
    /\ mapLocked' = FALSE
    /\ command' = "poll"
    /\ UNCHANGED <<plan, processes, partsKnown, haveFinalPart, allScheduled, jobCancelled,
                   scheduler, counters, handlerState, statusManager>>

-----------------------------------------------------------------------------
(* The scheduler.  A part it has taken is finished with when all its       *)
(* transfers are queued, and when the report it made itself is received.   *)

CancelMessage == <<"cancel", 0>>

PartScheduled == current >= 0 => nextTx = PartTransfers[current]
SchedulerReports == <<"scheduler", current>> \in toSend

TakePart ==
    /\ Running /\ PartScheduled /\ ~SchedulerReports /\ queue # <<>>
    /\ current' = Head(queue)
    /\ queue' = Tail(queue)
    /\ nextTx' = 0
    /\ doneOfPart' = [doneOfPart EXCEPT ![Head(queue)] = 0]
    /\ tallyOfPart' = [tallyOfPart EXCEPT ![Head(queue)].failed = 0]
    /\ UNCHANGED <<plan, processes, command, manager, toQueue, txPc, toSend, handlerState,
                   statusManager>>

(* jobPartMgr.ReportTransferDone: the part counts a transfer; the call     *)
(* that counts its last one goes on to tell the handler.                   *)
CountInPart(who, p, status) ==
    /\ doneOfPart' = [doneOfPart EXCEPT ![p] = @ + 1]
    /\ tallyOfPart' = [tallyOfPart EXCEPT ![p] = WithOutcome(@, status)]
    /\ toSend' = IF doneOfPart[p] + 1 = PartTransfers[p] THEN toSend \cup {<<who, p>>} ELSE toSend

(* A transfer that succeeded in an earlier process is reported to its part *)
(* by the scheduler, and not to the status manager, which counted it when  *)
(* the job was resurrected.                                                *)
ScheduleDone ==
    /\ Running /\ ~PartScheduled
    /\ LET x == <<current, nextTx>>
       IN  /\ txStatus[x] = "Success"
           /\ CountInPart("scheduler", current, "Success")
    /\ nextTx' = nextTx + 1
    /\ UNCHANGED <<plan, processes, command, manager, queue, toQueue, current, txPc, handlerState,
                   statusManager>>

SchedulePending ==
    /\ Running /\ ~PartScheduled
    /\ LET x == <<current, nextTx>>
       IN  /\ txStatus[x] # "Success"
           /\ txPc' = [txPc EXCEPT ![x] = "queued"]
    /\ nextTx' = nextTx + 1
    /\ allScheduled' = (allScheduled \/ current = JobParts - 1)
    /\ UNCHANGED <<plan, processes, command, partsKnown, haveFinalPart, jobCancelled, mapLocked,
                   queue, toQueue, current, doneOfPart, tallyOfPart, toSend, handlerState,
                   statusManager>>

-----------------------------------------------------------------------------
(* A transfer runs, settles its status in the plan, tells the status       *)
(* manager, then its part.                                                 *)

RunTransfer(x) ==
    /\ Running /\ txPc[x] = "queued"
    /\ \E outcome \in IF jobCancelled THEN TransferResults \cup {"Cancelled"} ELSE TransferResults :
           txStatus' = [txStatus EXCEPT ![x] = outcome]
    /\ txPc' = [txPc EXCEPT ![x] = "settled"]
    /\ UNCHANGED <<partFiles, jobStatus, processes, command, manager, scheduler, doneOfPart,
                   tallyOfPart, toSend, handlerState, statusManager>>

SendXferDoneMsg(x) ==
    /\ Running /\ txPc[x] = "settled"
    /\ unhandled' = unhandled \cup {x}
    /\ txPc' = [txPc EXCEPT ![x] = "sent"]
    /\ UNCHANGED <<plan, processes, command, manager, scheduler, doneOfPart, tallyOfPart,
                   toSend, handlerState, summary>>

ReportTransferDone(x) ==
    /\ Running /\ txPc[x] = "sent"
    /\ CountInPart("transfer", x[1], txStatus[x])
    /\ txPc' = [txPc EXCEPT ![x] = "reported"]
    /\ UNCHANGED <<plan, processes, command, manager, scheduler, handlerState, statusManager>>

HandleXferDone ==
    /\ Running
    /\ \E x \in unhandled :
           /\ summary' = WithOutcome(summary, txStatus[x])
           /\ unhandled' = unhandled \ {x}
    /\ UNCHANGED <<plan, processes, command, manager, scheduler, counters, handlerState>>

-----------------------------------------------------------------------------
(* The handler takes a message, then needs jobPartMgrs to make sense of it.*)
(* A cancellation sends a message of its own, with nothing in it.          *)
ReportJobPartDone ==
    /\ Running /\ handler = "idle"
    /\ \E report \in toSend :
           /\ received' = IF report = CancelMessage THEN NoTally ELSE tallyOfPart[report[2]]
           /\ toSend' = toSend \ {report}
    /\ handler' = "lookUpPart0"
    /\ UNCHANGED <<plan, processes, command, manager, scheduler, doneOfPart, tallyOfPart, txPc,
                   partsReported, total, statusManager>>

CountPart ==
    /\ Running /\ handler = "lookUpPart0" /\ ~mapLocked
    /\ partsReported' = partsReported + 1
    /\ total' = SumOf(total, received)
    /\ handler' = IF \/ haveFinalPart /\ partsReported + 1 = partsKnown
                     \/ jobStatus = "Cancelling" /\ ~haveFinalPart
                  THEN "drain" ELSE "idle"
    /\ UNCHANGED <<plan, processes, command, manager, scheduler, counters, received,
                   statusManager>>

SettleJob ==
    /\ Running /\ handler = "drain" /\ unhandled = {}
    /\ jobStatus' = CASE jobStatus = "Cancelling" -> "Cancelled"
                      [] jobStatus = "InProgress" -> EnhancedStatus(total)
                      [] OTHER -> jobStatus
    /\ partsReported' = 0 /\ total' = NoTally
    /\ handler' = "idle"
    /\ UNCHANGED <<partFiles, txStatus, processes, command, manager, scheduler, counters,
                   received, statusManager>>

-----------------------------------------------------------------------------
(* The user cancels; the front end looks whether the job is done.          *)

CancelPauseJob ==
    /\ MayCancel /\ Running /\ partsKnown > 0 /\ ~jobCancelled
    /\ command \in {"createPlan", "addPart", "poll"} /\ jobStatus = "InProgress"
    /\ jobStatus' = "Cancelling"
    /\ jobCancelled' = TRUE
    /\ toSend' = toSend \cup {CancelMessage}
    /\ UNCHANGED <<partFiles, txStatus, processes, command, partsKnown, haveFinalPart,
                   allScheduled, mapLocked, scheduler, doneOfPart, tallyOfPart, txPc,
                   handlerState, statusManager>>

(* GetJobSummary: the job is over, and the process with it.  (That the     *)
(* summary it shows is read before the status is a matter of JobMgr.)      *)
PollSummary ==
    /\ command \in {"createPlan", "addPart", "poll"}
    /\ \/ jobStatus = "Cancelled"
       \/ IsJobDone(jobStatus) /\ (summary.completeJobOrdered \/ allScheduled)
    /\ command' = "down"
    /\ ForgetMemory
    /\ UNCHANGED <<plan, processes>>

-----------------------------------------------------------------------------
ResumeStep ==
    \/ SettleCancelling \/ ResetJob \/ RestartTransfer
    \/ RestartedAll \/ QueueResumedPart \/ QueuedAll

FrontEndStep == CreatePlanFile \/ AddNewJobPart \/ ResumeStep

SchedulerStep == TakePart \/ ScheduleDone \/ SchedulePending

TxStep(x) == RunTransfer(x) \/ SendXferDoneMsg(x) \/ ReportTransferDone(x)

HandlerProgress == ReportJobPartDone \/ CountPart \/ SettleJob

RJNext ==
    \/ FrontEndStep \/ PollSummary
    \/ ProcessDies \/ ResurrectJob \/ CancelPauseJob
    \/ SchedulerStep
    \/ \E x \in JobTransfer : TxStep(x)
    \/ HandleXferDone
    \/ HandlerProgress

(* Every goroutine of a process goes on, and the front end keeps polling.  *)
(* Nobody has to die, to cancel or to resume.                              *)
RJFairness ==
    /\ WF_rjVars(FrontEndStep)
    /\ WF_rjVars(PollSummary)
    /\ WF_rjVars(SchedulerStep)
    /\ \A x \in JobTransfer : WF_rjVars(TxStep(x))
    /\ WF_rjVars(HandleXferDone)
    /\ WF_rjVars(HandlerProgress)

RJSpec == RJInit /\ [][RJNext]_rjVars /\ RJFairness
-----------------------------------------------------------------------------
RJTypeOK ==
    /\ partFiles \in 0..JobParts
    /\ jobStatus \in SettledStatuses \cup {"InProgress", "Cancelling", "Cancelled"}
    /\ txStatus \in [JobTransfer -> {"Started", "Success", "Failed", "Skipped", "Cancelled"}]
    /\ processes \in 1..(IF MaxProcesses > 1 THEN MaxProcesses ELSE 1)
    /\ command \in {"createPlan", "addPart", "resetStatus", "resetTransfers", "queueParts",
                    "poll", "down"}
    /\ partsKnown \in 0..partFiles /\ current \in -1..(partsKnown - 1)
    /\ \A i \in 1..Len(queue) : queue[i] \in 0..(partsKnown - 1)
    /\ toQueue \subseteq 0..(partsKnown - 1)
    /\ nextTx \in 0..(IF current = -1 THEN 0 ELSE PartTransfers[current])
    /\ \A p \in PartNum : doneOfPart[p] \in 0..PartTransfers[p]
    /\ txPc \in [JobTransfer -> {"idle", "queued", "settled", "sent", "reported"}]
    /\ toSend \subseteq ({"scheduler", "transfer"} \X PartNum) \cup {CancelMessage}
    /\ handler \in {"idle", "lookUpPart0", "drain"}
    /\ partsReported \in 0..(JobParts + 1)
    /\ unhandled \subseteq JobTransfer

(* A job whose plan says it ran to its end has all its parts on disk and   *)
(* every transfer settled, whenever the processes that worked on it died,  *)
(* and also while a resumed one puts its transfers back (ResumeJobOrder    *)
(* and reportJobPartDoneHandler).                                          *)
SettledJobHasNothingPending ==
    jobStatus \in SettledStatuses =>
        partFiles = JobParts /\ \A x \in JobTransfer : txStatus[x] # "Started"

(* The summary of the process that completes the job counts every transfer *)
(* that succeeded and every one that failed exactly once, although some    *)
(* were counted from the plans, some by the status manager, and failures   *)
(* of earlier processes may have been tried again.  (A skipped transfer    *)
(* that is skipped again is counted twice: only failures are taken out.)   *)
ResumedSummaryIsExact ==
    command = "poll" /\ jobStatus \in SettledStatuses =>
        /\ summary.completed = CountIn({"Success"})
        /\ summary.failed = CountIn({"Failed"})
        /\ summary.skipped >= CountIn({"Skipped"})

(* What one process has done no later one does again: a transfer that      *)
(* succeeded keeps its status and is not run, however often the job is     *)
(* interrupted and resumed (ScheduleTransfers).                            *)
WhatSucceededStays ==
    [][\A x \in JobTransfer :
          txStatus[x] = "Success" =>
              txStatus'[x] = "Success" /\ ~(txPc[x] = "idle" /\ txPc'[x] = "queued")]_rjVars

(* When the status of a job whose final part is known is about to be       *)
(* settled, every transfer has been counted: the handler is not misled by  *)
(* a part that is added while it waits for the status manager.             *)
NoPartIsMissedAtTheEnd ==
    handler = "drain" /\ haveFinalPart /\ ~jobCancelled =>
        \A p \in PartNum : doneOfPart[p] = PartTransfers[p]

(* Every process comes to an end by itself, also one that resumes a job    *)
(* of which some parts have nothing left to do: the scheduler, the handler *)
(* and the front end, which queues parts with a lock held, do not wait for *)
(* one another for ever.                                                   *)
EveryProcessEnds == []<>~Running

(* A job that several processes work on is over when its plan says so, and *)
(* its last summary counts everything once.                                *)
ResumeInv ==
    /\ RJTypeOK
    /\ SettledJobHasNothingPending
    /\ ResumedSummaryIsExact
    /\ NoPartIsMissedAtTheEnd
=============================================================================
