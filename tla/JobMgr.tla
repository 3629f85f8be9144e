------------------------------- MODULE JobMgr -------------------------------
(***************************************************************************)
(* One job in the transfer engine, from the first part the front end       *)
(* orders to the summary it exits with.                                    *)
(*                                                                         *)
(*   the front end orders parts        jobsAdmin/init.go, AddJobPart       *)
(*   a scheduler queues their          jobPartMgr.ScheduleTransfers        *)
(*     transfers                                                           *)
(*   workers run the transfers and     transferProcessor,                  *)
(*     report each one done            jptm/jobPartMgr.ReportTransferDone  *)
(*   a handler counts finished parts   reportJobPartDoneHandler            *)
(*     and settles the job's status                                        *)
(*   goroutines cancel or pause        CancelPauseJobOrder                 *)
(*   the front end polls the summary   GetJobSummary                       *)
(*   the status manager keeps it       module JobStatusManager             *)
(*                                                                         *)
(* The status of the job is the one in the plan of part 0: every goroutine *)
(* reads and writes it with single atomic loads and stores, so what was    *)
(* read may be stale when it is acted upon.  Steps are split wherever      *)
(* another goroutine can come in between.                                  *)
(*                                                                         *)
(* A new job is modelled, in a process that lives until the front end      *)
(* exits.  What is inside a transfer is left to its outcome.               *)
(***************************************************************************)
EXTENDS JobStatusManager, FiniteSets

CONSTANTS NumParts,          \* parts the front end orders, numbered from 0
          NumTransfers,      \* number of transfers of each part
          PartsChannelSize,  \* capacity of partsChannel (10000 in the code)
          Users,             \* goroutines that call CancelPauseJobOrder
          AuthFailing,       \* transfers that may meet a 403 while they run
          Wishes,            \* statuses a user asks for
          Outcomes           \* outcomes of a transfer that was not cancelled

Part == 0..(NumParts - 1)
FinalPart == NumParts - 1

(* addTransfer dispatches a part only when there is a next transfer to put *)
(* into the following one, so only a job without transfers has an empty    *)
(* part.                                                                   *)
ASSUME JobAssumption ==
    /\ NumParts \in Nat \ {0}
    /\ NumTransfers \in [Part -> Nat]
    /\ \A p \in Part : NumTransfers[p] = 0 => NumParts = 1
    /\ PartsChannelSize \in Nat \ {0}

TransfersOf(p) == {p} \X (0..(NumTransfers[p] - 1))
Transfer == UNION {TransfersOf(p) : p \in Part}
Canceller == Users \cup AuthFailing

ASSUME CancellerAssumption ==
    /\ AuthFailing \subseteq Transfer
    /\ Users \cap Transfer = {}
    /\ Wishes \subseteq {"Cancelling", "Paused"}
    /\ Outcomes \subseteq TransferOutcomes \ {"Cancelled"}

JobStatus == {"InProgress", "Paused", "Cancelling", "Cancelled", "Completed",
              "CompletedWithErrors", "CompletedWithSkipped",
              "CompletedWithErrorsAndSkipped", "Failed"}

(* What a job that ran to its end is set to. *)
CompletedStatuses == {"Completed", "CompletedWithErrors", "CompletedWithSkipped",
                      "CompletedWithErrorsAndSkipped", "Failed"}

IsJobDone(status) == status \in CompletedStatuses \cup {"Cancelled"}

EnhanceJobStatusInfo(skipped, failed, successful) ==
    CASE failed /\ skipped                 -> "CompletedWithErrorsAndSkipped"
      [] failed /\ ~skipped /\ successful  -> "CompletedWithErrors"
      [] failed /\ ~skipped /\ ~successful -> "Failed"
      [] ~failed /\ skipped                -> "CompletedWithSkipped"
      [] OTHER                             -> "Completed"

NoProgress == [completed |-> 0, skipped |-> 0, failed |-> 0]

MutAddProgress(a, b) == b  \* assigns where the code adds

AddProgress(a, b) ==
    [completed |-> a.completed + b.completed,
     skipped |-> a.skipped + b.skipped,
     failed |-> a.failed + b.failed]

StatusOf(info) ==
    EnhanceJobStatusInfo(info.skipped > 0, info.failed > 0, info.completed > 0)

VARIABLES
    planStatus,             \* JobStatus in the plan of part 0
    partStatus,             \* JobPartStatus in the plan of each part
    xstatus,                \* TransferStatus of each transfer in its plan
    \* the front end
    orderPc, orderPart,     \* its progress in ordering the parts
    fePc, feSummary,        \* its progress in GetJobSummary
    \* the job manager
    partsOrdered,           \* jobPartMgrs.Count(): parts 0..partsOrdered-1
    finalPartOrdered,       \* atomicFinalPartOrderedIndicator
    allTransfersScheduled,  \* atomicAllTransfersScheduled
    ctxCancelled,           \* jm.ctx has been cancelled
    \* partsChannel and scheduleJobParts.  Parts are queued in the order of
    \* their numbers, so the channel holds parts partsTaken..partsQueued-1
    \* and the scheduler is at transfer nextTransfer of part partsTaken-1
    partsQueued, partsTaken, nextTransfer,
    \* the part managers and the transfers
    transfersDone,          \* atomicTransfersDone of each part
    tally,                  \* its atomicTransfersCompleted, -Skipped, -Failed
    xpc,                    \* where each transfer is
    wasLast,                \* its ReportTransferDone reached NumTransfers
    jppi,                   \* the jobPartProgressInfo it then sends
    \* reportJobPartDoneHandler and CancelPauseJobOrder
    partsDone, progress,    \* parts and transfers counted so far
    hpc, statusRead,        \* the handler's place and the status it acts on
    cpc, wish               \* each canceller's place and what it asks for

planVars == <<planStatus, partStatus, xstatus>>
orderVars == <<orderPc, orderPart>>
feVars == <<fePc, feSummary>>
schedVars == <<partsQueued, partsTaken, nextTransfer>>
partVars == <<transfersDone, tally>>
xferVars == <<xpc, wasLast, jppi>>
handlerVars == <<partsDone, progress, hpc, statusRead>>
cancelVars == <<cpc, wish>>
flagVars == <<partsOrdered, finalPartOrdered, allTransfersScheduled, ctxCancelled>>

vars == <<planVars, orderVars, feVars, flagVars, schedVars, partVars, xferVars,
          handlerVars, cancelVars, smVars>>

Init ==
    /\ planStatus = "InProgress"
    /\ partStatus = [p \in Part |-> "InProgress"]
    /\ xstatus = [x \in Transfer |-> "Started"]
    /\ orderPc = "addPart" /\ orderPart = 0
    /\ fePc = "poll" /\ feSummary = EmptySummary
    /\ partsOrdered = 0 /\ finalPartOrdered = FALSE
    /\ allTransfersScheduled = FALSE /\ ctxCancelled = FALSE
    /\ partsQueued = 0 /\ partsTaken = 0 /\ nextTransfer = 0
    /\ transfersDone = [p \in Part |-> 0]
    /\ tally = [p \in Part |-> NoProgress]
    /\ xpc = [x \in Transfer |-> "unscheduled"]
    /\ wasLast = [x \in Transfer |-> FALSE]
    /\ jppi = [x \in Transfer |-> NoProgress]
    /\ partsDone = 0 /\ progress = NoProgress
    /\ hpc = "receive" /\ statusRead = "InProgress"
    /\ cpc = [c \in Canceller |-> "idle"]
    /\ wish = [c \in Canceller |-> "Cancelling"]
    /\ SMInit

-----------------------------------------------------------------------------
(* The front end orders a part: jobPartMgrs.Set, then the final-part flag, *)
(* then the part goes to the scheduler, then the status manager is told.   *)

AddJobPart ==
    /\ orderPc = "addPart"
    /\ partsOrdered' = partsOrdered + 1
    /\ orderPc' = "setFinalPartOrdered"
    /\ UNCHANGED <<planVars, orderPart, feVars, finalPartOrdered, allTransfersScheduled,
                   ctxCancelled, schedVars, partVars, xferVars, handlerVars, cancelVars, smVars>>

SetFinalPartOrdered ==
    /\ orderPc = "setFinalPartOrdered"
    /\ finalPartOrdered' = (orderPart = FinalPart)
    /\ orderPc' = "queue"
    /\ UNCHANGED <<planVars, orderPart, feVars, partsOrdered, allTransfersScheduled,
                   ctxCancelled, schedVars, partVars, xferVars, handlerVars, cancelVars, smVars>>

QueueJobParts ==
    /\ orderPc = "queue"
    /\ partsQueued - partsTaken < PartsChannelSize
    /\ partsQueued' = partsQueued + 1
    /\ orderPc' = "announce"
    /\ UNCHANGED <<planVars, orderPart, feVars, flagVars, partsTaken, nextTransfer,
                   partVars, xferVars, handlerVars, cancelVars, smVars>>

AnnounceJobPart ==
    /\ orderPc = "announce"
    /\ SendJobPartCreated(NumTransfers[orderPart], orderPart = FinalPart)
    /\ orderPart' = orderPart + 1
    /\ orderPc' = IF orderPart = FinalPart THEN "done" ELSE "addPart"
    /\ UNCHANGED <<planVars, feVars, flagVars, schedVars, partVars, xferVars,
                   handlerVars, cancelVars>>

-----------------------------------------------------------------------------
(* scheduleJobParts and ScheduleTransfers. *)

SchedulerIdle ==
    partsTaken > 0 => nextTransfer = NumTransfers[partsTaken - 1]

(* A part is taken and its counters are reset; a job without transfers is  *)
(* completed on the spot.                                                  *)
ScheduleTransfers ==
    /\ SchedulerIdle /\ partsTaken < partsQueued
    /\ partsTaken' = partsTaken + 1
    /\ nextTransfer' = 0
    /\ transfersDone' = [transfersDone EXCEPT ![partsTaken] = 0]
    /\ tally' = [tally EXCEPT ![partsTaken].failed = 0]
    /\ planStatus' = IF partsTaken = 0 /\ NumTransfers[0] = 0 THEN "Completed" ELSE planStatus
    /\ UNCHANGED <<partStatus, xstatus, orderVars, feVars, flagVars, partsQueued,
                   xferVars, handlerVars, cancelVars, smVars>>

ScheduleTransfer ==
    /\ ~SchedulerIdle
    /\ xpc' = [xpc EXCEPT ![<<partsTaken - 1, nextTransfer>>] = "queued"]
    /\ nextTransfer' = nextTransfer + 1
    /\ allTransfersScheduled' = (allTransfersScheduled \/ partsTaken - 1 = FinalPart)
    /\ UNCHANGED <<planVars, orderVars, feVars, partsOrdered, finalPartOrdered, ctxCancelled,
                   partsQueued, partsTaken, partVars, wasLast, jppi, handlerVars, cancelVars,
                   smVars>>

-----------------------------------------------------------------------------
(* A transfer, from transferProcessor to the end of its ReportTransferDone.*)

(* A status is only set over one that is not yet an outcome. *)
SetStatus(x, status) ==
    xstatus' = [xstatus EXCEPT ![x] = IF @ = "Started" THEN status ELSE @]

(* A worker picks the transfer up and starts it, or finds it cancelled. *)
TransferProcessor(x) ==
    /\ xpc[x] = "queued"
    /\ IF ctxCancelled
       THEN SetStatus(x, "Cancelled") /\ xpc' = [xpc EXCEPT ![x] = "sendXferDone"]
       ELSE UNCHANGED xstatus /\ xpc' = [xpc EXCEPT ![x] = "running"]
    /\ UNCHANGED <<planStatus, partStatus, orderVars, feVars, flagVars, schedVars, partVars,
                   wasLast, jppi, handlerVars, cancelVars, smVars>>

(* A running transfer meets a 403: it fails and cancels the whole job.     *)
AuthenticationFails(x) ==
    /\ x \in AuthFailing
    /\ xpc[x] = "running" /\ cpc[x] = "idle" /\ ~ctxCancelled
    /\ SetStatus(x, "Failed")
    /\ cpc' = [cpc EXCEPT ![x] = "readStatus"]
    /\ UNCHANGED <<planStatus, partStatus, orderVars, feVars, flagVars, schedVars, partVars,
                   xferVars, handlerVars, wish, smVars>>

(* Its last chunk is done and the epilogue has settled its status; a chunk *)
(* that is still inside CancelPauseJobOrder has not reported itself yet.   *)
(* A transfer that is cancelled late in its epilogue keeps "Started", which*)
(* the part and the status manager take like "Cancelled": it is one here.  *)
FinishTransfer(x) ==
    /\ xpc[x] = "running"
    /\ x \in AuthFailing => cpc[x] \in {"idle", "returned"}
    /\ \E outcome \in Outcomes \cup (IF ctxCancelled THEN {"Cancelled"} ELSE {}) :
           SetStatus(x, outcome)
    /\ xpc' = [xpc EXCEPT ![x] = "sendXferDone"]
    /\ UNCHANGED <<planStatus, partStatus, orderVars, feVars, flagVars, schedVars, partVars,
                   wasLast, jppi, handlerVars, cancelVars, smVars>>

(* jptm.ReportTransferDone tells the status manager first. *)
ReportToStatusManager(x) ==
    /\ xpc[x] = "sendXferDone"
    /\ SendXferDone(xstatus[x]) \/ SendXferDoneRecovered
    /\ xpc' = [xpc EXCEPT ![x] = "count"]
    /\ UNCHANGED <<planVars, orderVars, feVars, flagVars, schedVars, partVars, wasLast, jppi,
                   handlerVars, cancelVars>>

(* jobPartMgr.ReportTransferDone: the part counts the transfer, ... *)
CountTransferDone(x) ==
    LET p == x[1]
    IN  /\ xpc[x] = "count"
        /\ transfersDone' = [transfersDone EXCEPT ![p] = @ + 1]
        /\ wasLast' = [wasLast EXCEPT ![x] = (transfersDone[p] + 1 = NumTransfers[p])]
        /\ xpc' = [xpc EXCEPT ![x] = "updateJobPartProgress"]
        /\ UNCHANGED <<planVars, orderVars, feVars, flagVars, schedVars, tally, jppi,
                       handlerVars, cancelVars, smVars>>

UpdatedTally(counts, status) ==
    CASE status = "Success" -> [counts EXCEPT !.completed = @ + 1]
      [] status = "Failed"  -> [counts EXCEPT !.failed = @ + 1]
      [] status = "Skipped" -> [counts EXCEPT !.skipped = @ + 1]
      [] OTHER              -> counts

MutUpdateJobPartProgress(x) ==  \* looks at the counter again
    LET last == transfersDone[x[1]] = NumTransfers[x[1]]
    IN  /\ xpc[x] = "updateJobPartProgress"
        /\ tally' = [tally EXCEPT ![x[1]] = UpdatedTally(@, xstatus[x])]
        /\ wasLast' = [wasLast EXCEPT ![x] = last]
        /\ xpc' = [xpc EXCEPT ![x] = IF last THEN "compose" ELSE "finished"]
        /\ UNCHANGED <<planVars, orderVars, feVars, flagVars, schedVars, transfersDone,
                       jppi, handlerVars, cancelVars, smVars>>

(* ... then adds its outcome to the part's tally, ... *)
UpdateJobPartProgress(x) ==
    /\ xpc[x] = "updateJobPartProgress"
    /\ tally' = [tally EXCEPT ![x[1]] = UpdatedTally(@, xstatus[x])]
    /\ xpc' = [xpc EXCEPT ![x] = IF wasLast[x] THEN "compose" ELSE "finished"]
    /\ UNCHANGED <<planVars, orderVars, feVars, flagVars, schedVars, transfersDone, wasLast,
                   jppi, handlerVars, cancelVars, smVars>>

(* ... and the call that counted the part's last transfer reads the tally, *)
(* sets the part's status and sends the tally to the handler.              *)
ComposeJobPartProgress(x) ==
    LET p == x[1]
    IN  /\ xpc[x] = "compose"
        /\ jppi' = [jppi EXCEPT ![x] = tally[p]]
        /\ partStatus' = [partStatus EXCEPT ![p] = StatusOf(tally[p])]
        /\ xpc' = [xpc EXCEPT ![x] = "reportJobPartDone"]
        /\ UNCHANGED <<planStatus, xstatus, orderVars, feVars, flagVars, schedVars, partVars,
                       wasLast, handlerVars, cancelVars, smVars>>

-----------------------------------------------------------------------------
(* reportJobPartDoneHandler. *)

MutReceiveJobPartProgress(info) ==  \* does not look for the final part
    LET done == partsDone + 1
    IN  /\ hpc = "receive"
        /\ partsDone' = done
        /\ progress' = AddProgress(progress, info)
        /\ hpc' = IF done = partsOrdered THEN "closeXferDone" ELSE "receive"
        /\ UNCHANGED statusRead

(* jobPartProgress is unbuffered: a message is received the moment it is   *)
(* sent.  The handler then reads the job's status, the final-part flag and *)
(* the number of parts one by one.  They are read here in one step, which  *)
(* loses no outcome: the last two never go back, so if the flag is found   *)
(* set the status no longer matters and the message might as well have     *)
(* come at the last read, and if not, at the first one.                    *)
ReceiveJobPartProgress(info) ==
    LET done == partsDone + 1
        allKnownPartsDone == done = partsOrdered
        isCancelling == planStatus = "Cancelling"
        shouldComplete == \/ finalPartOrdered /\ allKnownPartsDone
                          \/ isCancelling /\ ~finalPartOrdered
    IN  /\ hpc = "receive"
        /\ partsDone' = done
        /\ progress' = AddProgress(progress, info)
        /\ hpc' = IF shouldComplete THEN "closeXferDone" ELSE "receive"
        /\ UNCHANGED statusRead

ReportJobPartDone(x) ==
    /\ xpc[x] = "reportJobPartDone"
    /\ ReceiveJobPartProgress(jppi[x])
    /\ xpc' = [xpc EXCEPT ![x] = "finished"]
    /\ UNCHANGED <<planVars, orderVars, feVars, flagVars, schedVars, partVars, wasLast, jppi,
                   cancelVars, smVars>>

HandlerClosesXferDone ==
    /\ hpc = "closeXferDone"
    /\ CloseXferDone
    /\ hpc' = "waitToDrainXferDone"
    /\ UNCHANGED <<planVars, orderVars, feVars, flagVars, schedVars, partVars, xferVars,
                   partsDone, progress, statusRead, cancelVars>>

MutHandlerWaitsForDrain ==  \* does not wait
    /\ hpc = "waitToDrainXferDone"
    /\ hpc' = "readStatus"
    /\ UNCHANGED <<planVars, orderVars, feVars, flagVars, schedVars, partVars, xferVars,
                   partsDone, progress, statusRead, cancelVars, smVars>>

HandlerWaitsForDrain ==
    /\ hpc = "waitToDrainXferDone" /\ xferDoneDrained
    /\ hpc' = "readStatus"
    /\ UNCHANGED <<planVars, orderVars, feVars, flagVars, schedVars, partVars, xferVars,
                   partsDone, progress, statusRead, cancelVars, smVars>>

HandlerReadsStatus ==
    /\ hpc = "readStatus"
    /\ statusRead' = planStatus
    /\ hpc' = "setJobStatus"
    /\ UNCHANGED <<planVars, orderVars, feVars, flagVars, schedVars, partVars, xferVars,
                   partsDone, progress, cancelVars, smVars>>

(* The status is settled by what the handler read, and its counters are    *)
(* reset.                                                                  *)
HandlerSetsJobStatus ==
    /\ hpc = "setJobStatus"
    /\ planStatus' = CASE statusRead = "Cancelling" -> "Cancelled"
                       [] statusRead = "InProgress" -> StatusOf(progress)
                       [] OTHER -> planStatus
    /\ partsDone' = 0 /\ progress' = NoProgress
    /\ hpc' = "receive"
    /\ UNCHANGED <<partStatus, xstatus, orderVars, feVars, flagVars, schedVars, partVars,
                   xferVars, statusRead, cancelVars, smVars>>

-----------------------------------------------------------------------------
(* CancelPauseJobOrder, called by a user or by a transfer that met a 403.  *)

UserCancelsOrPauses(c) ==
    /\ c \in Users /\ cpc[c] = "idle" /\ partsOrdered > 0
    /\ cpc' = [cpc EXCEPT ![c] = "readStatus"]
    /\ \E status \in Wishes : wish' = [wish EXCEPT ![c] = status]
    /\ UNCHANGED <<planVars, orderVars, feVars, flagVars, schedVars, partVars, xferVars,
                   handlerVars, smVars>>

(* Only a job that is in progress or paused is touched. *)
CancellerReadsStatus(c) ==
    /\ cpc[c] = "readStatus"
    /\ cpc' = [cpc EXCEPT ![c] = IF planStatus \in {"InProgress", "Paused"}
                                 THEN "setJobStatus" ELSE "returned"]
    /\ UNCHANGED <<planVars, orderVars, feVars, flagVars, schedVars, partVars, xferVars,
                   handlerVars, wish, smVars>>

CancellerSetsJobStatus(c) ==
    /\ cpc[c] = "setJobStatus"
    /\ planStatus' = wish[c]
    /\ cpc' = [cpc EXCEPT ![c] = "cancel"]
    /\ UNCHANGED <<partStatus, xstatus, orderVars, feVars, flagVars, schedVars, partVars,
                   xferVars, handlerVars, wish, smVars>>

(* jm.Cancel: the context first, ... *)
CancelContext(c) ==
    /\ cpc[c] = "cancel"
    /\ ctxCancelled' = TRUE
    /\ cpc' = [cpc EXCEPT ![c] = "sendProgress"]
    /\ UNCHANGED <<planVars, orderVars, feVars, partsOrdered, finalPartOrdered,
                   allTransfersScheduled, schedVars, partVars, xferVars, handlerVars, wish,
                   smVars>>

MutCancelSendsProgress(c) ==  \* relies on the transfers alone
    /\ cpc[c] = "sendProgress"
    /\ cpc' = [cpc EXCEPT ![c] = "returned"]
    /\ UNCHANGED <<planVars, orderVars, feVars, flagVars, schedVars, partVars, xferVars,
                   handlerVars, wish, smVars>>

(* ... then a zero progress message, to get the handler going. *)
CancelSendsProgress(c) ==
    /\ cpc[c] = "sendProgress"
    /\ ReceiveJobPartProgress(NoProgress)
    /\ cpc' = [cpc EXCEPT ![c] = "returned"]
    /\ UNCHANGED <<planVars, orderVars, feVars, flagVars, schedVars, partVars, xferVars,
                   wish, smVars>>

-----------------------------------------------------------------------------
(* The front end, once its first part order has returned, calls            *)
(* GetJobSummary again and again: ListJobSummary first, then the status in *)
(* the plan.  When the job is done it reports the summary and exits, and   *)
(* the process with it.                                                    *)

ListJobSummary ==
    /\ fePc = "poll" /\ orderPart > 0
    /\ feSummary' = js
    /\ AnswerListReq
    /\ fePc' = "readStatus"
    /\ UNCHANGED <<planVars, orderVars, flagVars, schedVars, partVars, xferVars, handlerVars,
                   cancelVars>>

GetJobSummary ==
    /\ fePc = "readStatus"
    /\ LET completeJobOrdered == feSummary.completeJobOrdered \/ allTransfersScheduled
           jobDone == \/ planStatus = "Cancelled"
                      \/ completeJobOrdered /\ IsJobDone(planStatus)
       IN  IF jobDone THEN fePc' = "exited" /\ UNCHANGED feSummary
                      ELSE fePc' = "poll" /\ feSummary' = EmptySummary
    /\ UNCHANGED <<planVars, orderVars, flagVars, schedVars, partVars, xferVars, handlerVars,
                   cancelVars, smVars>>

-----------------------------------------------------------------------------
OrderStep == AddJobPart \/ SetFinalPartOrdered \/ QueueJobParts \/ AnnounceJobPart

TransferStep(x) ==
    \/ TransferProcessor(x)
    \/ FinishTransfer(x)
    \/ ReportToStatusManager(x)
    \/ CountTransferDone(x)
    \/ UpdateJobPartProgress(x)
    \/ ComposeJobPartProgress(x)
    \/ ReportJobPartDone(x)

HandlerStep ==
    \/ HandlerClosesXferDone
    \/ HandlerWaitsForDrain
    \/ HandlerReadsStatus
    \/ HandlerSetsJobStatus

CancellerStep(c) ==
    \/ CancellerReadsStatus(c)
    \/ CancellerSetsJobStatus(c)
    \/ CancelContext(c)
    \/ CancelSendsProgress(c)

JobStatusManagerStep ==
    /\ StatusManagerStep
    /\ UNCHANGED <<planVars, orderVars, feVars, flagVars, schedVars, partVars, xferVars,
                   handlerVars, cancelVars>>

ProcessAlive == fePc # "exited"

Next ==
    /\ ProcessAlive
    /\ \/ OrderStep
       \/ ScheduleTransfers \/ ScheduleTransfer
       \/ \E x \in Transfer : TransferStep(x) \/ AuthenticationFails(x)
       \/ HandlerStep
       \/ JobStatusManagerStep
       \/ \E c \in Canceller : UserCancelsOrPauses(c) \/ CancellerStep(c)
       \/ ListJobSummary \/ GetJobSummary

(* Every goroutine keeps running: the front end orders all its parts and   *)
(* polls, the scheduler, the workers, the handler and the status manager   *)
(* loop, and a call of CancelPauseJobOrder goes on until it returns.       *)
(* Nobody has to cancel, and no transfer has to meet a 403.                *)
Fairness ==
    /\ WF_vars(ProcessAlive /\ OrderStep)
    /\ WF_vars(ProcessAlive /\ (ScheduleTransfers \/ ScheduleTransfer))
    /\ \A x \in Transfer : WF_vars(ProcessAlive /\ TransferStep(x))
    /\ WF_vars(ProcessAlive /\ HandlerStep)
    /\ WF_vars(ProcessAlive /\ JobStatusManagerStep)
    /\ \A c \in Canceller : WF_vars(ProcessAlive /\ CancellerStep(c))
    /\ WF_vars(ProcessAlive /\ (ListJobSummary \/ GetJobSummary))

Spec == Init /\ [][Next]_vars
FairSpec == Spec /\ Fairness

-----------------------------------------------------------------------------
(* Type invariant. *)

XferPcs == {"unscheduled", "queued", "running", "sendXferDone", "count",
            "updateJobPartProgress", "compose", "reportJobPartDone", "finished"}

Progress == [completed : Nat, skipped : Nat, failed : Nat]

TypeOK ==
    /\ planStatus \in JobStatus
    /\ partStatus \in [Part -> JobStatus]
    /\ xstatus \in [Transfer -> TransferOutcomes \cup {"Started"}]
    /\ orderPc \in {"addPart", "setFinalPartOrdered", "queue", "announce", "done"}
    /\ orderPart \in 0..NumParts
    /\ fePc \in {"poll", "readStatus", "exited"}
    /\ partsOrdered \in 0..NumParts
    /\ finalPartOrdered \in BOOLEAN /\ allTransfersScheduled \in BOOLEAN
    /\ ctxCancelled \in BOOLEAN
    /\ partsQueued \in 0..NumParts /\ partsTaken \in 0..NumParts /\ nextTransfer \in Nat
    /\ transfersDone \in [Part -> Nat]
    /\ tally \in [Part -> Progress]
    /\ xpc \in [Transfer -> XferPcs]
    /\ wasLast \in [Transfer -> BOOLEAN]
    /\ jppi \in [Transfer -> Progress]
    /\ partsDone \in Nat /\ progress \in Progress
    /\ hpc \in {"receive", "closeXferDone", "waitToDrainXferDone", "readStatus", "setJobStatus"}
    /\ statusRead \in JobStatus
    /\ cpc \in [Canceller -> {"idle", "readStatus", "setJobStatus", "cancel", "sendProgress",
                              "returned"}]
    /\ wish \in [Canceller -> {"Cancelling", "Paused"}]
    /\ SMTypeOK

-----------------------------------------------------------------------------
(* Vocabulary of the properties. *)

(* The part has counted the transfer. *)
Counted(x) ==
    xpc[x] \in {"updateJobPartProgress", "compose", "reportJobPartDone", "finished"}

(* The part's last transfer has handed its message to the handler. *)
PartReported(p) == \E x \in TransfersOf(p) : wasLast[x] /\ xpc[x] = "finished"

NumberWith(outcomes) == Cardinality({x \in Transfer : xstatus[x] \in outcomes})
SomeWith(outcomes) == \E x \in Transfer : xstatus[x] \in outcomes

-----------------------------------------------------------------------------
(* Safety.                                                                 *)

(* A job whose status says it ran to its end has no part left to order and *)
(* no transfer that its part has not counted: neither the order in which   *)
(* parts finish and new ones arrive, nor a cancellation that comes too     *)
(* late, makes the handler complete a job early (reportJobPartDoneHandler).*)
CompletedJobHasNothingPending ==
    planStatus \in CompletedStatuses =>
        partsOrdered = NumParts /\ \A x \in Transfer : Counted(x)

(* When the status says so, the summary of the status manager is exact:    *)
(* every transfer's outcome has been handled, none twice and none lost in  *)
(* a channel that was closed too soon (waitToDrainXferDone).               *)
CompletedJobHasExactSummary ==
    planStatus \in CompletedStatuses =>
        /\ js.completed = NumberWith({"Success"})
        /\ js.failed = NumberWith(FailedOutcomes)
        /\ js.skipped = NumberWith({"Skipped"})

(* The handler never closes xferDone a second time, which would panic,     *)
(* although a job can complete more than once after a cancellation.        *)
XferDoneIsClosedOnce ==
    hpc = "closeXferDone" => xferDone.state # "closed"

(* Exactly one of a part's transfers finds itself the last, and only when  *)
(* all the others have been counted (jobPartMgr.ReportTransferDone).       *)
OneTransferReportsThePart ==
    \A x \in Transfer :
        wasLast[x] => /\ \A y \in TransfersOf(x[1]) : Counted(y)
                      /\ \A y \in TransfersOf(x[1]) : wasLast[y] => y = x

(* Whoever reports a transfer finds the status manager listening: nobody   *)
(* waits on a nil channel and no outcome is dropped (SendXferDoneMsg).     *)
EveryOutcomeFindsAListener ==
    \A x \in Transfer : xpc[x] = "sendXferDone" => xferDone.state = "open"

(* The status a job ends with tells what became of its transfers           *)
(* (EnhanceJobStatusInfo), even if it was nearly cancelled.  That is so    *)
(* for parts of one transfer; two that report at once break it.            *)
JobStatusTellsTheOutcomes ==
    planStatus \in CompletedStatuses =>
        planStatus = EnhanceJobStatusInfo(SomeWith({"Skipped"}), SomeWith(FailedOutcomes),
                                          SomeWith({"Success"}))

-----------------------------------------------------------------------------
(* Refinement: a job nobody cancels is a JobOrder, in which a transfer has *)
(* ended when its part has counted it.                                     *)

Promise == INSTANCE JobOrder WITH
               status <- planStatus,
               ordered <- partsOrdered,
               ended <- {x \in Transfer : Counted(x)}

PromiseKept == Promise!Spec

-----------------------------------------------------------------------------
(* Liveness. *)

(* The front end exits: the job is completed or cancelled, whatever the    *)
(* order in which channels fill up and goroutines wait for one another.    *)
FrontEndExits == <>(fePc = "exited")
=============================================================================
