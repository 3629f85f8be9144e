---------------------------- MODULE JobMgrProofs ----------------------------
(***************************************************************************)
(* Proofs that IndInv is an inductive invariant of JobMgr, for any number  *)
(* of parts and transfers, any set of cancellers and any channel sizes,    *)
(* and of what follows from it.                                            *)
(***************************************************************************)
EXTENDS JobMgrInvariant, FiniteSetTheorems, FunctionTheorems, TLAPS

-----------------------------------------------------------------------------
(* Parts and transfers. *)

(* A transfer is a pair of a part and an index into it. *)
LEMMA TransferShape ==
    ASSUME NEW x \in Transfer
    PROVE  /\ x[1] \in Part
           /\ x[2] \in 0..(NumTransfers[x[1]] - 1)
           /\ x = <<x[1], x[2]>>
           /\ x \in TransfersOf(x[1])
<1>1. PICK p \in Part : x \in TransfersOf(p)
  BY DEF Transfer
<1>2. PICK t \in 0..(NumTransfers[p] - 1) : x = <<p, t>>
  BY <1>1 DEF TransfersOf
<1> QED BY <1>1, <1>2

(* The transfers of a part are among the job's, and there are as many as   *)
(* its plan says.                                                          *)
LEMMA PartShape ==
    ASSUME NEW p \in Part
    PROVE  /\ TransfersOf(p) \subseteq Transfer
           /\ \A x \in TransfersOf(p) : x[1] = p
           /\ IsFiniteSet(TransfersOf(p))
           /\ Cardinality(TransfersOf(p)) = NumTransfers[p]
<1> DEFINE Index == 0..(NumTransfers[p] - 1)
<1>1. NumTransfers[p] \in Nat
  BY JobAssumption
<1>2. IsFiniteSet(Index) /\ Cardinality(Index) = NumTransfers[p]
  BY SMTT(30), <1>1, FS_Interval
<1>3. IsFiniteSet({p}) /\ Cardinality({p}) = 1
  BY FS_Singleton
<1> HIDE DEF Index
<1>4. IsFiniteSet({p} \X Index) /\ Cardinality({p} \X Index) = 1 * NumTransfers[p]
  BY <1>2, <1>3, FS_Product
<1>5. TransfersOf(p) = {p} \X Index
  BY DEF TransfersOf, Index
<1>6. \A x \in TransfersOf(p) : x[1] = p
  BY <1>5
<1>7. TransfersOf(p) \subseteq Transfer
  BY DEF Transfer
<1> QED BY <1>1, <1>4, <1>5, <1>6, <1>7

(* There are NumParts parts. *)
LEMMA PartsCount == IsFiniteSet(Part) /\ Cardinality(Part) = NumParts
BY JobAssumption, FS_Interval DEF Part

-----------------------------------------------------------------------------
(* Type correctness. *)

(* A channel stays one when a value of its type is sent, when its head is  *)
(* received, and when it is closed or set to nil.                          *)
LEMMA ChannelType ==
    ASSUME NEW S, NEW ch \in Channel(S)
    PROVE  /\ \A e \in S : [ch EXCEPT !.buf = Append(@, e)] \in Channel(S)
           /\ ch.buf # <<>> => /\ Head(ch.buf) \in S
                              /\ [ch EXCEPT !.buf = Tail(@)] \in Channel(S)
           /\ [ch EXCEPT !.state = "closed"] \in Channel(S)
           /\ [ch EXCEPT !.state = "nil"] \in Channel(S)
<1>1. ASSUME NEW e \in S
      PROVE  [ch EXCEPT !.buf = Append(@, e)] \in Channel(S)
  BY DEF Channel
<1>2. ASSUME ch.buf # <<>>
      PROVE  Head(ch.buf) \in S /\ [ch EXCEPT !.buf = Tail(@)] \in Channel(S)
  BY SMTT(30), <1>2 DEF Channel
<1>3. [ch EXCEPT !.state = "closed"] \in Channel(S)
  BY DEF Channel
<1>4. [ch EXCEPT !.state = "nil"] \in Channel(S)
  BY DEF Channel
<1> QED BY <1>1, <1>2, <1>3, <1>4

(* Progress counters add up to progress counters. *)
LEMMA ProgressType ==
    /\ NoProgress \in Progress
    /\ \A a, b \in Progress : AddProgress(a, b) \in Progress
    /\ \A a \in Progress : \A status : UpdatedTally(a, status) \in Progress
    /\ \A a \in Progress : [a EXCEPT !.failed = 0] \in Progress
    /\ \A a : StatusOf(a) \in CompletedStatuses /\ CompletedStatuses \subseteq JobStatus
<1>1. NoProgress \in Progress
  BY DEF NoProgress, Progress
<1>2. \A a, b \in Progress : AddProgress(a, b) \in Progress
  BY DEF AddProgress, Progress
<1>3. ASSUME NEW a \in Progress, NEW status
      PROVE  UpdatedTally(a, status) \in Progress
  <2>1. /\ [a EXCEPT !.completed = @ + 1] \in Progress
        /\ [a EXCEPT !.failed = @ + 1] \in Progress
        /\ [a EXCEPT !.skipped = @ + 1] \in Progress
    BY DEF Progress
  <2> QED BY <2>1 DEF UpdatedTally
<1>4. \A a \in Progress : [a EXCEPT !.failed = 0] \in Progress
  BY DEF Progress
<1>5. \A a : StatusOf(a) \in CompletedStatuses
  BY DEF StatusOf, EnhanceJobStatusInfo, CompletedStatuses
<1>6. CompletedStatuses \subseteq JobStatus
  BY DEF CompletedStatuses, JobStatus
<1> QED BY <1>1, <1>2, <1>3, <1>4, <1>5, <1>6

(* An outcome counted in a summary makes a summary. *)
LEMMA SummaryType ==
    ASSUME NEW summary \in Summary, NEW outcome
    PROVE  Tallied(summary, outcome) \in Summary
<1>1. /\ [summary EXCEPT !.completed = @ + 1] \in Summary
      /\ [summary EXCEPT !.failed = @ + 1] \in Summary
      /\ [summary EXCEPT !.skipped = @ + 1] \in Summary
  BY DEF Summary
<1> QED BY <1>1 DEF Tallied

(* Each step of the engine keeps every variable in its type. *)
LEMMA TypeStep ==
    ASSUME TypeOK, OutcomeInv, OrderInv, Next
    PROVE  TypeOK'
<1> USE DEF TypeOK, SMTypeOK, planVars, orderVars, feVars, flagVars, schedVars, partVars,
            xferVars, handlerVars, cancelVars, smVars
<1>1. CASE AddJobPart
  BY <1>1, JobAssumption DEF AddJobPart, OrderInv
<1>2. CASE SetFinalPartOrdered
  BY <1>2 DEF SetFinalPartOrdered
<1>3. CASE QueueJobParts
  BY <1>3, JobAssumption DEF QueueJobParts, OrderInv
<1>4. CASE AnnounceJobPart
  <2>1. NumTransfers[orderPart] \in Nat /\ orderPart + 1 \in 0..NumParts
    BY <1>4, JobAssumption DEF AnnounceJobPart, OrderInv, Part
  <2>2. partCreated' \in Channel(JobPartCreatedMsg)
    <3> DEFINE msg == [transfers |-> NumTransfers[orderPart],
                       isFinalPart |-> orderPart = FinalPart]
    <3>1. msg \in JobPartCreatedMsg
      BY <2>1 DEF JobPartCreatedMsg
    <3>2. \/ partCreated' = [partCreated EXCEPT !.buf = Append(@, msg)]
          \/ partCreated' = [[partCreated EXCEPT !.buf = Append(@, msg)]
                                EXCEPT !.state = "closed"]
          \/ partCreated' = partCreated
          \/ partCreated' = [partCreated EXCEPT !.state = "closed"]
      BY <1>4 DEF AnnounceJobPart, SendJobPartCreated
    <3> DEFINE sent == [partCreated EXCEPT !.buf = Append(@, msg)]
    <3>3. sent \in Channel(JobPartCreatedMsg)
      BY <3>1, ChannelType
    <3> HIDE DEF sent, msg
    <3>4. [sent EXCEPT !.state = "closed"] \in Channel(JobPartCreatedMsg)
      BY <3>3, ChannelType
    <3>5. [partCreated EXCEPT !.state = "closed"] \in Channel(JobPartCreatedMsg)
      BY ChannelType
    <3> QED BY <3>2, <3>3, <3>4, <3>5 DEF sent
  <2> QED BY <1>4, <2>1, <2>2 DEF AnnounceJobPart, SendJobPartCreated
<1>5. CASE ScheduleTransfers
  <2>1. partsTaken' \in 0..NumParts /\ planStatus' \in JobStatus
    <3>1. partsTaken' \in 0..NumParts
      BY <1>5, JobAssumption DEF ScheduleTransfers
    <3>2. planStatus' \in JobStatus
      BY <1>5 DEF ScheduleTransfers, JobStatus
    <3> QED BY <3>1, <3>2
  <2>2. transfersDone' \in [Part -> Nat] /\ tally' \in [Part -> Progress]
    BY <1>5, ProgressType DEF ScheduleTransfers
  <2> QED BY <1>5, <2>1, <2>2 DEF ScheduleTransfers
<1>6. CASE ScheduleTransfer
  <2>1. xpc' \in [Transfer -> XferPcs]
    BY <1>6 DEF ScheduleTransfer, XferPcs
  <2> QED BY <1>6, <2>1 DEF ScheduleTransfer
<1>7. ASSUME NEW x \in Transfer, TransferProcessor(x)
      PROVE  TypeOK'
  <2>1. xpc' \in [Transfer -> XferPcs]
    BY <1>7 DEF TransferProcessor, XferPcs
  <2>2. xstatus' \in [Transfer -> TransferOutcomes \cup {"Started"}]
    BY <1>7 DEF TransferProcessor, SetStatus, TransferOutcomes
  <2> QED BY <1>7, <2>1, <2>2 DEF TransferProcessor
<1>8. ASSUME NEW x \in Transfer, AuthenticationFails(x)
      PROVE  TypeOK'
  <2>1. xstatus' \in [Transfer -> TransferOutcomes \cup {"Started"}]
    BY <1>8 DEF AuthenticationFails, SetStatus, TransferOutcomes
  <2> QED BY ZenonT(30), <1>8, <2>1 DEF AuthenticationFails
<1>9. ASSUME NEW x \in Transfer, FinishTransfer(x)
      PROVE  TypeOK'
  BY <1>9, CancellerAssumption DEF FinishTransfer, SetStatus, XferPcs, TransferOutcomes
<1>10. ASSUME NEW x \in Transfer, ReportToStatusManager(x)
       PROVE  TypeOK'
  <2>1. xpc' \in [Transfer -> XferPcs]
    BY <1>10 DEF ReportToStatusManager, XferPcs
  <2>2. xstatus[x] \in TransferOutcomes
    BY <1>10 DEF ReportToStatusManager, OutcomeInv
  <2>3. xferDone' \in Channel(TransferOutcomes)
    <3>1. \/ xferDone' = [xferDone EXCEPT !.buf = Append(@, xstatus[x])]
          \/ xferDone' = xferDone
      BY <1>10 DEF ReportToStatusManager, SendXferDone, SendXferDoneRecovered
    <3>2. [xferDone EXCEPT !.buf = Append(@, xstatus[x])] \in Channel(TransferOutcomes)
      BY <2>2, ChannelType
    <3> QED BY <3>1, <3>2
  <2> QED BY <1>10, <2>1, <2>3 DEF ReportToStatusManager, SendXferDone, SendXferDoneRecovered
<1>11. ASSUME NEW x \in Transfer, CountTransferDone(x)
       PROVE  TypeOK'
  BY <1>11, TransferShape DEF CountTransferDone, XferPcs
<1>12. ASSUME NEW x \in Transfer, UpdateJobPartProgress(x)
       PROVE  TypeOK'
  <2>1. xpc' \in [Transfer -> XferPcs]
    BY <1>12 DEF UpdateJobPartProgress, XferPcs
  <2>2. x[1] \in Part /\ tally[x[1]] \in Progress
    BY TransferShape
  <2>3. UpdatedTally(tally[x[1]], xstatus[x]) \in Progress
    BY <2>2, ProgressType
  <2>4. tally' \in [Part -> Progress]
    BY <1>12, <2>2, <2>3 DEF UpdateJobPartProgress
  <2> QED BY <1>12, <2>1, <2>4 DEF UpdateJobPartProgress
<1>13. ASSUME NEW x \in Transfer, ComposeJobPartProgress(x)
       PROVE  TypeOK'
  BY <1>13, TransferShape, ProgressType DEF ComposeJobPartProgress, XferPcs
<1>14. ASSUME NEW x \in Transfer, ReportJobPartDone(x)
       PROVE  TypeOK'
  <2>1. xpc' \in [Transfer -> XferPcs]
    BY <1>14 DEF ReportJobPartDone, XferPcs
  <2>2. partsDone' \in Nat /\ progress' \in Progress
    BY <1>14, ProgressType DEF ReportJobPartDone, ReceiveJobPartProgress
  <2> QED BY <1>14, <2>1, <2>2 DEF ReportJobPartDone, ReceiveJobPartProgress
<1>15. CASE HandlerClosesXferDone
  <2>1. xferDone' \in Channel(TransferOutcomes)
    BY <1>15, ChannelType DEF HandlerClosesXferDone, CloseXferDone
  <2> QED BY <1>15, <2>1 DEF HandlerClosesXferDone, CloseXferDone
<1>16. CASE HandlerWaitsForDrain \/ HandlerReadsStatus
  BY <1>16 DEF HandlerWaitsForDrain, HandlerReadsStatus
<1>17. CASE HandlerSetsJobStatus
  <2>1. planStatus' \in JobStatus
    BY <1>17, ProgressType DEF HandlerSetsJobStatus, JobStatus
  <2> QED BY <1>17, <2>1, ProgressType DEF HandlerSetsJobStatus
<1>18. CASE JobStatusManagerStep
  <2>1. CASE ReceivePartCreated
    <3>1. js' \in Summary
      <4> DEFINE msg == Head(partCreated.buf)
      <4>1. msg \in JobPartCreatedMsg
        BY <2>1, ChannelType DEF ReceivePartCreated
      <4> DEFINE total == js.total + msg.transfers
                 ordered == js.completeJobOrdered \/ msg.isFinalPart
      <4>2. js' = [js EXCEPT !.total = total, !.completeJobOrdered = ordered]
        BY <2>1 DEF ReceivePartCreated
      <4>3. total \in Nat
        BY <4>1 DEF JobPartCreatedMsg, Summary
      <4>4. ordered \in BOOLEAN
        OBVIOUS
      <4> HIDE DEF total, ordered
      <4> QED BY <4>2, <4>3, <4>4 DEF Summary
    <3>2. partCreated' \in Channel(JobPartCreatedMsg)
      BY <2>1, ChannelType DEF ReceivePartCreated
    <3> QED BY <1>18, <2>1, <3>1, <3>2 DEF JobStatusManagerStep, ReceivePartCreated
  <2>2. CASE PartCreatedClosed
    <3>1. partCreated' \in Channel(JobPartCreatedMsg)
      BY <2>2, ChannelType DEF PartCreatedClosed
    <3> QED BY <1>18, <2>2, <3>1 DEF JobStatusManagerStep, PartCreatedClosed
  <2>3. CASE ReceiveXferDone
    <3>1. js' \in Summary
      BY <2>3, SummaryType DEF ReceiveXferDone
    <3>2. xferDone' \in Channel(TransferOutcomes)
      BY <2>3, ChannelType DEF ReceiveXferDone
    <3> QED BY <1>18, <2>3, <3>1, <3>2 DEF JobStatusManagerStep, ReceiveXferDone
  <2>4. CASE XferDoneClosed
    <3>1. xferDone' \in Channel(TransferOutcomes)
      BY <2>4, ChannelType DEF XferDoneClosed
    <3> QED BY <1>18, <2>4, <3>1 DEF JobStatusManagerStep, XferDoneClosed
  <2> QED BY <1>18, <2>1, <2>2, <2>3, <2>4 DEF JobStatusManagerStep, StatusManagerStep
<1>19. ASSUME NEW c \in Canceller, UserCancelsOrPauses(c) \/ CancellerStep(c)
       PROVE  TypeOK'
  <2>1. CASE UserCancelsOrPauses(c)
    BY <2>1, CancellerAssumption DEF UserCancelsOrPauses
  <2>2. CASE CancellerReadsStatus(c)
    BY <2>2 DEF CancellerReadsStatus
  <2>3. CASE CancellerSetsJobStatus(c)
    BY <2>3 DEF CancellerSetsJobStatus, JobStatus
  <2>4. CASE CancelContext(c)
    BY <2>4 DEF CancelContext
  <2>5. CASE CancelSendsProgress(c)
    BY <2>5, ProgressType DEF CancelSendsProgress, ReceiveJobPartProgress
  <2> QED BY <1>19, <2>1, <2>2, <2>3, <2>4, <2>5 DEF CancellerStep
<1>20. CASE ListJobSummary \/ GetJobSummary
  BY <1>20 DEF ListJobSummary, AnswerListReq, GetJobSummary
<1> HIDE DEF TypeOK, SMTypeOK, planVars, orderVars, feVars, flagVars, schedVars, partVars,
             xferVars, handlerVars, cancelVars, smVars
<1> QED
  BY <1>1, <1>2, <1>3, <1>4, <1>5, <1>6, <1>7, <1>8, <1>9, <1>10, <1>11, <1>12, <1>13, <1>14,
     <1>15, <1>16, <1>17, <1>18, <1>19, <1>20
     DEF Next, OrderStep, TransferStep, HandlerStep

-----------------------------------------------------------------------------
(* Who changes what. *)

(* The variables the parts of the invariant are about, and the steps that  *)
(* change them.                                                            *)
LEMMA Footprint ==
    ASSUME Next
    PROVE  /\ \/ OrderStep
              \/ ScheduleTransfers
              \/ UNCHANGED <<orderVars, partsOrdered, finalPartOrdered, partsQueued, partsTaken>>
           /\ \/ ScheduleTransfers \/ ScheduleTransfer
              \/ \E x \in Transfer : TransferStep(x)
              \/ UNCHANGED <<xpc, wasLast, transfersDone, partsTaken, nextTransfer>>
           /\ \/ \E x \in Transfer : TransferStep(x) \/ AuthenticationFails(x)
              \/ ScheduleTransfer
              \/ UNCHANGED <<xpc, xstatus>>
<1> USE DEF planVars, orderVars, feVars, flagVars, schedVars, partVars, xferVars, handlerVars,
            cancelVars, smVars
<1>1. CASE OrderStep
  BY <1>1 DEF OrderStep, AddJobPart, SetFinalPartOrdered, QueueJobParts, AnnounceJobPart
<1>2. CASE ScheduleTransfers \/ ScheduleTransfer
  BY <1>2 DEF ScheduleTransfers, ScheduleTransfer
<1>3. ASSUME NEW x \in Transfer, TransferStep(x)
      PROVE  UNCHANGED <<orderVars, partsOrdered, finalPartOrdered, partsQueued, partsTaken>>
  BY <1>3 DEF TransferStep, TransferProcessor, FinishTransfer, ReportToStatusManager,
              CountTransferDone, UpdateJobPartProgress, ComposeJobPartProgress,
              ReportJobPartDone
<1>4. ASSUME NEW x \in Transfer, AuthenticationFails(x)
      PROVE  UNCHANGED <<orderVars, partsOrdered, finalPartOrdered, partsQueued, partsTaken,
                         xpc, wasLast, transfersDone, nextTransfer>>
  BY <1>4 DEF AuthenticationFails
<1> DEFINE Same == UNCHANGED <<orderVars, partsOrdered, finalPartOrdered, partsQueued, partsTaken,
                               xpc, wasLast, transfersDone, nextTransfer, xstatus>>
<1>5. CASE HandlerStep
  <2>1. Same
    BY <1>5 DEF HandlerStep, HandlerClosesXferDone, HandlerWaitsForDrain, HandlerReadsStatus,
                HandlerSetsJobStatus
  <2> QED BY <2>1
<1>6. CASE JobStatusManagerStep
  <2>1. Same
    BY <1>6 DEF JobStatusManagerStep
  <2> QED BY <2>1
<1>7. ASSUME NEW c \in Canceller, UserCancelsOrPauses(c) \/ CancellerStep(c)
      PROVE  Same
  BY <1>7 DEF UserCancelsOrPauses, CancellerStep, CancellerReadsStatus, CancellerSetsJobStatus,
              CancelContext, CancelSendsProgress
<1>8. CASE ListJobSummary \/ GetJobSummary
  <2>1. Same
    BY <1>8 DEF ListJobSummary, GetJobSummary
  <2> QED BY <2>1
<1> HIDE DEF planVars, orderVars, feVars, flagVars, schedVars, partVars, xferVars, handlerVars,
             cancelVars, smVars
<1>9. CASE \E c \in Canceller : UserCancelsOrPauses(c) \/ CancellerStep(c)
  BY <1>7, <1>9
<1>10. CASE \E x \in Transfer : TransferStep(x) \/ AuthenticationFails(x)
  BY <1>3, <1>4, <1>10
<1> QED BY <1>1, <1>2, <1>5, <1>6, <1>8, <1>9, <1>10 DEF Next

-----------------------------------------------------------------------------
(* The parts of the invariant that concern one goroutine. *)

(* A transfer's status is set before the transfer is reported. *)
LEMMA OutcomeStep ==
    ASSUME TypeOK, OutcomeInv, Next
    PROVE  OutcomeInv'
<1> USE DEF TypeOK, OutcomeInv
<1>1. CASE UNCHANGED <<xpc, xstatus>>
  BY <1>1
<1>2. CASE ScheduleTransfer
  BY <1>2 DEF ScheduleTransfer, planVars
<1>3. ASSUME NEW x \in Transfer, AuthenticationFails(x)
      PROVE  OutcomeInv'
  BY <1>3 DEF AuthenticationFails, SetStatus, xferVars
<1>4. ASSUME NEW x \in Transfer, TransferStep(x)
      PROVE  OutcomeInv'
  <2>1. CASE TransferProcessor(x)
    BY <2>1 DEF TransferProcessor, SetStatus
  <2>2. CASE FinishTransfer(x)
    BY <2>2, CancellerAssumption DEF FinishTransfer, SetStatus, TransferOutcomes
  <2>3. CASE ReportToStatusManager(x)
    BY <2>3 DEF ReportToStatusManager, planVars
  <2>4. CASE CountTransferDone(x)
    BY <2>4 DEF CountTransferDone, planVars
  <2>5. CASE UpdateJobPartProgress(x)
    BY <2>5 DEF UpdateJobPartProgress, planVars
  <2>6. CASE ComposeJobPartProgress(x)
    BY <2>6 DEF ComposeJobPartProgress
  <2>7. CASE ReportJobPartDone(x)
    BY <2>7 DEF ReportJobPartDone, planVars
  <2> QED BY <1>4, <2>1, <2>2, <2>3, <2>4, <2>5, <2>6, <2>7 DEF TransferStep
<1> QED BY <1>1, <1>2, <1>3, <1>4, Footprint

(* The front end's places follow one another, and the scheduler never gets *)
(* ahead of the channel.                                                   *)
LEMMA OrderInvStep ==
    ASSUME TypeOK, OrderInv, Next
    PROVE  OrderInv'
<1> USE JobAssumption DEF TypeOK, OrderInv, orderVars, flagVars, schedVars
<1>1. CASE UNCHANGED <<orderVars, partsOrdered, finalPartOrdered, partsQueued, partsTaken>>
  BY <1>1
<1>2. CASE OrderStep
  <2>1. CASE AddJobPart
    BY <2>1 DEF AddJobPart
  <2>2. CASE SetFinalPartOrdered
    BY <2>2 DEF SetFinalPartOrdered, FinalPart
  <2>3. CASE QueueJobParts
    BY <2>3 DEF QueueJobParts
  <2>4. CASE AnnounceJobPart
    BY <2>4 DEF AnnounceJobPart, FinalPart
  <2> QED BY <1>2, <2>1, <2>2, <2>3, <2>4 DEF OrderStep
<1>3. CASE ScheduleTransfers
  BY <1>3 DEF ScheduleTransfers
<1> QED BY <1>1, <1>2, <1>3, Footprint

(* The scheduler takes a part's transfers in their order. *)
LEMMA ScheduleStep ==
    ASSUME TypeOK, ScheduleInv, Next
    PROVE  ScheduleInv'
<1> USE DEF TypeOK, ScheduleInv, Unscheduled
<1>1. CASE UNCHANGED <<xpc, wasLast, transfersDone, partsTaken, nextTransfer>>
  BY <1>1
<1>2. CASE ScheduleTransfers
  <2>1. ASSUME NEW x \in Transfer
        PROVE  x[1] \in Nat /\ x[2] \in Nat /\ ~(x[2] >= NumTransfers[x[1]])
    <3>1. NumTransfers[x[1]] \in Nat
      BY TransferShape, JobAssumption
    <3> QED BY <3>1, TransferShape, JobAssumption DEF Part
  <2>2. ASSUME NEW x \in Transfer
        PROVE  (xpc[x] = "unscheduled") <=> x[1] >= partsTaken
    <3>1. CASE x[1] = partsTaken - 1
      <4>1. nextTransfer = NumTransfers[x[1]]
        BY <1>2, <2>1, <3>1 DEF ScheduleTransfers, SchedulerIdle
      <4> QED BY <2>1, <3>1, <4>1
    <3> QED BY <3>1
  <2>3. partsTaken \in Part /\ NumTransfers[partsTaken] \in Nat
    BY <1>2, JobAssumption DEF ScheduleTransfers, Part
  <2>4. xpc' = xpc /\ partsTaken' = partsTaken + 1 /\ nextTransfer' = 0
    BY <1>2 DEF ScheduleTransfers, xferVars
  <2>5. partsTaken' - 1 = partsTaken
    BY <2>4
  <2>6. ASSUME NEW x \in Transfer
        PROVE  Unscheduled(x)' <=> x[1] >= partsTaken
    BY <2>1, <2>4
  <2>7. (partsTaken > 0 => nextTransfer <= NumTransfers[partsTaken - 1])'
    BY <2>3, <2>4, <2>5
  <2> QED BY <2>2, <2>4, <2>6, <2>7
<1>3. CASE ScheduleTransfer
  <2> DEFINE next == <<partsTaken - 1, nextTransfer>>
  <2>1. partsTaken > 0 /\ nextTransfer < NumTransfers[partsTaken - 1]
        /\ NumTransfers[partsTaken - 1] \in Nat /\ partsTaken - 1 \in Part
    BY <1>3, JobAssumption DEF ScheduleTransfer, SchedulerIdle, Part
  <2>2. partsTaken' = partsTaken /\ nextTransfer' = nextTransfer + 1
        /\ xpc' = [xpc EXCEPT ![next] = "queued"]
    BY <1>3 DEF ScheduleTransfer
  <2>3. ASSUME NEW x \in Transfer
        PROVE  (xpc'[x] = "unscheduled") <=> Unscheduled(x)'
    <3>1. x[1] \in Int /\ x[2] \in Nat /\ x = <<x[1], x[2]>>
      BY TransferShape, JobAssumption DEF Part
    <3>2. (x = next) <=> (x[1] = partsTaken - 1 /\ x[2] = nextTransfer)
      BY <3>1
    <3> HIDE DEF next
    <3> QED BY <2>1, <2>2, <3>1, <3>2
  <2> QED BY <2>1, <2>2, <2>3
<1>4. ASSUME NEW x \in Transfer, TransferStep(x)
      PROVE  ScheduleInv'
  <2>1. UNCHANGED <<partsTaken, nextTransfer>>
    BY <1>4 DEF schedVars, TransferStep, TransferProcessor, FinishTransfer,
                ReportToStatusManager, CountTransferDone, UpdateJobPartProgress,
                ComposeJobPartProgress, ReportJobPartDone
  <2>2. \A y \in Transfer : (xpc'[y] = "unscheduled") <=> (xpc[y] = "unscheduled")
    BY <1>4 DEF TransferStep, TransferProcessor, FinishTransfer,
                ReportToStatusManager, CountTransferDone, UpdateJobPartProgress,
                ComposeJobPartProgress, ReportJobPartDone
  <2> QED BY <2>1, <2>2
<1> QED BY <1>1, <1>2, <1>3, <1>4, Footprint

-----------------------------------------------------------------------------
(* Counting a part's transfers. *)

(* A transfer becomes counted by CountTransferDone only, and stays so.     *)
LEMMA CountedStep ==
    ASSUME TypeOK, ScheduleInv, Next
    PROVE  \/ /\ \A y \in Transfer : Counted(y)' <=> Counted(y)
              /\ UNCHANGED wasLast
              /\ UNCHANGED transfersDone \/ ScheduleTransfers
           \/ \E x \in Transfer :
                 /\ CountTransferDone(x)
                 /\ \A y \in Transfer : Counted(y)' <=> (Counted(y) \/ y = x)
<1> USE DEF TypeOK, Counted
<1>1. CASE UNCHANGED <<xpc, wasLast, transfersDone, partsTaken, nextTransfer>>
  BY <1>1
<1>2. CASE ScheduleTransfers
  BY <1>2 DEF ScheduleTransfers, xferVars
<1>3. CASE ScheduleTransfer
  <2> DEFINE next == <<partsTaken - 1, nextTransfer>>
  <2>1. xpc' = [xpc EXCEPT ![next] = "queued"] /\ UNCHANGED <<wasLast, transfersDone>>
    BY <1>3 DEF ScheduleTransfer, partVars
  <2>2. ASSUME next \in Transfer
        PROVE  xpc[next] = "unscheduled"
    <3>1. next[1] = partsTaken - 1 /\ next[2] = nextTransfer
      OBVIOUS
    <3> HIDE DEF next
    <3> QED BY <2>2, <3>1 DEF ScheduleInv, Unscheduled
  <2> HIDE DEF next
  <2> QED BY <2>1, <2>2
<1>4. ASSUME NEW x \in Transfer, TransferStep(x), ~CountTransferDone(x)
      PROVE  /\ \A y \in Transfer : Counted(y)' <=> Counted(y)
             /\ UNCHANGED <<wasLast, transfersDone>>
  BY <1>4 DEF partVars, TransferStep, TransferProcessor, FinishTransfer, ReportToStatusManager,
              UpdateJobPartProgress, ComposeJobPartProgress, ReportJobPartDone
<1>5. ASSUME NEW x \in Transfer, CountTransferDone(x)
      PROVE  \A y \in Transfer : Counted(y)' <=> (Counted(y) \/ y = x)
  BY <1>5 DEF CountTransferDone
<1> QED BY <1>1, <1>2, <1>3, <1>4, <1>5, Footprint

(* A part's counter stays the number of transfers it has counted. *)
LEMMA CountStep ==
    ASSUME TypeOK, ScheduleInv, CountInv, Next
    PROVE  CountInv'
<1>1. ASSUME NEW p \in Part, \A y \in Transfer : Counted(y)' <=> Counted(y)
      PROVE  CountedOf(p)' = CountedOf(p)
  BY <1>1, PartShape DEF CountedOf
<1>2. CASE /\ \A y \in Transfer : Counted(y)' <=> Counted(y)
           /\ UNCHANGED transfersDone
  BY <1>1, <1>2 DEF CountInv
<1>3. CASE /\ \A y \in Transfer : Counted(y)' <=> Counted(y)
           /\ ScheduleTransfers
  <2>1. transfersDone' = [transfersDone EXCEPT ![partsTaken] = 0]
    BY <1>3 DEF ScheduleTransfers
  <2>2. ASSUME NEW p \in Part, p = partsTaken
        PROVE  CountedOf(p) = {}
    <3>1. ASSUME NEW x \in TransfersOf(p)
          PROVE  xpc[x] = "unscheduled"
      BY <2>2, PartShape, JobAssumption DEF ScheduleInv, Unscheduled, Part
    <3> QED BY <3>1 DEF CountedOf, Counted
  <2>3. ASSUME NEW p \in Part
        PROVE  transfersDone'[p] = Cardinality(CountedOf(p)')
    BY <1>1, <1>3, <2>1, <2>2, FS_EmptySet DEF CountInv, TypeOK
  <2> QED BY <2>3 DEF CountInv
<1>4. ASSUME NEW x \in Transfer, CountTransferDone(x),
             \A y \in Transfer : Counted(y)' <=> (Counted(y) \/ y = x)
      PROVE  CountInv'
  <2>1. transfersDone' = [transfersDone EXCEPT ![x[1]] = @ + 1] /\ ~Counted(x)
    BY <1>4 DEF CountTransferDone, Counted
  <2>2. ASSUME NEW p \in Part, p = x[1]
        PROVE  transfersDone'[p] = Cardinality(CountedOf(p)')
    <3>1. CountedOf(p)' = CountedOf(p) \cup {x} /\ x \notin CountedOf(p)
      BY <1>4, <2>1, <2>2, PartShape, TransferShape DEF CountedOf
    <3>2. IsFiniteSet(CountedOf(p))
      BY PartShape, FS_Subset DEF CountedOf
    <3>3. Cardinality(CountedOf(p)') = Cardinality(CountedOf(p)) + 1
      BY <3>1, <3>2, FS_AddElement
    <3> QED BY <2>1, <2>2, <3>3 DEF CountInv, TypeOK
  <2>3. ASSUME NEW p \in Part, p # x[1]
        PROVE  transfersDone'[p] = Cardinality(CountedOf(p)')
    <3>1. CountedOf(p)' = CountedOf(p)
      BY <1>4, <2>3, PartShape DEF CountedOf
    <3> QED BY <2>1, <2>3, <3>1 DEF CountInv, TypeOK
  <2> QED BY <2>2, <2>3 DEF CountInv
<1> QED BY <1>2, <1>3, <1>4, CountedStep

(* One transfer of a part finds itself the last: it is the one whose call  *)
(* made the counter the number of the part's transfers.                    *)
LEMMA OneTransferStep ==
    ASSUME TypeOK, ScheduleInv, CountInv, OneTransferReportsThePart, Next
    PROVE  OneTransferReportsThePart'
<1>1. CASE /\ \A y \in Transfer : Counted(y)' <=> Counted(y)
           /\ UNCHANGED wasLast
  <2>1. ASSUME NEW z \in Transfer, NEW y \in TransfersOf(z[1])
        PROVE  Counted(y)' <=> Counted(y)
    BY <1>1, TransferShape, PartShape
  <2> QED BY <1>1, <2>1 DEF OneTransferReportsThePart
<1>2. ASSUME NEW x \in Transfer, CountTransferDone(x),
             \A y \in Transfer : Counted(y)' <=> (Counted(y) \/ y = x)
      PROVE  OneTransferReportsThePart'
  <2> DEFINE p == x[1]
  <2>1. p \in Part /\ x \in TransfersOf(p) /\ ~Counted(x)
    BY <1>2, TransferShape DEF CountTransferDone, Counted
  <2>2. wasLast' = [wasLast EXCEPT ![x] = (transfersDone[p] + 1 = NumTransfers[p])]
    BY <1>2 DEF CountTransferDone
  <2>3. \A y \in TransfersOf(p) : ~wasLast[y]
    BY <2>1, PartShape DEF OneTransferReportsThePart
  <2>4. ASSUME wasLast'[x]
        PROVE  \A y \in TransfersOf(p) : Counted(y)'
    <3>1. transfersDone[p] + 1 = NumTransfers[p]
      BY <2>2, <2>4 DEF TypeOK
    <3>2. CountedOf(p)' = CountedOf(p) \cup {x} /\ x \notin CountedOf(p)
      BY <1>2, <2>1, PartShape DEF CountedOf
    <3>3. IsFiniteSet(CountedOf(p))
      BY <2>1, PartShape, FS_Subset DEF CountedOf
    <3>4. Cardinality(CountedOf(p)') = Cardinality(TransfersOf(p))
      <4>1. Cardinality(CountedOf(p) \cup {x}) = Cardinality(CountedOf(p)) + 1
        BY <3>2, <3>3, FS_AddElement
      <4>2. Cardinality(CountedOf(p)) = transfersDone[p]
        BY <2>1 DEF CountInv
      <4>3. Cardinality(TransfersOf(p)) = NumTransfers[p]
        BY <2>1, PartShape
      <4> QED BY <3>1, <3>2, <4>1, <4>2, <4>3
    <3>5. CountedOf(p)' \in SUBSET TransfersOf(p)
      BY DEF CountedOf
    <3>6. CountedOf(p)' = TransfersOf(p)
      BY <2>1, <3>4, <3>5, PartShape, FS_Subset
    <3> QED BY <3>6 DEF CountedOf
  <2>5. ASSUME NEW z \in Transfer, wasLast'[z], NEW y \in TransfersOf(z[1])
        PROVE  Counted(y)' /\ (wasLast'[y] => y = z)
    <3>1. y \in Transfer /\ y[1] = z[1] /\ z \in TransfersOf(z[1])
      BY TransferShape, PartShape
    <3>2. CASE z[1] = p
      <4>1. z = x
        BY <2>2, <2>3, <2>5, <3>1, <3>2 DEF TypeOK
      <4> QED BY <2>2, <2>3, <2>4, <2>5, <3>1, <4>1 DEF TypeOK
    <3>3. CASE z[1] # p
      <4>1. wasLast[z] /\ wasLast'[y] = wasLast[y]
        BY <2>2, <2>5, <3>1, <3>3 DEF TypeOK
      <4> QED BY <1>2, <3>1, <4>1 DEF OneTransferReportsThePart
    <3> QED BY <3>2, <3>3
  <2> HIDE DEF p
  <2> QED BY <2>5 DEF OneTransferReportsThePart
<1> QED BY <1>1, <1>2, CountedStep

(* Only that transfer goes on to report its part. *)
LEMMA LastStep ==
    ASSUME TypeOK, LastInv, Next
    PROVE  LastInv'
<1> USE DEF TypeOK, LastInv
<1>1. CASE UNCHANGED <<xpc, wasLast, transfersDone, partsTaken, nextTransfer>>
  BY <1>1
<1>2. CASE ScheduleTransfers
  BY <1>2 DEF ScheduleTransfers, xferVars
<1>3. CASE ScheduleTransfer
  BY <1>3 DEF ScheduleTransfer
<1>4. ASSUME NEW x \in Transfer, TransferStep(x)
      PROVE  LastInv'
  BY <1>4 DEF TransferStep, TransferProcessor, FinishTransfer, ReportToStatusManager,
              CountTransferDone, UpdateJobPartProgress, ComposeJobPartProgress,
              ReportJobPartDone
<1> QED BY <1>1, <1>2, <1>3, <1>4, Footprint

-----------------------------------------------------------------------------
(* The handler, the cancellers and the status of the job. *)

(* A part that has reported stays so, and it is one more only when the     *)
(* transfer that was its last reports it.                                  *)
LEMMA ReportedStep ==
    ASSUME TypeOK, ScheduleInv, LastInv, OneTransferReportsThePart, Next
    PROVE  \/ Reported' = Reported /\ \A x \in Transfer : ~ReportJobPartDone(x)
           \/ \E x \in Transfer :
                 /\ ReportJobPartDone(x)
                 /\ x[1] \notin Reported
                 /\ Reported' = Reported \cup {x[1]}
<1> USE DEF TypeOK
<1> DEFINE Sent(x) == wasLast[x] /\ xpc[x] = "finished"
<1>1. ASSUME \A x \in Transfer : Sent(x)' <=> Sent(x)
      PROVE  Reported' = Reported
  <2>1. ASSUME NEW p \in Part
        PROVE  PartReported(p)' <=> PartReported(p)
    BY <1>1, PartShape DEF PartReported
  <2> QED BY <2>1 DEF Reported
<1>2. ASSUME NEW x \in Transfer, ReportJobPartDone(x)
      PROVE  /\ x[1] \notin Reported
             /\ Reported' = Reported \cup {x[1]}
  <2>1. x[1] \in Part /\ x \in TransfersOf(x[1]) /\ wasLast[x] /\ xpc[x] = "reportJobPartDone"
    BY <1>2, TransferShape DEF ReportJobPartDone, LastInv
  <2>2. x[1] \notin Reported
    BY <2>1, PartShape DEF Reported, PartReported, OneTransferReportsThePart
  <2>3. wasLast' = wasLast /\ xpc' = [xpc EXCEPT ![x] = "finished"]
    BY <1>2 DEF ReportJobPartDone
  <2>4. ASSUME NEW p \in Part
        PROVE  PartReported(p)' <=> (PartReported(p) \/ p = x[1])
    BY <2>1, <2>3, PartShape DEF PartReported
  <2> QED BY <2>1, <2>2, <2>4 DEF Reported
<1>3. ASSUME Next, \A x \in Transfer : ~ReportJobPartDone(x)
      PROVE  \A x \in Transfer : Sent(x)' <=> Sent(x)
  <2>1. CASE UNCHANGED <<xpc, wasLast, transfersDone, partsTaken, nextTransfer>>
    BY <2>1
  <2>2. CASE ScheduleTransfers
    BY <2>2 DEF ScheduleTransfers, xferVars
  <2>3. CASE ScheduleTransfer
    <3> DEFINE next == <<partsTaken - 1, nextTransfer>>
    <3>1. xpc' = [xpc EXCEPT ![next] = "queued"] /\ UNCHANGED wasLast
      BY <2>3 DEF ScheduleTransfer
    <3>2. ASSUME next \in Transfer
          PROVE  xpc[next] = "unscheduled"
      <4>1. next[1] = partsTaken - 1 /\ next[2] = nextTransfer
        OBVIOUS
      <4> HIDE DEF next
      <4> QED BY <3>2, <4>1 DEF ScheduleInv, Unscheduled
    <3> HIDE DEF next
    <3> QED BY <3>1, <3>2
  <2>4. ASSUME NEW x \in Transfer, TransferStep(x)
        PROVE  \A y \in Transfer : Sent(y)' <=> Sent(y)
    <3>1. CASE UpdateJobPartProgress(x)
      BY <3>1 DEF UpdateJobPartProgress
    <3>2. CASE ~UpdateJobPartProgress(x)
      BY <1>3, <2>4, <3>2
         DEF TransferStep, TransferProcessor, FinishTransfer, ReportToStatusManager,
             CountTransferDone, ComposeJobPartProgress
    <3> QED BY <3>1, <3>2
  <2> QED BY <1>3, <2>1, <2>2, <2>3, <2>4, Footprint
<1> HIDE DEF Sent
<1> QED BY <1>1, <1>2, <1>3

(* When all parts have reported, all have been ordered and all transfers   *)
(* have been counted.                                                      *)
LEMMA AllReported ==
    ASSUME TypeOK, OrderInv, ScheduleInv, OneTransferReportsThePart, Reported = Part
    PROVE  partsOrdered = NumParts /\ \A x \in Transfer : Counted(x)
<1>1. ASSUME NEW p \in Part
      PROVE  p < partsTaken /\ \A y \in TransfersOf(p) : Counted(y)
  <2>1. PICK x \in TransfersOf(p) : wasLast[x] /\ xpc[x] = "finished"
    BY <1>1 DEF Reported, PartReported
  <2>2. x \in Transfer /\ x[1] = p
    BY <2>1, PartShape
  <2>3. ~(p >= partsTaken)
    BY <2>1, <2>2 DEF ScheduleInv, Unscheduled
  <2> QED BY <2>1, <2>2, <2>3, JobAssumption DEF OneTransferReportsThePart, TypeOK, Part
<1>2. FinalPart \in Part
  BY JobAssumption DEF FinalPart, Part
<1>3. partsOrdered = NumParts
  BY <1>1, <1>2, JobAssumption DEF OrderInv, TypeOK, FinalPart
<1> QED BY <1>1, <1>3, TransferShape

(* What the handler relies on survives every step: parts that report one   *)
(* by one, cancellations at any moment, and the handler's own decisions.   *)
LEMMA HandlerInvStep ==
    ASSUME IndInv, Next
    PROVE  HandlerInv'
<1> USE DEF HandlerInv
<1>1. TypeOK /\ OrderInv /\ ScheduleInv /\ LastInv /\ OneTransferReportsThePart /\ OutcomeInv
      /\ HandlerInv
  BY DEF IndInv
<1>2. TypeOK'
  BY <1>1, TypeStep
<1>3. partsOrdered = NumParts => partsOrdered' = NumParts
  <2>1. CASE AddJobPart
    BY <1>1, <2>1, JobAssumption DEF AddJobPart, OrderInv, TypeOK
  <2>2. CASE ~AddJobPart
    BY <1>1, <2>2, Footprint
       DEF OrderStep, SetFinalPartOrdered, QueueJobParts, AnnounceJobPart, ScheduleTransfers,
           flagVars
  <2> QED BY <2>1, <2>2
<1>4. \A x \in Transfer : ReportJobPartDone(x) =>
          x[1] \notin Reported /\ Reported' = Reported \cup {x[1]}
  BY <1>1, ReportedStep DEF ReportJobPartDone, TypeOK
<1>5. Reported' = Reported \/ \E x \in Transfer : ReportJobPartDone(x)
  BY <1>1, ReportedStep
<1>6. CASE /\ Reported' = Reported
           /\ UNCHANGED <<planStatus, partsDone, hpc, statusRead>>
           /\ \A c \in Canceller : cpc'[c] \in {cpc[c], "readStatus"}
  BY <1>1, <1>3, <1>6
<1>7. CASE ScheduleTransfers
  <2>1. UNCHANGED <<partsDone, hpc, statusRead, cpc>>
    BY <1>7 DEF ScheduleTransfers, handlerVars, cancelVars
  <2>2. Reported' = Reported
    BY <1>1, <1>5, <1>7 DEF ScheduleTransfers, xferVars, ReportJobPartDone, TypeOK
  <2>3. CASE planStatus' = planStatus
    BY <1>1, <1>3, <2>1, <2>2, <2>3
  <2>4. CASE planStatus' = "Completed" /\ partsTaken = 0 /\ NumTransfers[0] = 0
    <3>1. NumParts = 1 /\ partsTaken < partsQueued
      BY <1>7, <2>4, JobAssumption DEF ScheduleTransfers, Part
    <3>2. partsOrdered = NumParts
      BY <1>1, <3>1, <2>4 DEF OrderInv, TypeOK
    <3>3. Transfer = {}
      BY <2>4, <3>1, TransferShape DEF Part
    <3> QED BY <1>1, <1>3, <2>1, <2>2, <2>4, <3>2, <3>3
  <2> QED BY <1>7, <2>3, <2>4 DEF ScheduleTransfers
<1>8. ASSUME NEW x \in Transfer, ReportJobPartDone(x)
      PROVE  HandlerInv'
  <2>1. UNCHANGED <<planStatus, statusRead, cpc, partsOrdered>>
    BY <1>8 DEF ReportJobPartDone, ReceiveJobPartProgress, planVars, flagVars, cancelVars
  <2>2. hpc = "receive" /\ hpc' \in {"receive", "closeXferDone"} /\ partsDone' = partsDone + 1
    BY <1>8 DEF ReportJobPartDone, ReceiveJobPartProgress
  <2>3. x[1] \notin Reported /\ x[1] \in Part /\ Reported' = Reported \cup {x[1]}
    BY <1>4, <1>8, TransferShape
  <2>4. Reported \in SUBSET Part /\ Reported' \in SUBSET Part
    BY <2>3 DEF Reported
  <2>5. Cardinality(Reported') = Cardinality(Reported) + 1
    BY <2>3, <2>4, PartsCount, FS_Subset, FS_AddElement
  <2>6. ASSUME planStatus = "InProgress", hpc' # "receive"
        PROVE  Reported' = Part
    <3>1. partsDone + 1 = partsOrdered /\ finalPartOrdered
      BY <1>8, <2>6 DEF ReportJobPartDone, ReceiveJobPartProgress
    <3>2. Cardinality(Reported') = Cardinality(Part)
      BY <1>1, <2>5, <2>6, <3>1, PartsCount DEF OrderInv
    <3> QED BY <2>4, <3>2, PartsCount, FS_Subset
  <2>7. Reported = Part => Reported' = Part
    BY <2>3, <2>4
  <2> QED BY <1>1, <2>1, <2>2, <2>5, <2>6, <2>7
<1>9. CASE HandlerStep
  <2>1. Reported' = Reported /\ UNCHANGED <<cpc, partsOrdered>>
    BY <1>1, <1>5, <1>9 DEF HandlerStep, HandlerClosesXferDone, HandlerWaitsForDrain,
                      HandlerReadsStatus, HandlerSetsJobStatus, ReportJobPartDone,
                      xferVars, cancelVars, flagVars, TypeOK
  <2>2. CASE HandlerClosesXferDone \/ HandlerWaitsForDrain
    BY <1>1, <2>1, <2>2 DEF HandlerClosesXferDone, HandlerWaitsForDrain, planVars
  <2>3. CASE HandlerReadsStatus
    BY <1>1, <2>1, <2>3 DEF HandlerReadsStatus, planVars
  <2>4. CASE HandlerSetsJobStatus
    <3>1. hpc' = "receive" /\ hpc = "setJobStatus"
      BY <2>4 DEF HandlerSetsJobStatus
    <3>2. planStatus' # "InProgress"
      BY <1>1, <2>4, ProgressType DEF HandlerSetsJobStatus, CompletedStatuses
    <3>3. planStatus' \in CompletedStatuses =>
              planStatus' = planStatus \/ statusRead = "InProgress"
      BY <2>4 DEF HandlerSetsJobStatus, CompletedStatuses
    <3> QED BY <1>1, <2>1, <3>1, <3>2, <3>3
  <2> QED BY <1>9, <2>2, <2>3, <2>4 DEF HandlerStep
<1>10. ASSUME NEW c \in Canceller, CancellerStep(c)
       PROVE  HandlerInv'
  <2>1. Reported' = Reported /\ UNCHANGED <<partsOrdered, statusRead>>
    BY <1>1, <1>5, <1>10
       DEF CancellerStep, CancellerReadsStatus, CancellerSetsJobStatus, CancelContext,
           CancelSendsProgress, ReceiveJobPartProgress, ReportJobPartDone, xferVars,
           handlerVars, flagVars, TypeOK
  <2>2. CASE CancellerReadsStatus(c)
    BY <1>1, <2>1, <2>2 DEF CancellerReadsStatus, planVars, handlerVars, TypeOK
  <2>3. CASE CancellerSetsJobStatus(c)
    <3>1. planStatus' \in {"Cancelling", "Paused"} /\ UNCHANGED hpc
      BY <1>1, <2>3 DEF CancellerSetsJobStatus, handlerVars, TypeOK
    <3> QED BY <1>1, <2>1, <3>1 DEF CompletedStatuses
  <2>4. CASE CancelContext(c) \/ CancelSendsProgress(c)
    <3>1. planStatus # "InProgress" /\ UNCHANGED planStatus
      BY <1>1, <2>4 DEF CancelContext, CancelSendsProgress, planVars
    <3>2. hpc' = hpc \/ hpc' # "setJobStatus"
      BY <2>4 DEF CancelContext, CancelSendsProgress, ReceiveJobPartProgress, handlerVars
    <3> QED BY <1>1, <2>1, <3>1, <3>2
  <2> QED BY <1>10, <2>2, <2>3, <2>4 DEF CancellerStep
<1>11. CASE OrderStep \/ ScheduleTransfer \/ JobStatusManagerStep \/ ListJobSummary \/ GetJobSummary
  <2>1. UNCHANGED <<planStatus, partsDone, hpc, statusRead, cpc>>
    BY <1>11 DEF OrderStep, AddJobPart, SetFinalPartOrdered, QueueJobParts, AnnounceJobPart,
                 ScheduleTransfer, JobStatusManagerStep, ListJobSummary, GetJobSummary,
                 planVars, handlerVars, cancelVars
  <2> QED BY <1>5, <1>6, <1>8, <2>1
<1>12. ASSUME NEW x \in Transfer, TransferStep(x), ~ReportJobPartDone(x)
       PROVE  HandlerInv'
  <2>1. UNCHANGED <<planStatus, partsDone, hpc, statusRead, cpc>>
    BY <1>12 DEF TransferStep, TransferProcessor, FinishTransfer, ReportToStatusManager,
                 CountTransferDone, UpdateJobPartProgress, ComposeJobPartProgress,
                 planVars, handlerVars, cancelVars
  <2> QED BY <1>5, <1>6, <1>8, <2>1
<1>13. ASSUME NEW x \in Transfer, AuthenticationFails(x)
       PROVE  HandlerInv'
  <2>1. UNCHANGED <<planStatus, partsDone, hpc, statusRead>>
        /\ cpc' = [cpc EXCEPT ![x] = "readStatus"]
    BY <1>13 DEF AuthenticationFails, handlerVars
  <2>2. \A c \in Canceller : cpc'[c] \in {cpc[c], "readStatus"}
    BY <1>1, <2>1 DEF TypeOK
  <2> QED BY <1>5, <1>6, <1>8, <2>1, <2>2
<1>14. ASSUME NEW c \in Canceller, UserCancelsOrPauses(c)
       PROVE  HandlerInv'
  <2>1. UNCHANGED <<planStatus, partsDone, hpc, statusRead>>
        /\ cpc' = [cpc EXCEPT ![c] = "readStatus"]
    BY <1>14 DEF UserCancelsOrPauses, handlerVars, planVars
  <2>2. \A d \in Canceller : cpc'[d] \in {cpc[d], "readStatus"}
    BY <1>1, <2>1 DEF TypeOK
  <2> QED BY <1>5, <1>6, <1>8, <2>1, <2>2
<1> HIDE DEF HandlerInv
<1> QED BY <1>7, <1>8, <1>9, <1>10, <1>11, <1>12, <1>13, <1>14 DEF Next

(* The channel is closed only while the handler waits for the drain.       *)
LEMMA XferDoneStep ==
    ASSUME TypeOK, XferDoneInv, Next
    PROVE  XferDoneInv'
<1> USE DEF XferDoneInv
<1> DEFINE Same == UNCHANGED <<xferDone, xferDoneDrained>>
<1>1. xferDone \in Channel(TransferOutcomes)
  BY DEF TypeOK, SMTypeOK
<1>2. CASE Same /\ (hpc' = hpc \/ hpc = "receive")
  BY <1>2
<1>3. CASE HandlerStep
  <2>1. CASE HandlerClosesXferDone
    BY <1>1, <2>1 DEF HandlerClosesXferDone, CloseXferDone, Channel
  <2>2. CASE HandlerWaitsForDrain
    BY <2>2 DEF HandlerWaitsForDrain, smVars
  <2>3. CASE HandlerReadsStatus
    BY <2>3 DEF HandlerReadsStatus, smVars
  <2>4. CASE HandlerSetsJobStatus
    BY <2>4 DEF HandlerSetsJobStatus, smVars
  <2> QED BY <1>3, <2>1, <2>2, <2>3, <2>4 DEF HandlerStep
<1>4. CASE JobStatusManagerStep
  <2>1. UNCHANGED hpc
    BY <1>4 DEF JobStatusManagerStep, handlerVars
  <2>2. CASE ReceivePartCreated \/ PartCreatedClosed
    BY <2>1, <2>2 DEF ReceivePartCreated, PartCreatedClosed
  <2>3. CASE ReceiveXferDone
    BY <1>1, <2>1, <2>3 DEF ReceiveXferDone, Channel
  <2>4. CASE XferDoneClosed
    BY <1>1, <2>1, <2>4 DEF XferDoneClosed, Channel
  <2> QED BY <1>4, <2>2, <2>3, <2>4 DEF JobStatusManagerStep, StatusManagerStep
<1>5. CASE OrderStep
  BY <1>2, <1>5 DEF OrderStep, AddJobPart, SetFinalPartOrdered, QueueJobParts, AnnounceJobPart,
                    SendJobPartCreated, smVars, handlerVars
<1>6. CASE ScheduleTransfers \/ ScheduleTransfer \/ ListJobSummary \/ GetJobSummary
  BY <1>2, <1>6 DEF ScheduleTransfers, ScheduleTransfer, ListJobSummary, AnswerListReq,
                    GetJobSummary, smVars, handlerVars
<1>7. ASSUME NEW x \in Transfer, TransferStep(x) \/ AuthenticationFails(x)
      PROVE  XferDoneInv'
  <2>1. CASE ReportToStatusManager(x)
    BY <1>1, <2>1 DEF ReportToStatusManager, SendXferDone, SendXferDoneRecovered, smVars,
                      handlerVars, Channel
  <2>2. CASE ~ReportToStatusManager(x)
    BY <1>2, <1>7, <2>2
       DEF TransferStep, TransferProcessor, FinishTransfer, CountTransferDone,
           UpdateJobPartProgress, ComposeJobPartProgress, ReportJobPartDone,
           ReceiveJobPartProgress, AuthenticationFails, smVars, handlerVars
  <2> QED BY <2>1, <2>2
<1>8. ASSUME NEW c \in Canceller, UserCancelsOrPauses(c) \/ CancellerStep(c)
      PROVE  XferDoneInv'
  BY <1>2, <1>8
     DEF UserCancelsOrPauses, CancellerStep, CancellerReadsStatus, CancellerSetsJobStatus,
         CancelContext, CancelSendsProgress, ReceiveJobPartProgress, smVars, handlerVars
<1> HIDE DEF XferDoneInv
<1> QED BY <1>3, <1>4, <1>5, <1>6, <1>7, <1>8 DEF Next

(* A job nobody cancels is completed once. *)
LEMMA UndisturbedStep ==
    ASSUME IndInv, Next
    PROVE  UndisturbedInv'
<1> SUFFICES ASSUME Canceller = {}
             PROVE  UndisturbedInv'
  BY DEF UndisturbedInv
<1> USE DEF UndisturbedInv
<1>1. TypeOK /\ OrderInv /\ ScheduleInv /\ LastInv /\ OneTransferReportsThePart /\ HandlerInv
      /\ UndisturbedInv
  BY DEF IndInv
<1>2. Reported = Part => Transfer # {} /\ partsTaken # 0
  <2>1. 0 \in Part
    BY JobAssumption DEF Part
  <2>2. ASSUME Reported = Part
        PROVE  \E x \in Transfer : x[1] = 0 /\ xpc[x] # "unscheduled"
    BY <2>1, <2>2, PartShape DEF Reported, PartReported
  <2> QED BY <1>1, <2>2 DEF ScheduleInv, Unscheduled, TypeOK
<1>3. CASE UNCHANGED <<planStatus, hpc>>
  BY <1>1, <1>3
<1>4. CASE ScheduleTransfers
  <2>1. UNCHANGED hpc
    BY <1>4 DEF ScheduleTransfers, handlerVars
  <2>2. CASE partsTaken = 0 /\ NumTransfers[0] = 0
    <3>1. planStatus' = "Completed"
      BY <1>4, <2>2 DEF ScheduleTransfers
    <3>2. hpc = "receive"
      BY <1>1, <1>2, <2>2 DEF HandlerInv
    <3> QED BY <1>1, <2>1, <3>1, <3>2 DEF CompletedStatuses
  <2>3. CASE ~(partsTaken = 0 /\ NumTransfers[0] = 0)
    BY <1>1, <1>4, <2>1, <2>3 DEF ScheduleTransfers
  <2> QED BY <2>2, <2>3
<1>5. ASSUME NEW x \in Transfer, ReportJobPartDone(x)
      PROVE  UndisturbedInv'
  <2>1. UNCHANGED planStatus
    BY <1>5 DEF ReportJobPartDone, planVars
  <2>2. x[1] \notin Reported /\ x[1] \in Part
    BY <1>1, <1>5, ReportedStep, TransferShape DEF ReportJobPartDone, TypeOK
  <2>3. planStatus \notin CompletedStatuses
    BY <1>1, <2>2 DEF HandlerInv
  <2> QED BY <1>1, <2>1, <2>3
<1>6. CASE HandlerClosesXferDone \/ HandlerWaitsForDrain \/ HandlerReadsStatus
  BY <1>1, <1>6 DEF HandlerClosesXferDone, HandlerWaitsForDrain, HandlerReadsStatus, planVars
<1>7. CASE HandlerSetsJobStatus
  <2>1. hpc' = "receive" /\ hpc = "setJobStatus"
    BY <1>7 DEF HandlerSetsJobStatus
  <2>2. Transfer # {} /\ statusRead = "InProgress"
    BY <1>1, <1>2, <2>1 DEF HandlerInv
  <2>3. planStatus' \in CompletedStatuses
    BY <1>7, <2>2, ProgressType DEF HandlerSetsJobStatus
  <2> QED BY <2>1, <2>2, <2>3
<1>8. CASE OrderStep \/ ScheduleTransfer \/ JobStatusManagerStep \/ ListJobSummary \/ GetJobSummary
  BY <1>3, <1>8 DEF OrderStep, AddJobPart, SetFinalPartOrdered, QueueJobParts, AnnounceJobPart,
                    ScheduleTransfer, JobStatusManagerStep, ListJobSummary, GetJobSummary,
                    planVars, handlerVars
<1>9. ASSUME NEW x \in Transfer, TransferStep(x) \/ AuthenticationFails(x), ~ReportJobPartDone(x)
      PROVE  UndisturbedInv'
  <2>1. UNCHANGED <<planStatus, hpc>>
    BY <1>9 DEF TransferStep, TransferProcessor, FinishTransfer, ReportToStatusManager,
                CountTransferDone, UpdateJobPartProgress, ComposeJobPartProgress,
                AuthenticationFails, planVars, handlerVars
  <2> QED BY <1>3, <2>1
<1> HIDE DEF UndisturbedInv
<1> QED BY <1>4, <1>5, <1>6, <1>7, <1>8, <1>9 DEF Next, HandlerStep

-----------------------------------------------------------------------------
(* The summary. *)

(* How many values of a buffer are in a set, when one is sent. *)
LEMMA AppendCount ==
    ASSUME NEW S, NEW s \in Seq(S), NEW e \in S, NEW K
    PROVE  /\ IsFiniteSet(Among(s, K)) /\ Cardinality(Among(s, K)) \in Nat
           /\ Cardinality(Among(Append(s, e), K)) =
                  Cardinality(Among(s, K)) + (IF e \in K THEN 1 ELSE 0)
<1> DEFINE longer == Append(s, e)
<1>1. DOMAIN s = 1..Len(s) /\ Len(s) \in Nat
  OBVIOUS
<1>2. IsFiniteSet(Among(s, K)) /\ Cardinality(Among(s, K)) \in Nat
  <2>1. IsFiniteSet(1..Len(s)) /\ Among(s, K) \subseteq 1..Len(s)
    BY <1>1, FS_Interval DEF Among
  <2> QED BY <2>1, FS_Subset, FS_CardinalityType
<1>3. /\ DOMAIN longer = 1..(Len(s) + 1)
      /\ \A i \in 1..Len(s) : longer[i] = s[i]
      /\ longer[Len(s) + 1] = e
  OBVIOUS
<1> HIDE DEF longer
<1>4. CASE e \in K
  <2>1. Among(longer, K) = Among(s, K) \cup {Len(s) + 1} /\ Len(s) + 1 \notin Among(s, K)
    BY <1>1, <1>3, <1>4 DEF Among
  <2>2. Cardinality(Among(longer, K)) = Cardinality(Among(s, K)) + 1
    BY <1>2, <2>1, FS_AddElement
  <2> QED BY <1>2, <1>4, <2>2 DEF longer
<1>5. CASE e \notin K
  <2>1. Among(longer, K) = Among(s, K)
    BY <1>1, <1>3, <1>5 DEF Among
  <2> QED BY <1>2, <1>5, <2>1 DEF longer
<1> QED BY <1>2, <1>4, <1>5

(* The same when its head is received. *)
LEMMA TailCount ==
    ASSUME NEW S, NEW s \in Seq(S), s # <<>>, NEW K
    PROVE  /\ Cardinality(Among(Tail(s), K)) \in Nat
           /\ Cardinality(Among(s, K)) =
                  Cardinality(Among(Tail(s), K)) + (IF Head(s) \in K THEN 1 ELSE 0)
<1> DEFINE rest == Tail(s)
           later == Among(s, K) \ {1}
           Shift == [i \in Among(rest, K) |-> i + 1]
<1>1. /\ DOMAIN s = 1..Len(s) /\ Len(s) \in Nat \ {0} /\ Head(s) = s[1]
      /\ DOMAIN rest = 1..(Len(s) - 1)
      /\ \A i \in 1..(Len(s) - 1) : rest[i] = s[i + 1]
  OBVIOUS
<1> HIDE DEF rest
<1>2. IsFiniteSet(Among(rest, K)) /\ Cardinality(Among(rest, K)) \in Nat
  <2>1. IsFiniteSet(1..(Len(s) - 1)) /\ Among(rest, K) \subseteq 1..(Len(s) - 1)
    BY <1>1, FS_Interval DEF Among
  <2> QED BY <2>1, FS_Subset, FS_CardinalityType
<1>3. Shift \in Bijection(Among(rest, K), later)
  <2>1. \A i \in Among(rest, K) : i + 1 \in later
    BY <1>1 DEF Among
  <2>2. \A i, k \in Among(rest, K) : i + 1 = k + 1 => i = k
    BY <1>1 DEF Among
  <2>3. \A k \in later : \E i \in Among(rest, K) : i + 1 = k
    <3> SUFFICES ASSUME NEW k \in later
                 PROVE  k - 1 \in Among(rest, K) /\ (k - 1) + 1 = k
      OBVIOUS
    <3> QED BY <1>1 DEF Among
  <2> HIDE DEF later
  <2> QED BY <2>1, <2>2, <2>3, Fun_IsBij
<1>4. IsFiniteSet(later) /\ Cardinality(later) = Cardinality(Among(rest, K))
  <2>1. ExistsBijection(Among(rest, K), later)
    BY <1>3 DEF ExistsBijection
  <2> HIDE DEF later
  <2> QED BY <1>2, <2>1, FS_Bijection
<1>5. CASE Head(s) \in K
  <2>1. Among(s, K) = later \cup {1} /\ 1 \notin later
    BY <1>1, <1>5 DEF Among
  <2> HIDE DEF later
  <2>2. Cardinality(Among(s, K)) = Cardinality(later) + 1
    BY <1>4, <2>1, FS_AddElement
  <2> QED BY <1>2, <1>4, <1>5, <2>2 DEF rest
<1>6. CASE Head(s) \notin K
  <2>1. Among(s, K) = later
    BY <1>1, <1>6 DEF Among
  <2> HIDE DEF later
  <2> QED BY <1>2, <1>4, <1>6, <2>1 DEF rest
<1> QED BY <1>5, <1>6

(* There are finitely many transfers. *)
LEMMA TransfersFinite == IsFiniteSet(Transfer)
<1> DEFINE Sets == {TransfersOf(p) : p \in Part}
           Of == [p \in Part |-> TransfersOf(p)]
<1>1. IsFiniteSet(Sets)
  <2>1. Of \in Surjection(Part, Sets)
    BY Fun_IsSurj
  <2> HIDE DEF Of, Sets
  <2> QED BY <2>1, PartsCount, FS_Surjection
<1>2. \A T \in Sets : IsFiniteSet(T)
  BY PartShape
<1> QED BY <1>1, <1>2, FS_UNION DEF Transfer

(* The status manager is told of one transfer at a time, and of each once, *)
(* when its outcome is settled.                                            *)
LEMMA ToldStep ==
    ASSUME TypeOK, ScheduleInv, Next, NEW K
    PROVE  \/ /\ ToldWith(K)' = ToldWith(K)
              /\ \A x \in Transfer : ~ReportToStatusManager(x)
           \/ \E x \in Transfer :
                 /\ ReportToStatusManager(x)
                 /\ x \notin ToldWith(K)
                 /\ ToldWith(K)' = IF xstatus[x] \in K THEN ToldWith(K) \cup {x} ELSE ToldWith(K)
<1> USE DEF TypeOK, Told, Counted
<1>1. ASSUME NEW x \in Transfer, ReportToStatusManager(x)
      PROVE  /\ x \notin ToldWith(K)
             /\ ToldWith(K)' = IF xstatus[x] \in K THEN ToldWith(K) \cup {x} ELSE ToldWith(K)
  <2>1. /\ xpc[x] = "sendXferDone" /\ xpc' = [xpc EXCEPT ![x] = "count"]
        /\ UNCHANGED xstatus
    BY <1>1 DEF ReportToStatusManager, planVars
  <2> QED BY <2>1 DEF ToldWith
<1> DEFINE Same(y) == (Told(y)' <=> Told(y)) /\ (Told(y) => xstatus'[y] = xstatus[y])
<1>2. ASSUME \A y \in Transfer : Same(y)
      PROVE  ToldWith(K)' = ToldWith(K)
  <2>1. ASSUME NEW y \in Transfer
        PROVE  y \in ToldWith(K)' <=> y \in ToldWith(K)
    <3>1. Same(y)
      BY <1>2
    <3> QED BY <3>1 DEF ToldWith
  <2>2. ToldWith(K)' \subseteq Transfer /\ ToldWith(K) \subseteq Transfer
    BY DEF ToldWith
  <2> HIDE DEF TypeOK, Told
  <2> QED BY <2>1, <2>2
<1>3. ASSUME \A x \in Transfer : ~ReportToStatusManager(x)
      PROVE  ToldWith(K)' = ToldWith(K)
  <2>1. CASE UNCHANGED <<xpc, xstatus>>
    BY <1>2, <2>1
  <2>2. CASE ScheduleTransfer
    <3> DEFINE next == <<partsTaken - 1, nextTransfer>>
    <3>1. xpc' = [xpc EXCEPT ![next] = "queued"] /\ UNCHANGED xstatus
      BY <2>2 DEF ScheduleTransfer, planVars
    <3>2. ASSUME next \in Transfer
          PROVE  xpc[next] = "unscheduled"
      <4>1. next[1] = partsTaken - 1 /\ next[2] = nextTransfer
        OBVIOUS
      <4> HIDE DEF next
      <4> QED BY <3>2, <4>1 DEF ScheduleInv, Unscheduled
    <3> HIDE DEF next
    <3> QED BY <1>2, <3>1, <3>2
  <2>3. ASSUME NEW x \in Transfer,
               TransferProcessor(x) \/ FinishTransfer(x) \/ AuthenticationFails(x)
        PROVE  ToldWith(K)' = ToldWith(K)
    <3>1. /\ \A y \in Transfer \ {x} : xstatus'[y] = xstatus[y] /\ xpc'[y] = xpc[y]
          /\ xpc[x] \in {"queued", "running"} /\ xpc'[x] \in {"running", "sendXferDone"}
      BY <2>3 DEF TransferProcessor, FinishTransfer, AuthenticationFails, SetStatus, xferVars
    <3> QED BY <1>2, <3>1
  <2>4. ASSUME NEW x \in Transfer,
               \/ CountTransferDone(x) \/ UpdateJobPartProgress(x)
               \/ ComposeJobPartProgress(x) \/ ReportJobPartDone(x)
        PROVE  ToldWith(K)' = ToldWith(K)
    <3>1. /\ \A y \in Transfer \ {x} : xpc'[y] = xpc[y]
          /\ Told(x) /\ Told(x)' /\ UNCHANGED xstatus
      BY <2>4 DEF CountTransferDone, UpdateJobPartProgress, ComposeJobPartProgress,
                  ReportJobPartDone, planVars
    <3> QED BY <1>2, <3>1
  <2> QED BY <1>3, <2>1, <2>2, <2>3, <2>4, Footprint DEF TransferStep
<1> QED BY <1>1, <1>3

(* The outcomes of a set that are on their way and those handled add up to *)
(* those of the transfers that have told.                                  *)
LEMMA BalanceStep ==
    ASSUME TypeOK, OutcomeInv, ScheduleInv, Next, NEW K, NEW n \in Nat, NEW m \in Nat,
           \A x \in Transfer : ReportToStatusManager(x) => xferDone.state # "closed",
           m = n + (IF ReceiveXferDone /\ Head(xferDone.buf) \in K THEN 1 ELSE 0),
           n + Cardinality(OnTheWay(K)) = Cardinality(ToldWith(K))
    PROVE  m + Cardinality(OnTheWay(K)') = Cardinality(ToldWith(K)')
<1> DEFINE buf == xferDone.buf
<1>1. xferDone \in Channel(TransferOutcomes) /\ buf \in Seq(TransferOutcomes)
  BY DEF TypeOK, SMTypeOK, Channel
<1>2. IsFiniteSet(ToldWith(K)) /\ Cardinality(ToldWith(K)) \in Nat
  BY TransfersFinite, FS_Subset, FS_CardinalityType DEF ToldWith
<1>3. ASSUME NEW x \in Transfer, ReportToStatusManager(x)
      PROVE  m + Cardinality(OnTheWay(K)') = Cardinality(ToldWith(K)')
  <2>1. SendXferDone(xstatus[x])
    BY <1>3 DEF ReportToStatusManager, SendXferDoneRecovered
  <2>2. xferDone'.buf = Append(buf, xstatus[x]) /\ UNCHANGED js
    BY <1>1, <2>1 DEF SendXferDone, Channel
  <2>3. xstatus[x] \in TransferOutcomes
    BY <1>3 DEF ReportToStatusManager, OutcomeInv, TypeOK
  <2>4. ~ReceiveXferDone
    BY <1>1, <2>2 DEF ReceiveXferDone, Channel
  <2>5. Cardinality(OnTheWay(K)') =
            Cardinality(OnTheWay(K)) + (IF xstatus[x] \in K THEN 1 ELSE 0)
        /\ Cardinality(OnTheWay(K)) \in Nat
    BY SMTT(30), <1>1, <2>2, <2>3, AppendCount DEF OnTheWay
  <2>6. /\ x \notin ToldWith(K)
        /\ ToldWith(K)' = IF xstatus[x] \in K THEN ToldWith(K) \cup {x} ELSE ToldWith(K)
    <3>1. xpc[x] = "sendXferDone" /\ xpc' = [xpc EXCEPT ![x] = "count"] /\ UNCHANGED xstatus
      BY <1>3 DEF ReportToStatusManager, planVars
    <3> QED BY <3>1 DEF ToldWith, Told, Counted, TypeOK
  <2>7. Cardinality(ToldWith(K)') =
            Cardinality(ToldWith(K)) + (IF xstatus[x] \in K THEN 1 ELSE 0)
    <3>1. CASE xstatus[x] \in K
      BY <1>2, <2>6, <3>1, FS_AddElement
    <3>2. CASE xstatus[x] \notin K
      BY <1>2, <2>6, <3>2
    <3> QED BY <3>1, <3>2
  <2> QED BY <1>2, <2>4, <2>5, <2>7
<1>4. CASE \A x \in Transfer : ~ReportToStatusManager(x)
  <2>1. ToldWith(K)' = ToldWith(K)
    BY <1>4, ToldStep
  <2>2. CASE ReceiveXferDone
    <3>1. buf # <<>> /\ xferDone'.buf = Tail(buf)
      BY <1>1, <2>2 DEF ReceiveXferDone, Channel
    <3>3. Cardinality(OnTheWay(K)) =
              Cardinality(OnTheWay(K)') + (IF Head(buf) \in K THEN 1 ELSE 0)
      BY <1>1, <3>1, TailCount DEF OnTheWay
    <3>4. Cardinality(OnTheWay(K)') \in Nat
      BY <1>1, <3>1, TailCount DEF OnTheWay
    <3> QED BY <1>2, <2>1, <2>2, <3>3, <3>4
  <2>3. CASE ~ReceiveXferDone
    <3>1. xferDone'.buf = buf
      BY <1>1, <1>4, <2>3
         DEF Next, OrderStep, AddJobPart, SetFinalPartOrdered, QueueJobParts, AnnounceJobPart,
             SendJobPartCreated, ScheduleTransfers, ScheduleTransfer, TransferStep,
             TransferProcessor, FinishTransfer, CountTransferDone, UpdateJobPartProgress,
             ComposeJobPartProgress, ReportJobPartDone, AuthenticationFails, HandlerStep,
             HandlerClosesXferDone, CloseXferDone, HandlerWaitsForDrain, HandlerReadsStatus,
             HandlerSetsJobStatus, JobStatusManagerStep, StatusManagerStep, ReceivePartCreated,
             PartCreatedClosed, XferDoneClosed, UserCancelsOrPauses, CancellerStep,
             CancellerReadsStatus, CancellerSetsJobStatus, CancelContext, CancelSendsProgress,
             ListJobSummary, AnswerListReq, GetJobSummary, smVars, Channel
    <3>2. OnTheWay(K)' = OnTheWay(K)
      BY <3>1 DEF OnTheWay
    <3> QED BY <2>1, <2>3, <3>2
  <2> QED BY <2>2, <2>3
<1> QED BY <1>3, <1>4

(* A receive shortens the buffer. *)
LEMMA ReceivesOne ==
    ASSUME TypeOK, ReceiveXferDone
    PROVE  xferDone' # xferDone
<1>1. xferDone \in Channel(TransferOutcomes) /\ xferDone.buf # <<>>
  BY DEF TypeOK, SMTypeOK, ReceiveXferDone
<1>2. xferDone'.buf = Tail(xferDone.buf)
  BY <1>1 DEF ReceiveXferDone, Channel
<1>3. Len(Tail(xferDone.buf)) # Len(xferDone.buf)
  BY <1>1 DEF Channel
<1> QED BY <1>2, <1>3

(* A job that may not be completed any more never may again. *)
LEMMA MayCompleteStep ==
    ASSUME IndInv, Next
    PROVE  MayComplete' => MayComplete
<1> USE DEF MayComplete
<1>1. TypeOK /\ HandlerInv
  BY DEF IndInv
<1>2. CASE UNCHANGED <<planStatus, hpc, statusRead>>
  BY <1>2
<1>3. CASE ScheduleTransfers
  <2>1. UNCHANGED <<hpc, statusRead>>
    BY <1>3 DEF ScheduleTransfers, handlerVars
  <2>2. CASE partsTaken = 0 /\ NumTransfers[0] = 0
    <3>1. NumParts = 1
      BY <2>2, JobAssumption DEF Part
    <3>2. Transfer = {}
      BY <2>2, <3>1, TransferShape DEF Part
    <3> QED BY <3>2
  <2>3. CASE ~(partsTaken = 0 /\ NumTransfers[0] = 0)
    BY <1>3, <2>1, <2>3 DEF ScheduleTransfers
  <2> QED BY <2>2, <2>3
<1>4. CASE HandlerStep
  <2>1. CASE HandlerClosesXferDone \/ HandlerWaitsForDrain \/ HandlerReadsStatus
    BY <2>1 DEF HandlerClosesXferDone, HandlerWaitsForDrain, HandlerReadsStatus, planVars
  <2>2. CASE HandlerSetsJobStatus
    BY <2>2 DEF HandlerSetsJobStatus, CompletedStatuses
  <2> QED BY <1>4, <2>1, <2>2 DEF HandlerStep
<1>5. ASSUME NEW c \in Canceller, CancellerStep(c)
      PROVE  MayComplete' => MayComplete
  <2>1. CASE CancellerReadsStatus(c) \/ CancelContext(c)
    BY <1>2, <2>1 DEF CancellerReadsStatus, CancelContext, planVars, handlerVars
  <2>2. CASE CancellerSetsJobStatus(c)
    <3>1. planStatus' \in {"Cancelling", "Paused"} /\ UNCHANGED <<hpc, statusRead>>
      BY <1>1, <2>2 DEF CancellerSetsJobStatus, handlerVars, TypeOK
    <3> QED BY <3>1 DEF CompletedStatuses
  <2>3. CASE CancelSendsProgress(c)
    BY <2>3 DEF CancelSendsProgress, ReceiveJobPartProgress, planVars
  <2> QED BY <1>5, <2>1, <2>2, <2>3 DEF CancellerStep
<1>6. ASSUME NEW x \in Transfer, ReportJobPartDone(x)
      PROVE  MayComplete' => MayComplete
  BY <1>6 DEF ReportJobPartDone, ReceiveJobPartProgress, planVars
<1>7. CASE OrderStep \/ ScheduleTransfer \/ JobStatusManagerStep \/ ListJobSummary \/ GetJobSummary
  BY <1>2, <1>7 DEF OrderStep, AddJobPart, SetFinalPartOrdered, QueueJobParts, AnnounceJobPart,
                    ScheduleTransfer, JobStatusManagerStep, ListJobSummary, GetJobSummary,
                    planVars, handlerVars
<1>8. ASSUME NEW x \in Transfer, TransferStep(x) \/ AuthenticationFails(x), ~ReportJobPartDone(x)
      PROVE  MayComplete' => MayComplete
  <2>1. UNCHANGED <<planStatus, hpc, statusRead>>
    BY <1>8 DEF TransferStep, TransferProcessor, FinishTransfer, ReportToStatusManager,
                CountTransferDone, UpdateJobPartProgress, ComposeJobPartProgress,
                AuthenticationFails, planVars, handlerVars
  <2> QED BY <1>2, <2>1
<1>9. ASSUME NEW c \in Canceller, UserCancelsOrPauses(c)
      PROVE  MayComplete' => MayComplete
  BY <1>2, <1>9 DEF UserCancelsOrPauses, planVars, handlerVars
<1> QED BY <1>3, <1>4, <1>5, <1>6, <1>7, <1>8, <1>9 DEF Next

(* When all parts have reported, or a job without transfers is complete,   *)
(* nobody has an outcome to send.                                          *)
LEMMA NobodySends ==
    ASSUME IndInv, MayComplete, xferDone.state = "closed",
           NEW x \in Transfer, xpc[x] = "sendXferDone"
    PROVE  FALSE
<1>1. hpc = "waitToDrainXferDone"
  BY DEF IndInv, XferDoneInv
<1>2. Reported # Part
  BY AllReported DEF IndInv, Counted
<1>3. Transfer # {}
  OBVIOUS
<1> QED BY <1>1, <1>2, <1>3 DEF IndInv, HandlerInv, MayComplete

(* What has been counted and what is on its way stay the outcomes told. *)
LEMMA SummaryStep ==
    ASSUME IndInv, Next
    PROVE  SummaryInv'
<1>1. TypeOK /\ OutcomeInv /\ ScheduleInv /\ SummaryInv
  BY DEF IndInv
<1> SUFFICES ASSUME MayComplete'
             PROVE  /\ js'.completed + Cardinality(OnTheWay({"Success"})')
                            = Cardinality(ToldWith({"Success"})')
                    /\ js'.failed + Cardinality(OnTheWay(FailedOutcomes)')
                            = Cardinality(ToldWith(FailedOutcomes)')
                    /\ js'.skipped + Cardinality(OnTheWay({"Skipped"})')
                            = Cardinality(ToldWith({"Skipped"})')
  BY DEF SummaryInv, FailedOutcomes
<1>2. MayComplete
  BY MayCompleteStep
<1>3. \A x \in Transfer : ReportToStatusManager(x) => xferDone.state # "closed"
  BY <1>2, NobodySends DEF ReportToStatusManager
<1>4. js \in Summary
  BY <1>1 DEF TypeOK, SMTypeOK
<1> DEFINE Taken(K) == IF ReceiveXferDone /\ Head(xferDone.buf) \in K THEN 1 ELSE 0
<1>5. /\ js'.completed = js.completed + Taken({"Success"})
      /\ js'.failed = js.failed + Taken(FailedOutcomes)
      /\ js'.skipped = js.skipped + Taken({"Skipped"})
  <2>1. CASE ReceiveXferDone
    <3>1. js' = Tallied(js, Head(xferDone.buf))
      BY <2>1 DEF ReceiveXferDone
    <3> DEFINE outcome == Head(xferDone.buf)
    <3> HIDE DEF outcome
    <3>2. js' = Tallied(js, outcome)
      BY <3>1 DEF outcome
    <3>3. /\ Tallied(js, outcome).completed = js.completed + (IF outcome = "Success" THEN 1 ELSE 0)
          /\ Tallied(js, outcome).failed = js.failed + (IF outcome \in FailedOutcomes THEN 1 ELSE 0)
          /\ Tallied(js, outcome).skipped = js.skipped + (IF outcome = "Skipped" THEN 1 ELSE 0)
      BY <1>4 DEF Tallied, Summary, FailedOutcomes
    <3> QED BY <2>1, <3>2, <3>3 DEF outcome
  <2>2. CASE ReceivePartCreated
    <3>1. /\ js'.completed = js.completed /\ js'.failed = js.failed
          /\ js'.skipped = js.skipped
      BY <1>4, <2>2 DEF ReceivePartCreated, Summary
    <3>2. xferDone' = xferDone
      BY <2>2 DEF ReceivePartCreated
    <3>3. ~ReceiveXferDone
      BY <1>1, <3>2, ReceivesOne
    <3> QED BY <1>4, <3>1, <3>3 DEF Summary
  <2>3. CASE ~ReceiveXferDone /\ ~ReceivePartCreated
    <3>1. js' = js
      BY <2>3
         DEF Next, OrderStep, AddJobPart, SetFinalPartOrdered, QueueJobParts, AnnounceJobPart,
             SendJobPartCreated, ScheduleTransfers, ScheduleTransfer, TransferStep,
             TransferProcessor, FinishTransfer, ReportToStatusManager, SendXferDone,
             SendXferDoneRecovered, CountTransferDone, UpdateJobPartProgress,
             ComposeJobPartProgress, ReportJobPartDone, AuthenticationFails, HandlerStep,
             HandlerClosesXferDone, CloseXferDone, HandlerWaitsForDrain, HandlerReadsStatus,
             HandlerSetsJobStatus, JobStatusManagerStep, StatusManagerStep,
             PartCreatedClosed, XferDoneClosed, UserCancelsOrPauses, CancellerStep,
             CancellerReadsStatus, CancellerSetsJobStatus, CancelContext, CancelSendsProgress,
             ListJobSummary, AnswerListReq, GetJobSummary, smVars
    <3> QED BY <1>4, <2>3, <3>1 DEF Summary
  <2> QED BY <2>1, <2>2, <2>3
<1>6. /\ js.completed \in Nat /\ js.failed \in Nat /\ js.skipped \in Nat
      /\ js'.completed \in Nat /\ js'.failed \in Nat /\ js'.skipped \in Nat
  BY <1>4, <1>5 DEF Summary
<1>7. /\ js.completed + Cardinality(OnTheWay({"Success"})) = Cardinality(ToldWith({"Success"}))
      /\ js.failed + Cardinality(OnTheWay(FailedOutcomes)) = Cardinality(ToldWith(FailedOutcomes))
      /\ js.skipped + Cardinality(OnTheWay({"Skipped"})) = Cardinality(ToldWith({"Skipped"}))
  BY <1>1, <1>2 DEF SummaryInv
<1>8. js'.completed + Cardinality(OnTheWay({"Success"})') = Cardinality(ToldWith({"Success"})')
  BY <1>1, <1>3, <1>5, <1>6, <1>7, BalanceStep
<1>9. js'.failed + Cardinality(OnTheWay(FailedOutcomes)') = Cardinality(ToldWith(FailedOutcomes)')
  BY <1>1, <1>3, <1>5, <1>6, <1>7, BalanceStep
<1>10. js'.skipped + Cardinality(OnTheWay({"Skipped"})') = Cardinality(ToldWith({"Skipped"})')
  BY <1>1, <1>3, <1>5, <1>6, <1>7, BalanceStep
<1> QED BY <1>8, <1>9, <1>10

(* Nothing is sent once the channel is drained. *)
LEMMA DrainStep ==
    ASSUME IndInv, Next
    PROVE  DrainInv'
<1> USE DEF DrainInv
<1>1. TypeOK /\ XferDoneInv /\ HandlerInv /\ DrainInv
  BY DEF IndInv
<1>2. xferDone \in Channel(TransferOutcomes)
  BY <1>1 DEF TypeOK, SMTypeOK
<1>3. CASE /\ UNCHANGED <<xferDone, xferDoneDrained>>
           /\ hpc' = hpc \/ hpc' \notin {"readStatus", "setJobStatus"}
           /\ planStatus' \in CompletedStatuses => planStatus' = planStatus
  BY <1>1, <1>3
<1>4. CASE ScheduleTransfers
  <2>1. UNCHANGED <<hpc, xferDone, xferDoneDrained>>
    BY <1>4 DEF ScheduleTransfers, handlerVars, smVars
  <2>2. CASE partsTaken = 0 /\ NumTransfers[0] = 0
    <3>1. NumParts = 1
      BY <2>2, JobAssumption DEF Part
    <3>2. Transfer = {}
      BY <2>2, <3>1, TransferShape DEF Part
    <3> QED BY <1>1, <2>1, <3>2
  <2>3. CASE ~(partsTaken = 0 /\ NumTransfers[0] = 0)
    BY <1>1, <1>4, <2>1, <2>3 DEF ScheduleTransfers
  <2> QED BY <2>2, <2>3
<1>5. CASE HandlerStep
  <2>1. CASE HandlerClosesXferDone
    <3>1. xferDone'.buf = xferDone.buf /\ UNCHANGED <<planStatus, xferDoneDrained>>
      BY <1>2, <2>1 DEF HandlerClosesXferDone, CloseXferDone, Channel, planVars
    <3>2. hpc' = "waitToDrainXferDone"
      BY <2>1 DEF HandlerClosesXferDone
    <3> QED BY <1>1, <3>1, <3>2
  <2>2. CASE HandlerWaitsForDrain \/ HandlerReadsStatus
    BY <1>1, <2>2 DEF HandlerWaitsForDrain, HandlerReadsStatus, smVars, planVars
  <2>3. CASE HandlerSetsJobStatus
    BY <1>1, <2>3 DEF HandlerSetsJobStatus, smVars
  <2> QED BY <1>5, <2>1, <2>2, <2>3 DEF HandlerStep
<1>6. CASE JobStatusManagerStep
  <2>1. UNCHANGED <<hpc, planStatus>>
    BY <1>6 DEF JobStatusManagerStep, handlerVars, planVars
  <2>2. CASE ReceivePartCreated \/ PartCreatedClosed
    BY <1>1, <2>1, <2>2 DEF ReceivePartCreated, PartCreatedClosed
  <2>3. CASE ReceiveXferDone
    <3>1. ~xferDoneDrained /\ UNCHANGED xferDoneDrained
      BY <1>1, <2>3 DEF ReceiveXferDone
    <3> QED BY <1>1, <2>1, <3>1
  <2>4. CASE XferDoneClosed
    <3>1. xferDone'.buf = <<>> /\ xferDoneDrained'
      BY <1>2, <2>4 DEF XferDoneClosed, Channel
    <3> QED BY <3>1
  <2> QED BY <1>6, <2>2, <2>3, <2>4 DEF JobStatusManagerStep, StatusManagerStep
<1>7. ASSUME NEW x \in Transfer, TransferStep(x) \/ AuthenticationFails(x)
      PROVE  DrainInv'
  <2>1. CASE ReportToStatusManager(x)
    <3>1. UNCHANGED <<hpc, planStatus, xferDoneDrained>>
      BY <2>1 DEF ReportToStatusManager, SendXferDone, SendXferDoneRecovered, smVars,
                  handlerVars, planVars
    <3>2. xferDoneDrained => UNCHANGED xferDone
      BY <1>1, <2>1 DEF ReportToStatusManager, SendXferDone, SendXferDoneRecovered, smVars,
                        XferDoneInv
    <3> QED BY <1>1, <3>1, <3>2
  <2>2. CASE ~ReportToStatusManager(x)
    <3>1. UNCHANGED <<xferDone, xferDoneDrained, planStatus>>
      BY <1>7, <2>2
         DEF TransferStep, TransferProcessor, FinishTransfer, CountTransferDone,
             UpdateJobPartProgress, ComposeJobPartProgress, ReportJobPartDone,
             AuthenticationFails, smVars, planVars
    <3>2. hpc' = hpc \/ hpc' \notin {"readStatus", "setJobStatus"}
      BY <1>7, <2>2
         DEF TransferStep, TransferProcessor, FinishTransfer, CountTransferDone,
             UpdateJobPartProgress, ComposeJobPartProgress, ReportJobPartDone,
             ReceiveJobPartProgress, AuthenticationFails, handlerVars
    <3> QED BY <1>3, <3>1, <3>2
  <2> QED BY <2>1, <2>2
<1>8. ASSUME NEW c \in Canceller, UserCancelsOrPauses(c) \/ CancellerStep(c)
      PROVE  DrainInv'
  <2>1. UNCHANGED <<xferDone, xferDoneDrained>>
    BY <1>8 DEF UserCancelsOrPauses, CancellerStep, CancellerReadsStatus,
                CancellerSetsJobStatus, CancelContext, CancelSendsProgress, smVars
  <2>2. hpc' = hpc \/ hpc' \notin {"readStatus", "setJobStatus"}
    BY <1>8 DEF UserCancelsOrPauses, CancellerStep, CancellerReadsStatus,
                CancellerSetsJobStatus, CancelContext, CancelSendsProgress,
                ReceiveJobPartProgress, handlerVars
  <2>3. planStatus' \in CompletedStatuses => planStatus' = planStatus
    <3>1. wish[c] \notin CompletedStatuses
      BY <1>1 DEF TypeOK, CompletedStatuses
    <3> QED BY <1>8, <3>1 DEF UserCancelsOrPauses, CancellerStep, CancellerReadsStatus,
                CancellerSetsJobStatus, CancelContext, CancelSendsProgress, planVars
  <2> QED BY <1>3, <2>1, <2>2, <2>3
<1>9. CASE OrderStep \/ ScheduleTransfer \/ ListJobSummary \/ GetJobSummary
  <2>1. UNCHANGED <<xferDone, xferDoneDrained, hpc, planStatus>>
    BY <1>9 DEF OrderStep, AddJobPart, SetFinalPartOrdered, QueueJobParts, AnnounceJobPart,
                SendJobPartCreated, ScheduleTransfer, ListJobSummary, AnswerListReq,
                GetJobSummary, smVars, planVars, handlerVars
  <2> QED BY <1>3, <2>1
<1> HIDE DEF DrainInv
<1> QED BY <1>4, <1>5, <1>6, <1>7, <1>8, <1>9 DEF Next

(* The status manager of a job nobody cancels listens to the end. *)
LEMMA ListenerStep ==
    ASSUME IndInv, Next
    PROVE  ListenerInv'
<1> SUFFICES ASSUME Canceller = {}, xferDone'.state # "open"
             PROVE  Reported' = Part
  BY DEF ListenerInv
<1>1. TypeOK /\ ScheduleInv /\ LastInv /\ OneTransferReportsThePart /\ HandlerInv
      /\ UndisturbedInv /\ ListenerInv
  BY DEF IndInv
<1>2. Reported = Part => Reported' = Part
  <2>1. Reported \subseteq Reported'
    BY <1>1, ReportedStep
  <2>2. Reported' \subseteq Part
    BY DEF Reported
  <2> QED BY <2>1, <2>2
<1>3. xferDone \in Channel(TransferOutcomes)
  BY <1>1 DEF TypeOK, SMTypeOK
<1>4. CASE HandlerClosesXferDone
  <2>1. hpc = "closeXferDone"
    BY <1>4 DEF HandlerClosesXferDone
  <2> QED BY <1>1, <1>2, <2>1 DEF HandlerInv, UndisturbedInv
<1>5. CASE XferDoneClosed
  <2>1. xferDone.state = "closed"
    BY <1>5 DEF XferDoneClosed
  <2> QED BY <1>1, <1>2, <2>1 DEF ListenerInv
<1>6. CASE ~HandlerClosesXferDone /\ ~XferDoneClosed
  <2>1. xferDone'.state = xferDone.state
    BY <1>3, <1>6
       DEF Next, OrderStep, AddJobPart, SetFinalPartOrdered, QueueJobParts, AnnounceJobPart,
           SendJobPartCreated, ScheduleTransfers, ScheduleTransfer, TransferStep,
           TransferProcessor, FinishTransfer, ReportToStatusManager, SendXferDone,
           SendXferDoneRecovered, CountTransferDone, UpdateJobPartProgress,
           ComposeJobPartProgress, ReportJobPartDone, AuthenticationFails, HandlerStep,
           HandlerWaitsForDrain, HandlerReadsStatus, HandlerSetsJobStatus,
           JobStatusManagerStep, StatusManagerStep, ReceivePartCreated, PartCreatedClosed,
           ReceiveXferDone, ListJobSummary, AnswerListReq, GetJobSummary, smVars, Channel
  <2> QED BY <1>1, <1>2, <2>1 DEF ListenerInv
<1> QED BY <1>4, <1>5, <1>6

(* What the counters tell, and the status they are made into, is kept. *)
LEMMA TellsStep ==
    ASSUME IndInv, Next
    PROVE  TellsInv'
<1> SUFFICES ASSUME OneEach
             PROVE  TallyInv' /\ ProgressInv' /\ JobStatusTellsTheOutcomes'
  BY DEF TellsInv, OneEach
<1>1. /\ TypeOK /\ OrderInv /\ ScheduleInv /\ CountInv /\ LastInv /\ OneTransferReportsThePart
      /\ HandlerInv /\ TallyInv /\ ProgressInv /\ JobStatusTellsTheOutcomes
  BY DEF IndInv, TellsInv
<1>2. \A x, y \in Transfer : x[1] = y[1] => x = y
  BY TransferShape DEF OneEach
<1>3. 0 \in Part /\ NumTransfers[0] = 1
  BY JobAssumption DEF OneEach, Part
<1>4. planStatus \in CompletedStatuses => \A x \in Transfer : Counted(x)
  <2>1. Transfer # {}
    BY <1>3, PartShape, FS_EmptySet
  <2> QED BY <1>1, <2>1, AllReported DEF HandlerInv
<1>5. \A x \in Transfer : tally[x[1]] \in Progress /\ jppi[x] \in Progress /\ x[1] \in Part
  BY <1>1, TransferShape DEF TypeOK
<1> DEFINE Handler == <<planStatus, progress, hpc, statusRead>>
<1>6. CASE UNCHANGED <<xstatus, xpc, wasLast, tally, jppi>>
  <2>1. TallyInv'
    BY <1>1, <1>6 DEF TallyInv, Counted, Tells, OfTally
  <2>2. ASSUME NEW info
        PROVE  Tells(info, Finished) <=> Tells(info, Finished)'
    BY <1>6 DEF Tells, Finished
  <2>3. CASE UNCHANGED Handler
    BY <1>1, <1>6, <2>1, <2>3
       DEF ProgressInv, Tells, Finished, JobStatusTellsTheOutcomes, SomeWith
  <2>4. CASE /\ planStatus' = planStatus
             /\ planStatus # "InProgress" \/ progress' = progress
             /\ hpc' # "setJobStatus" \/ (statusRead' = planStatus /\ progress' = progress)
    BY <1>1, <1>6, <2>1, <2>4
       DEF ProgressInv, Tells, Finished, JobStatusTellsTheOutcomes, SomeWith
  <2>5. CASE planStatus' \in {"Cancelling", "Paused"} /\ UNCHANGED <<hpc, statusRead, progress>>
    BY <1>1, <1>6, <2>1, <2>5
       DEF ProgressInv, Tells, Finished, JobStatusTellsTheOutcomes, CompletedStatuses
  <2>6. CASE HandlerSetsJobStatus
    <3>1. ProgressInv'
      <4>1. hpc' = "receive" /\ hpc = "setJobStatus"
        BY <2>6 DEF HandlerSetsJobStatus
      <4>2. planStatus' # "InProgress"
        BY <1>1, <2>6, <4>1, ProgressType
           DEF HandlerSetsJobStatus, CompletedStatuses, HandlerInv
      <4> QED BY <4>1, <4>2 DEF ProgressInv
    <3>2. JobStatusTellsTheOutcomes'
      <4>1. CASE statusRead = "InProgress"
        <5>1. hpc = "setJobStatus" /\ planStatus' = StatusOf(progress)
          BY <2>6, <4>1 DEF HandlerSetsJobStatus
        <5>2. Reported = Part /\ Tells(progress, Finished)
          BY <1>1, <4>1, <5>1 DEF HandlerInv, ProgressInv
        <5>3. ASSUME NEW x \in Transfer
              PROVE  xpc[x] = "finished"
          <6>1. PICK y \in TransfersOf(x[1]) : xpc[y] = "finished"
            BY <1>5, <5>2 DEF Reported, PartReported
          <6>2. y \in Transfer /\ y[1] = x[1]
            BY <1>5, <6>1, PartShape
          <6> QED BY <1>2, <6>1, <6>2
        <5>4. Finished = Transfer
          BY <5>3 DEF Finished
        <5>5. /\ (progress.completed > 0) <=> SomeWith({"Success"})
              /\ (progress.failed > 0) <=> SomeWith(FailedOutcomes)
              /\ (progress.skipped > 0) <=> SomeWith({"Skipped"})
          BY <1>1, <5>2, <5>4 DEF Tells, SomeWith, FailedOutcomes, TallyInv
        <5>6. StatusOf(progress) = EnhanceJobStatusInfo(SomeWith({"Skipped"}),
                                       SomeWith(FailedOutcomes), SomeWith({"Success"}))
          <6> HIDE DEF SomeWith
          <6> QED BY <5>5 DEF StatusOf, EnhanceJobStatusInfo
        <5> QED BY <1>6, <5>1, <5>6 DEF JobStatusTellsTheOutcomes, SomeWith
      <4>2. CASE statusRead # "InProgress"
        <5>1. planStatus' = planStatus \/ planStatus' = "Cancelled"
          BY <2>6, <4>2 DEF HandlerSetsJobStatus
        <5> QED BY <1>1, <1>6, <5>1 DEF JobStatusTellsTheOutcomes, SomeWith, CompletedStatuses
      <4> QED BY <4>1, <4>2
    <3> QED BY <2>1, <3>1, <3>2
  <2>7. ASSUME NEW c \in Canceller, CancelSendsProgress(c)
        PROVE  TallyInv' /\ ProgressInv' /\ JobStatusTellsTheOutcomes'
    <3>1. UNCHANGED planStatus /\ hpc' # "setJobStatus"
      BY <2>7 DEF CancelSendsProgress, ReceiveJobPartProgress, planVars
    <3>2. planStatus # "InProgress"
      BY <1>1, <2>7 DEF CancelSendsProgress, HandlerInv
    <3> QED BY <2>4, <3>1, <3>2
  <2>8. CASE HandlerClosesXferDone \/ HandlerWaitsForDrain \/ HandlerReadsStatus
    BY <2>4, <2>8 DEF HandlerClosesXferDone, HandlerWaitsForDrain, HandlerReadsStatus, planVars
  <2>9. ASSUME NEW c \in Canceller, CancellerSetsJobStatus(c)
        PROVE  TallyInv' /\ ProgressInv' /\ JobStatusTellsTheOutcomes'
    BY <1>1, <2>5, <2>9 DEF CancellerSetsJobStatus, handlerVars, TypeOK
  <2>10. CASE OrderStep \/ JobStatusManagerStep \/ ListJobSummary \/ GetJobSummary
    BY <2>3, <2>10 DEF OrderStep, AddJobPart, SetFinalPartOrdered, QueueJobParts,
                       AnnounceJobPart, JobStatusManagerStep, ListJobSummary, GetJobSummary,
                       planVars, handlerVars
  <2>11. ASSUME NEW c \in Canceller,
                UserCancelsOrPauses(c) \/ CancellerReadsStatus(c) \/ CancelContext(c)
         PROVE  TallyInv' /\ ProgressInv' /\ JobStatusTellsTheOutcomes'
    BY <2>3, <2>11 DEF UserCancelsOrPauses, CancellerReadsStatus, CancelContext, planVars,
                       handlerVars
  <2>12. ASSUME NEW x \in Transfer, ReportJobPartDone(x)
         PROVE  FALSE
    BY <1>1, <1>6, <2>12 DEF ReportJobPartDone, TypeOK
  <2>13. CASE ScheduleTransfers
    BY <1>3, <2>3, <2>13 DEF ScheduleTransfers, handlerVars
  <2>14. CASE ScheduleTransfer
    BY <2>3, <2>14 DEF ScheduleTransfer, planVars, handlerVars
  <2>15. ASSUME NEW x \in Transfer, TransferStep(x) \/ AuthenticationFails(x)
         PROVE  TallyInv' /\ ProgressInv' /\ JobStatusTellsTheOutcomes'
    BY <2>3, <2>12, <2>15
       DEF TransferStep, TransferProcessor, FinishTransfer, ReportToStatusManager,
           CountTransferDone, UpdateJobPartProgress, ComposeJobPartProgress,
           AuthenticationFails, planVars, handlerVars
  <2> QED BY <2>6, <2>7, <2>8, <2>9, <2>10, <2>11, <2>13, <2>14, <2>15
             DEF Next, HandlerStep, CancellerStep
<1>same. ASSUME UNCHANGED xstatus, UNCHANGED Handler, Finished' = Finished
       PROVE  ProgressInv' /\ JobStatusTellsTheOutcomes'
  BY <1>1, <1>same DEF ProgressInv, Tells, JobStatusTellsTheOutcomes, SomeWith
<1>7. CASE ScheduleTransfers
  <2>1. UNCHANGED <<xstatus, xpc, wasLast, jppi>> /\ UNCHANGED Handler
    BY <1>3, <1>7 DEF ScheduleTransfers, xferVars, handlerVars
  <2>2. ASSUME NEW x \in Transfer
        PROVE  Tells(tally[x[1]], OfTally(x))'
    <3>1. Tells(tally[x[1]], OfTally(x))
      BY <1>1 DEF TallyInv
    <3>2. CASE x[1] = partsTaken
      <4>1. xpc[x] = "unscheduled"
        BY <1>1, <1>5, <3>2 DEF ScheduleInv, Unscheduled, TypeOK, Part
      <4>2. tally'[x[1]] = [tally[x[1]] EXCEPT !.failed = 0]
        BY <1>1, <1>5, <1>7, <3>2 DEF ScheduleTransfers, TypeOK
      <4>3. /\ tally'[x[1]].completed = tally[x[1]].completed
            /\ tally'[x[1]].skipped = tally[x[1]].skipped
            /\ tally'[x[1]].failed = 0
        BY <1>5, <4>2 DEF Progress
      <4> QED BY <2>1, <3>1, <4>1, <4>3 DEF Tells, OfTally
    <3>3. CASE x[1] # partsTaken
      <4>1. tally'[x[1]] = tally[x[1]]
        BY <1>1, <1>5, <1>7, <3>3 DEF ScheduleTransfers, TypeOK
      <4> QED BY <2>1, <3>1, <4>1 DEF Tells, OfTally
    <3> QED BY <3>2, <3>3
  <2>3. TallyInv'
    BY <1>1, <2>1, <2>2 DEF TallyInv, Counted, Tells
  <2> QED BY <1>1, <2>1, <2>3 DEF ProgressInv, Tells, Finished, JobStatusTellsTheOutcomes,
                                  SomeWith
<1>8. CASE ScheduleTransfer
  <2> DEFINE next == <<partsTaken - 1, nextTransfer>>
  <2>1. /\ xpc' = [xpc EXCEPT ![next] = "queued"]
        /\ UNCHANGED <<xstatus, wasLast, tally, jppi>> /\ UNCHANGED Handler
    BY <1>8 DEF ScheduleTransfer, planVars, partVars, handlerVars
  <2>2. ASSUME next \in Transfer
        PROVE  xpc[next] = "unscheduled"
    <3>1. next[1] = partsTaken - 1 /\ next[2] = nextTransfer
      OBVIOUS
    <3> HIDE DEF next
    <3> QED BY <1>1, <2>2, <3>1 DEF ScheduleInv, Unscheduled, TypeOK
  <2> HIDE DEF next
  <2>3. \A x \in Transfer : xpc'[x] = xpc[x] \/ (xpc[x] = "unscheduled" /\ xpc'[x] = "queued")
    BY <1>1, <2>1, <2>2 DEF TypeOK
  <2>4. TallyInv'
    BY <1>1, <2>1, <2>3 DEF TallyInv, Counted, Tells, OfTally
  <2>9. Finished' = Finished
    BY <2>3 DEF Finished
  <2> QED BY <1>same, <2>1, <2>4, <2>9
<1>9. ASSUME NEW x \in Transfer, TransferProcessor(x) \/ FinishTransfer(x) \/ AuthenticationFails(x)
      PROVE  TallyInv' /\ ProgressInv' /\ JobStatusTellsTheOutcomes'
  <2>1. /\ \A y \in Transfer \ {x} : xstatus'[y] = xstatus[y] /\ xpc'[y] = xpc[y]
        /\ xpc[x] \in {"queued", "running"} /\ xpc'[x] \in {"running", "sendXferDone"}
    BY <1>1, <1>9 DEF TransferProcessor, FinishTransfer, AuthenticationFails, SetStatus,
                      xferVars, TypeOK
  <2>2. UNCHANGED <<wasLast, tally, jppi>> /\ UNCHANGED Handler
    BY <1>9 DEF TransferProcessor, FinishTransfer, AuthenticationFails, partVars, xferVars,
                handlerVars
  <2>3. xstatus'[x] # "TierAvailabilityCheckFailure"
    <3>1. \E status \in Outcomes \cup {"Cancelled", "Failed"} :
              SetStatus(x, status) \/ UNCHANGED xstatus
      BY <1>9 DEF TransferProcessor, FinishTransfer, AuthenticationFails
    <3>2. PICK status \in Outcomes \cup {"Cancelled", "Failed"} :
              xstatus'[x] \in {xstatus[x], status}
      BY <1>1, <3>1 DEF SetStatus, TypeOK
    <3> QED BY <1>1, <3>2 DEF TallyInv, OneEach
  <2>4. ~Counted(x) /\ planStatus \notin CompletedStatuses
    BY <1>4, <2>1 DEF Counted
  <2>5. TallyInv'
    BY <1>1, <2>1, <2>2, <2>3 DEF TallyInv, Counted, Tells, OfTally
  <2>6. ProgressInv'
    BY <1>1, <2>1, <2>2 DEF ProgressInv, Tells, Finished
  <2> QED BY <2>2, <2>4, <2>5, <2>6 DEF JobStatusTellsTheOutcomes
<1>10. ASSUME NEW x \in Transfer, ReportToStatusManager(x) \/ CountTransferDone(x)
       PROVE  TallyInv' /\ ProgressInv' /\ JobStatusTellsTheOutcomes'
  <2>1. /\ \A y \in Transfer \ {x} : xpc'[y] = xpc[y] /\ wasLast'[y] = wasLast[y]
        /\ xpc[x] \in {"sendXferDone", "count"} /\ xpc'[x] \in {"count", "updateJobPartProgress"}
    BY <1>1, <1>10 DEF ReportToStatusManager, CountTransferDone, TypeOK
  <2>2. UNCHANGED <<xstatus, tally, jppi>> /\ UNCHANGED Handler
    BY <1>10 DEF ReportToStatusManager, CountTransferDone, planVars, partVars, handlerVars
  <2>3. CountTransferDone(x) => wasLast'[x]
    <3> SUFFICES ASSUME CountTransferDone(x)
                 PROVE  wasLast'[x]
      OBVIOUS
    <3>1. CountedOf(x[1]) = {}
      <4>1. ASSUME NEW y \in CountedOf(x[1])
            PROVE  FALSE
        <5>1. y \in Transfer /\ y[1] = x[1] /\ Counted(y)
          BY <1>5, <4>1, PartShape DEF CountedOf
        <5>2. y = x
          BY <1>2, <5>1
        <5> QED BY <5>1, <5>2 DEF CountTransferDone, Counted
      <4> QED BY <4>1
    <3>2. transfersDone[x[1]] = 0 /\ NumTransfers[x[1]] = 1
      BY <1>1, <1>5, <3>1, FS_EmptySet DEF CountInv, OneEach
    <3>3. transfersDone[x[1]] + 1 = NumTransfers[x[1]]
      BY <3>2
    <3>4. wasLast' = [wasLast EXCEPT ![x] = (transfersDone[x[1]] + 1 = NumTransfers[x[1]])]
      BY DEF CountTransferDone
    <3>5. wasLast \in [Transfer -> BOOLEAN]
      BY <1>1 DEF TypeOK
    <3> QED BY <3>3, <3>4, <3>5
  <2>4. ReportToStatusManager(x) => xpc'[x] = "count"
    BY <1>1 DEF ReportToStatusManager, TypeOK
  <2>5. TallyInv'
    BY <1>1, <1>10, <2>1, <2>2, <2>3, <2>4 DEF TallyInv, Counted, Tells, OfTally
  <2>9. Finished' = Finished
    BY <2>1 DEF Finished
  <2> QED BY <1>same, <2>2, <2>5, <2>9
<1>11. ASSUME NEW x \in Transfer, UpdateJobPartProgress(x)
       PROVE  TallyInv' /\ ProgressInv' /\ JobStatusTellsTheOutcomes'
  <2>1. UNCHANGED <<xstatus, wasLast, jppi>> /\ UNCHANGED Handler
    BY <1>11 DEF UpdateJobPartProgress, planVars, handlerVars
  <2>2. wasLast[x] /\ xpc[x] = "updateJobPartProgress"
    BY <1>1, <1>11 DEF UpdateJobPartProgress, TallyInv, Counted
  <2>3. xpc' = [xpc EXCEPT ![x] = "compose"]
    BY <1>11, <2>2 DEF UpdateJobPartProgress
  <2>4. \A y \in Transfer \ {x} : tally'[y[1]] = tally[y[1]] /\ xpc'[y] = xpc[y]
    BY <1>1, <1>2, <1>5, <1>11, <2>3 DEF UpdateJobPartProgress, TypeOK
  <2>5. tally'[x[1]] = UpdatedTally(tally[x[1]], xstatus[x]) /\ xpc'[x] = "compose"
    BY <1>1, <1>5, <1>11, <2>3 DEF UpdateJobPartProgress, TypeOK
  <2>6. Tells(tally[x[1]], {})
    BY <1>1, <2>2 DEF TallyInv, OfTally, Tells
  <2>7. /\ (tally'[x[1]].completed > 0) <=> (xstatus[x] = "Success")
        /\ (tally'[x[1]].failed > 0) <=> (xstatus[x] = "Failed")
        /\ (tally'[x[1]].skipped > 0) <=> (xstatus[x] = "Skipped")
    BY <1>5, <2>5, <2>6 DEF Tells, UpdatedTally, Progress
  <2>8. TallyInv'
    BY <1>1, <2>1, <2>2, <2>4, <2>5, <2>7 DEF TallyInv, Counted, Tells, OfTally
  <2>9. Finished' = Finished
    BY <2>2, <2>4, <2>5 DEF Finished
  <2> QED BY <1>same, <2>1, <2>8, <2>9
<1>12. ASSUME NEW x \in Transfer, ComposeJobPartProgress(x)
       PROVE  TallyInv' /\ ProgressInv' /\ JobStatusTellsTheOutcomes'
  <2>1. UNCHANGED <<xstatus, wasLast, tally>> /\ UNCHANGED Handler
    BY <1>12 DEF ComposeJobPartProgress, partVars, handlerVars
  <2>2. /\ \A y \in Transfer \ {x} : xpc'[y] = xpc[y] /\ jppi'[y] = jppi[y]
        /\ xpc[x] = "compose" /\ xpc'[x] = "reportJobPartDone" /\ jppi'[x] = tally[x[1]]
    BY <1>1, <1>12 DEF ComposeJobPartProgress, TypeOK
  <2>3. TallyInv'
    BY <1>1, <2>1, <2>2 DEF TallyInv, Counted, Tells, OfTally
  <2>9. Finished' = Finished
    BY <2>2 DEF Finished
  <2> QED BY <1>same, <2>1, <2>3, <2>9
<1>13. ASSUME NEW x \in Transfer, ReportJobPartDone(x)
       PROVE  TallyInv' /\ ProgressInv' /\ JobStatusTellsTheOutcomes'
  <2>1. UNCHANGED <<xstatus, wasLast, tally, jppi, planStatus, statusRead>>
    BY <1>13 DEF ReportJobPartDone, ReceiveJobPartProgress, partVars, planVars
  <2>2. /\ \A y \in Transfer \ {x} : xpc'[y] = xpc[y]
        /\ xpc[x] = "reportJobPartDone" /\ xpc'[x] = "finished"
    BY <1>1, <1>13 DEF ReportJobPartDone, TypeOK
  <2>3. hpc' # "setJobStatus" /\ progress' = AddProgress(progress, jppi[x])
    BY <1>13 DEF ReportJobPartDone, ReceiveJobPartProgress
  <2>4. TallyInv'
    BY <1>1, <2>1, <2>2 DEF TallyInv, Counted, Tells, OfTally
  <2>5. ProgressInv'
    <3> SUFFICES ASSUME planStatus = "InProgress"
                 PROVE  Tells(progress, Finished)'
      BY <2>1, <2>3 DEF ProgressInv
    <3>1. Tells(progress, Finished) /\ Tells(jppi[x], {x})
      BY <1>1, <2>2 DEF ProgressInv, TallyInv
    <3>2. Finished' = Finished \cup {x}
      BY <2>2 DEF Finished
    <3>3. progress \in Progress /\ jppi[x] \in Progress
      BY <1>1, <1>5 DEF TypeOK
    <3>4. /\ (progress'.completed > 0) <=> (progress.completed > 0 \/ jppi[x].completed > 0)
          /\ (progress'.failed > 0) <=> (progress.failed > 0 \/ jppi[x].failed > 0)
          /\ (progress'.skipped > 0) <=> (progress.skipped > 0 \/ jppi[x].skipped > 0)
      BY <2>3, <3>3 DEF AddProgress, Progress
    <3> QED BY <2>1, <3>1, <3>2, <3>4 DEF Tells
  <2> QED BY <1>1, <2>1, <2>4, <2>5 DEF JobStatusTellsTheOutcomes, SomeWith
<1>14. CASE ~ScheduleTransfers /\ ~ScheduleTransfer /\ \A x \in Transfer : ~TransferStep(x)
  <2>1. UNCHANGED <<xpc, wasLast, tally, jppi>>
    BY <1>14
       DEF Next, OrderStep, AddJobPart, SetFinalPartOrdered, QueueJobParts, AnnounceJobPart,
           AuthenticationFails, HandlerStep, HandlerClosesXferDone, HandlerWaitsForDrain,
           HandlerReadsStatus, HandlerSetsJobStatus, JobStatusManagerStep,
           UserCancelsOrPauses, CancellerStep, CancellerReadsStatus, CancellerSetsJobStatus,
           CancelContext, CancelSendsProgress, ListJobSummary, GetJobSummary, partVars,
           xferVars
  <2>2. CASE UNCHANGED xstatus
    BY <1>6, <2>1, <2>2
  <2>3. UNCHANGED xstatus \/ \E x \in Transfer : AuthenticationFails(x)
    BY <1>14, <2>1, Footprint
  <2> QED BY <1>9, <2>2, <2>3
<1> QED BY <1>7, <1>8, <1>9, <1>10, <1>11, <1>12, <1>13, <1>14 DEF TransferStep

-----------------------------------------------------------------------------
(* The theorems. *)

(* The process starts with the invariant true. *)
LEMMA InitIndInv == Init => IndInv
<1> SUFFICES ASSUME Init
             PROVE  IndInv
  OBVIOUS
<1> USE DEF Init, SMInit
<1>1. TypeOK
  <2>1. /\ partStatus \in [Part -> JobStatus]
        /\ xstatus \in [Transfer -> TransferOutcomes \cup {"Started"}]
        /\ transfersDone \in [Part -> Nat]
        /\ xpc \in [Transfer -> XferPcs]
        /\ wasLast \in [Transfer -> BOOLEAN]
    BY DEF JobStatus, XferPcs
  <2>2. tally \in [Part -> Progress] /\ jppi \in [Transfer -> Progress] /\ progress \in Progress
    BY ProgressType
  <2>3. SMTypeOK
    <3>1. EmptySummary \in Summary
      BY DEF EmptySummary, Summary
    <3>2. \A S : [state |-> "open", buf |-> <<>>] \in Channel(S)
      BY DEF Channel
    <3> QED BY <3>1, <3>2 DEF SMTypeOK
  <2>4. /\ cpc \in [Canceller -> {"idle", "readStatus", "setJobStatus", "cancel",
                                 "sendProgress", "returned"}]
        /\ wish \in [Canceller -> {"Cancelling", "Paused"}]
    OBVIOUS
  <2>5. 0 \in 0..NumParts /\ "InProgress" \in JobStatus
    BY JobAssumption DEF JobStatus
  <2> QED BY <2>1, <2>2, <2>3, <2>4, <2>5 DEF TypeOK
<1>2. OutcomeInv /\ LastInv
  BY DEF OutcomeInv, LastInv
<1>3. OrderInv
  BY JobAssumption DEF OrderInv
<1>4. ScheduleInv
  BY TransferShape, JobAssumption DEF ScheduleInv, Unscheduled, Part
<1>5. CountInv
  <2>1. ASSUME NEW p \in Part
        PROVE  CountedOf(p) = {}
    BY PartShape DEF CountedOf, Counted
  <2> QED BY <2>1, FS_EmptySet DEF CountInv
<1>6. OneTransferReportsThePart
  BY DEF OneTransferReportsThePart
<1>7. HandlerInv
  <2>1. Reported = {}
    BY PartShape DEF Reported, PartReported
  <2> QED BY <2>1, FS_EmptySet DEF HandlerInv, CompletedStatuses
<1>8. XferDoneInv /\ UndisturbedInv /\ ListenerInv /\ DrainInv
  BY DEF XferDoneInv, UndisturbedInv, ListenerInv, DrainInv, CompletedStatuses
<1>9. SummaryInv
  <2>1. \A K : OnTheWay(K) = {}
    BY DEF OnTheWay, Among
  <2>2. \A K : ToldWith(K) = {}
    BY DEF ToldWith, Told, Counted
  <2>3. js.completed = 0 /\ js.failed = 0 /\ js.skipped = 0
    BY DEF EmptySummary
  <2>4. \A K : Cardinality(OnTheWay(K)) = 0 /\ Cardinality(ToldWith(K)) = 0
    <3> HIDE DEF Init, SMInit
    <3> QED BY <2>1, <2>2, FS_EmptySet
  <2> HIDE DEF Init, SMInit
  <2> QED BY <2>3, <2>4 DEF SummaryInv
<1>10. TellsInv
  <2>1. TallyInv
    BY TransferShape DEF TallyInv, Counted, Tells, OfTally, NoProgress
  <2>2. ProgressInv
    BY DEF ProgressInv, Tells, Finished, NoProgress
  <2>3. JobStatusTellsTheOutcomes
    BY DEF JobStatusTellsTheOutcomes, CompletedStatuses
  <2> QED BY <2>1, <2>2, <2>3 DEF TellsInv
<1> QED BY <1>1, <1>2, <1>3, <1>4, <1>5, <1>6, <1>7, <1>8, <1>9, <1>10 DEF IndInv

(* Every step preserves it. *)
LEMMA NextIndInv == IndInv /\ [Next]_vars => IndInv'
<1>1. ASSUME IndInv, Next
      PROVE  IndInv'
  BY <1>1, TypeStep, OutcomeStep, OrderInvStep, ScheduleStep, CountStep, LastStep,
     OneTransferStep, HandlerInvStep, XferDoneStep, UndisturbedStep, ListenerStep,
     DrainStep, SummaryStep, TellsStep DEF IndInv
<1>2. ASSUME IndInv, UNCHANGED vars
      PROVE  IndInv'
  <2> USE <1>2 DEF vars, planVars, orderVars, feVars, flagVars, schedVars, partVars, xferVars,
                   handlerVars, cancelVars, smVars, IndInv
  <2>1. TypeOK'
    BY DEF TypeOK, SMTypeOK
  <2>2. OutcomeInv' /\ OrderInv' /\ LastInv'
    BY DEF OutcomeInv, OrderInv, LastInv
  <2>3. ScheduleInv'
    BY DEF ScheduleInv, Unscheduled
  <2>4. CountInv' /\ OneTransferReportsThePart'
    BY DEF CountInv, CountedOf, OneTransferReportsThePart, Counted
  <2>5. HandlerInv'
    BY DEF HandlerInv, Reported, PartReported
  <2>6. XferDoneInv' /\ UndisturbedInv' /\ DrainInv'
    BY DEF XferDoneInv, UndisturbedInv, DrainInv
  <2>7. Reported' = Reported
    BY DEF Reported, PartReported
  <2>8. ListenerInv'
    BY <2>7 DEF ListenerInv
  <2>9. SummaryInv'
    BY DEF SummaryInv, MayComplete, OnTheWay, Among, ToldWith, Told, Counted
  <2>10. TellsInv'
    <3>1. TallyInv => TallyInv'
      BY DEF TallyInv, OfTally, Tells, Counted
    <3>2. ProgressInv => ProgressInv'
      BY DEF ProgressInv, Finished, Tells
    <3>3. JobStatusTellsTheOutcomes => JobStatusTellsTheOutcomes'
      BY DEF JobStatusTellsTheOutcomes, SomeWith
    <3> QED BY <3>1, <3>2, <3>3 DEF TellsInv, OneEach
  <2> QED BY <2>1, <2>2, <2>3, <2>4, <2>5, <2>6, <2>8, <2>9, <2>10
<1> QED BY <1>1, <1>2

(* IndInv holds in every state the engine can reach. *)
THEOREM IndInvHolds == Spec => []IndInv
BY InitIndInv, NextIndInv, PTL DEF Spec

(* Every variable keeps its type, whatever the channel sizes and however   *)
(* many parts, transfers and cancellers there are.                         *)
THEOREM TypeCorrect == Spec => []TypeOK
<1>1. IndInv => TypeOK
  BY DEF IndInv
<1> QED BY <1>1, IndInvHolds, PTL

(* Of the concurrent calls of a part's ReportTransferDone exactly one      *)
(* finds the part finished, and then every transfer has been counted.      *)
THEOREM PartReportedOnce == Spec => []OneTransferReportsThePart
<1>1. IndInv => OneTransferReportsThePart
  BY DEF IndInv
<1> QED BY <1>1, IndInvHolds, PTL

(* reportJobPartDoneHandler never lets a job complete early: when its      *)
(* status says that it ran to its end all parts have been ordered and all  *)
(* transfers counted, whatever cancellations and pauses were under way.    *)
THEOREM NeverCompletedEarly == Spec => []CompletedJobHasNothingPending
<1>1. IndInv => CompletedJobHasNothingPending
  <2> SUFFICES ASSUME IndInv, planStatus \in CompletedStatuses
               PROVE  partsOrdered = NumParts /\ \A x \in Transfer : Counted(x)
    BY DEF CompletedJobHasNothingPending
  <2>1. CASE Reported = Part
    BY <2>1, AllReported DEF IndInv
  <2>2. CASE Transfer = {} /\ partsOrdered = NumParts
    BY <2>2
  <2> QED BY <2>1, <2>2 DEF IndInv, HandlerInv
<1> QED BY <1>1, IndInvHolds, PTL

(* The handler never closes xferDone twice, which would panic, however     *)
(* often cancellations make it complete the job again.                     *)
THEOREM NeverClosedTwice == Spec => []XferDoneIsClosedOnce
<1>1. IndInv => XferDoneIsClosedOnce
  BY DEF IndInv, XferDoneInv, XferDoneIsClosedOnce
<1> QED BY <1>1, IndInvHolds, PTL

(* A job that nobody cancels never reports an outcome to a channel that is *)
(* closed or nil: no outcome is lost and no worker waits for ever          *)
(* (SendXferDoneMsg, CloseXferDone).                                       *)
THEOREM OutcomesFindAListener ==
    ASSUME Canceller = {}
    PROVE  Spec => []EveryOutcomeFindsAListener
<1>1. IndInv => EveryOutcomeFindsAListener
  <2> SUFFICES ASSUME IndInv, NEW x \in Transfer, xpc[x] = "sendXferDone"
               PROVE  xferDone.state = "open"
    BY DEF EveryOutcomeFindsAListener
  <2>1. ~Counted(x)
    BY DEF Counted
  <2>2. Reported # Part
    BY <2>1, AllReported DEF IndInv
  <2> QED BY <2>2 DEF IndInv, ListenerInv
<1> QED BY <1>1, IndInvHolds, PTL

(* The summary of a job whose status says it ran to its end counts every   *)
(* transfer's outcome, each once, also if the job was nearly cancelled:    *)
(* the handler has waited for the drain (WaitToDrainXferDone).             *)
THEOREM SummaryIsExact == Spec => []CompletedJobHasExactSummary
<1>1. IndInv => CompletedJobHasExactSummary
  <2> SUFFICES ASSUME IndInv, planStatus \in CompletedStatuses
               PROVE  /\ js.completed = NumberWith({"Success"})
                      /\ js.failed = NumberWith(FailedOutcomes)
                      /\ js.skipped = NumberWith({"Skipped"})
    BY DEF CompletedJobHasExactSummary
  <2>1. SummaryInv /\ DrainInv /\ MayComplete /\ js \in Summary
    BY DEF IndInv, MayComplete, TypeOK, SMTypeOK
  <2>2. \A x \in Transfer : Told(x)
    <3>1. CASE Reported = Part
      BY <3>1, AllReported DEF IndInv, Told
    <3>2. CASE Transfer = {}
      BY <3>2
    <3> QED BY <3>1, <3>2 DEF IndInv, HandlerInv
  <2>3. ASSUME NEW K
        PROVE  ToldWith(K) = {x \in Transfer : xstatus[x] \in K}
    BY <2>2 DEF ToldWith
  <2>4. ASSUME NEW K
        PROVE  Cardinality(OnTheWay(K)) = 0 \/ Cardinality(ToldWith(K)) = 0
    <3>1. CASE Transfer = {}
      BY <3>1, FS_EmptySet DEF ToldWith
    <3>2. CASE Transfer # {}
      <4>1. OnTheWay(K) = {}
        BY <2>1, <3>2 DEF DrainInv, OnTheWay, Among
      <4> QED BY <4>1, FS_EmptySet
    <3> QED BY <3>1, <3>2
  <2>5. ASSUME NEW K
        PROVE  Cardinality(OnTheWay(K)) \in Nat
    <3>1. xferDone.buf \in Seq(TransferOutcomes)
      BY DEF IndInv, TypeOK, SMTypeOK, Channel
    <3>2. "Success" \in TransferOutcomes
      BY DEF TransferOutcomes
    <3> QED BY <3>1, <3>2, AppendCount DEF OnTheWay
  <2>6. js.completed \in Nat /\ js.failed \in Nat /\ js.skipped \in Nat
    BY <2>1 DEF Summary
  <2>7. ASSUME NEW K, NEW n \in Nat,
               n + Cardinality(OnTheWay(K)) = Cardinality(ToldWith(K))
        PROVE  n = NumberWith(K)
    <3>1. NumberWith(K) = Cardinality(ToldWith(K))
      BY <2>3 DEF NumberWith
    <3> QED BY <2>4, <2>5, <2>7, <3>1
  <2> QED BY <2>1, <2>6, <2>7 DEF SummaryInv
<1> QED BY <1>1, IndInvHolds, PTL

(* The status a job of one transfer per part ends with tells what became   *)
(* of its transfers, whoever tried to cancel or pause it.  Two transfers   *)
(* of a part that report at once break it: the last one to be counted may  *)
(* read the part's tally before the other has added to it.                 *)
THEOREM StatusTellsTheOutcomes ==
    ASSUME \A p \in Part : NumTransfers[p] = 1,
           "TierAvailabilityCheckFailure" \notin Outcomes
    PROVE  Spec => []JobStatusTellsTheOutcomes
<1>1. IndInv => JobStatusTellsTheOutcomes
  BY DEF IndInv, TellsInv, OneEach
<1> QED BY <1>1, IndInvHolds, PTL

(* A job nobody cancels does what JobOrder allows: each step of the engine *)
(* orders a part, ends a transfer, or ends the job after all of that, or   *)
(* is one the abstract job does not see.                                   *)
THEOREM ImplementsJobOrder ==
    ASSUME Canceller = {}
    PROVE  Spec => Promise!SafetySpec
<1> DEFINE ended == {x \in Transfer : Counted(x)}
<1>1. Init => Promise!Init
  <2>1. Init => ended = {}
    BY DEF Init, Counted
  <2> QED BY <2>1 DEF Init, Promise!Init
<1>2. /\ Promise!Transfer = Transfer
      /\ Promise!EndStatuses = CompletedStatuses
  BY DEF Promise!Transfer, Promise!TransfersOf, Promise!Part, Transfer, TransfersOf, Part,
         Promise!EndStatuses, CompletedStatuses
<1>3. ASSUME IndInv, Next
      PROVE  Promise!Next \/ UNCHANGED Promise!vars
  <2>1. TypeOK /\ OrderInv /\ ScheduleInv /\ OneTransferReportsThePart /\ HandlerInv
        /\ UndisturbedInv
    BY <1>3 DEF IndInv
  <2>2. CASE UNCHANGED <<planStatus, partsOrdered>> /\ ended' = ended
    BY <2>2 DEF Promise!vars
  <2>3. ended' = ended \/ \E x \in Transfer : CountTransferDone(x)
    BY <1>3, <2>1, CountedStep
  <2>4. ASSUME NEW x \in Transfer, CountTransferDone(x)
        PROVE  Promise!Next
    <3>1. ended' = ended \cup {x} /\ x \notin ended
      BY <2>1, <2>4 DEF CountTransferDone, Counted, TypeOK
    <3>2. x[1] < partsOrdered
      <4>1. xpc[x] # "unscheduled" /\ x[1] \in Nat
        BY <2>4, TransferShape, JobAssumption DEF CountTransferDone, Part
      <4>2. x[1] < partsTaken
        BY <2>1, <4>1 DEF ScheduleInv, Unscheduled, TypeOK
      <4> QED BY <2>1, <4>1, <4>2 DEF OrderInv, TypeOK
    <3>3. UNCHANGED <<planStatus, partsOrdered>>
      BY <2>4 DEF CountTransferDone, planVars, flagVars
    <3> QED BY <1>2, <3>1, <3>2, <3>3 DEF Promise!Next, Promise!EndTransfer
  <2>5. CASE AddJobPart
    <3>1. partsOrdered' = partsOrdered + 1 /\ partsOrdered < NumParts /\ UNCHANGED planStatus
      BY <2>1, <2>5, JobAssumption DEF AddJobPart, OrderInv, TypeOK, planVars
    <3>2. ended' = ended
      BY <2>5 DEF AddJobPart, xferVars, Counted
    <3> QED BY <3>1, <3>2 DEF Promise!Next, Promise!OrderPart
  <2>6. ASSUME planStatus = "InProgress", planStatus' \in CompletedStatuses,
               ended' = ended, UNCHANGED partsOrdered,
               Reported = Part \/ (Transfer = {} /\ partsOrdered = NumParts)
        PROVE  Promise!Next
    <3>1. partsOrdered = NumParts /\ ended = Transfer
      BY <2>1, <2>6, AllReported
    <3> QED BY <1>2, <2>6, <3>1 DEF Promise!Next, Promise!EndJob
  <2>7. CASE ScheduleTransfers
    <3>1. ended' = ended /\ UNCHANGED partsOrdered
      BY <2>7 DEF ScheduleTransfers, xferVars, flagVars, Counted
    <3>2. CASE partsTaken = 0 /\ NumTransfers[0] = 0
      <4>1. NumParts = 1 /\ partsTaken < partsQueued
        BY <2>7, <3>2, JobAssumption DEF ScheduleTransfers, Part
      <4>2. partsOrdered = NumParts
        BY <2>1, <3>2, <4>1 DEF OrderInv, TypeOK
      <4>3. Transfer = {}
        BY <3>2, <4>1, TransferShape DEF Part
      <4>4. planStatus' = "Completed" /\ planStatus \in {"InProgress", "Completed"}
        BY <2>1, <2>7, <3>2, <4>3 DEF ScheduleTransfers, UndisturbedInv
      <4> QED BY <2>2, <2>6, <3>1, <4>2, <4>3, <4>4 DEF CompletedStatuses
    <3>3. CASE ~(partsTaken = 0 /\ NumTransfers[0] = 0)
      BY <2>2, <2>7, <3>1, <3>3 DEF ScheduleTransfers
    <3> QED BY <3>2, <3>3
  <2>8. CASE HandlerSetsJobStatus
    <3>1. ended' = ended /\ UNCHANGED partsOrdered /\ hpc = "setJobStatus"
      BY <2>8 DEF HandlerSetsJobStatus, xferVars, flagVars, Counted
    <3>2. planStatus = "InProgress" /\ statusRead = "InProgress" /\ Reported = Part
      BY <2>1, <3>1 DEF UndisturbedInv, HandlerInv
    <3>3. planStatus' \in CompletedStatuses
      BY <2>8, <3>2, ProgressType DEF HandlerSetsJobStatus
    <3> QED BY <2>6, <3>1, <3>2, <3>3
  <2>9. CASE /\ ~AddJobPart /\ ~ScheduleTransfers /\ ~HandlerSetsJobStatus
             /\ \A x \in Transfer : ~CountTransferDone(x)
    <3>1. UNCHANGED <<planStatus, partsOrdered>>
      BY <1>3, <2>9
         DEF Next, OrderStep, SetFinalPartOrdered, QueueJobParts, AnnounceJobPart,
             ScheduleTransfer, TransferStep, TransferProcessor, FinishTransfer,
             ReportToStatusManager, UpdateJobPartProgress, ComposeJobPartProgress,
             ReportJobPartDone, AuthenticationFails, HandlerStep, HandlerClosesXferDone,
             HandlerWaitsForDrain, HandlerReadsStatus, JobStatusManagerStep, ListJobSummary,
             GetJobSummary, planVars, flagVars
    <3> QED BY <2>2, <2>3, <2>9, <3>1
  <2> QED BY <2>4, <2>5, <2>7, <2>8, <2>9
<1>4. ASSUME UNCHANGED vars
      PROVE  UNCHANGED Promise!vars
  BY <1>4 DEF vars, planVars, flagVars, xferVars, Counted, Promise!vars
<1>5. IndInv /\ [Next]_vars => [Promise!Next]_(Promise!vars)
  BY <1>3, <1>4
<1> QED BY <1>1, <1>5, IndInvHolds, PTL DEF Spec, Promise!SafetySpec

=============================================================================
