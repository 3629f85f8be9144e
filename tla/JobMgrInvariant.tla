-------------------------- MODULE JobMgrInvariant --------------------------
(***************************************************************************)
(* The inductive invariant of JobMgr: what the goroutines of a job rely on *)
(* between their steps, in parts that are each about one of them.  TLC     *)
(* checks it here on small instances, JobMgrProofs proves it.              *)
(***************************************************************************)
EXTENDS JobMgr

(* A transfer that is to be reported has an outcome, so what the status    *)
(* manager is sent is never "Started".                                     *)
OutcomeInv ==
    \A x \in Transfer : xpc[x] = "sendXferDone" => xstatus[x] # "Started"

(* The front end's place tells which parts are known, which of them have   *)
(* been queued, and that the final-part flag is set only with all of them. *)
OrderInv ==
    /\ (orderPc = "done") <=> (orderPart = NumParts)
    /\ partsOrdered = IF orderPc \in {"addPart", "done"} THEN orderPart ELSE orderPart + 1
    /\ partsQueued = IF orderPc = "announce" THEN orderPart + 1 ELSE orderPart
    /\ finalPartOrdered => partsOrdered = NumParts
    /\ partsTaken <= partsQueued

(* The transfers not scheduled yet are those of parts still in the channel *)
(* and those of the scheduler's part that it has not come to.              *)
Unscheduled(x) ==
    \/ x[1] >= partsTaken
    \/ x[1] = partsTaken - 1 /\ x[2] >= nextTransfer

ScheduleInv ==
    /\ \A x \in Transfer : (xpc[x] = "unscheduled") <=> Unscheduled(x)
    /\ partsTaken > 0 => nextTransfer <= NumTransfers[partsTaken - 1]

(* A part's counter counts what it says. *)
CountedOf(p) == {x \in TransfersOf(p) : Counted(x)}

CountInv ==
    \A p \in Part : transfersDone[p] = Cardinality(CountedOf(p))

(* Only a part's last transfer goes on to report the part. *)
LastInv ==
    \A x \in Transfer :
        xpc[x] \in {"compose", "reportJobPartDone"} => wasLast[x]

Reported == {p \in Part : PartReported(p)}

(* As long as nobody has cancelled the job, the handler's counter is the   *)
(* number of parts that reported, and once it has decided to complete the  *)
(* job all of them have.  What the handler read before a cancellation, and *)
(* a status it set, keep their meaning afterwards.                         *)
HandlerInv ==
    /\ planStatus = "InProgress" =>
           /\ \A c \in Canceller : cpc[c] \in {"idle", "readStatus", "setJobStatus"}
           /\ partsDone = Cardinality(Reported)
           /\ hpc # "receive" => Reported = Part
           /\ hpc = "setJobStatus" => statusRead = "InProgress"
    /\ hpc = "setJobStatus" /\ statusRead = "InProgress" => Reported = Part
    /\ planStatus \in CompletedStatuses =>
           Reported = Part \/ (Transfer = {} /\ partsOrdered = NumParts)

(* xferDone is closed only between the handler's close and the drain it    *)
(* waits for, which sets it to nil for good.                               *)
XferDoneInv ==
    /\ xferDone.state = "closed" => hpc = "waitToDrainXferDone"
    /\ xferDoneDrained => xferDone.state = "nil"

(* In a job nobody cancels the status changes once, when the handler is    *)
(* done with it; a job without transfers completes without the handler.    *)
UndisturbedInv ==
    Canceller = {} =>
        /\ planStatus \in CompletedStatuses \cup {"InProgress"}
        /\ hpc # "receive" => planStatus = "InProgress"
        /\ Transfer = {} => planStatus \in {"InProgress", "Completed"}

(* Until all parts of such a job have reported, the status manager takes   *)
(* their outcomes.                                                         *)
ListenerInv ==
    Canceller = {} /\ xferDone.state # "open" => Reported = Part

(* Once the channel is drained it stays empty, and the handler does not    *)
(* complete a job before.                                                  *)
DrainInv ==
    /\ xferDoneDrained => xferDone.buf = <<>>
    /\ hpc \in {"readStatus", "setJobStatus"} => xferDoneDrained
    /\ planStatus \in CompletedStatuses /\ Transfer # {} => xferDoneDrained

(* As long as the job may still be completed, what the status manager has  *)
(* counted and what is on its way to it are the outcomes of the transfers  *)
(* that have told it.  A cancelled job loses some on a closed channel.     *)
Told(x) == xpc[x] = "count" \/ Counted(x)
ToldWith(outcomes) == {x \in Transfer : Told(x) /\ xstatus[x] \in outcomes}
Among(buf, outcomes) == {i \in DOMAIN buf : buf[i] \in outcomes}
OnTheWay(outcomes) == Among(xferDone.buf, outcomes)

MayComplete ==
    \/ Transfer = {}
    \/ planStatus \in CompletedStatuses \cup {"InProgress"}
    \/ hpc = "setJobStatus" /\ statusRead = "InProgress"

SummaryInv ==
    MayComplete =>
        /\ js.completed + Cardinality(OnTheWay({"Success"})) = Cardinality(ToldWith({"Success"}))
        /\ js.failed + Cardinality(OnTheWay(FailedOutcomes)) = Cardinality(ToldWith(FailedOutcomes))
        /\ js.skipped + Cardinality(OnTheWay({"Skipped"})) = Cardinality(ToldWith({"Skipped"}))

(* A job of one transfer per part, none of which checks for tiers: a       *)
(* part's tally is not read before it is complete, so each sum of counters *)
(* tells which outcomes there are among the transfers it has been made of, *)
(* up to the status that is made of them.                                  *)
OneEach ==
    /\ \A p \in Part : NumTransfers[p] = 1
    /\ "TierAvailabilityCheckFailure" \notin Outcomes

Tells(info, xs) ==
    /\ (info.completed > 0) <=> (\E x \in xs : xstatus[x] = "Success")
    /\ (info.failed > 0) <=> (\E x \in xs : xstatus[x] = "Failed")
    /\ (info.skipped > 0) <=> (\E x \in xs : xstatus[x] = "Skipped")

OfTally(x) == {y \in {x} : xpc[y] \in {"compose", "reportJobPartDone", "finished"}}
Finished == {x \in Transfer : xpc[x] = "finished"}

TallyInv ==
    \A x \in Transfer : /\ xstatus[x] # "TierAvailabilityCheckFailure"
                        /\ Counted(x) => wasLast[x]
                        /\ Tells(tally[x[1]], OfTally(x))
                        /\ xpc[x] = "reportJobPartDone" => Tells(jppi[x], {x})

ProgressInv ==
    planStatus = "InProgress" \/ (hpc = "setJobStatus" /\ statusRead = "InProgress")
        => Tells(progress, Finished)

TellsInv == OneEach => TallyInv /\ ProgressInv /\ JobStatusTellsTheOutcomes

IndInv ==
    /\ TypeOK
    /\ OutcomeInv
    /\ OrderInv
    /\ ScheduleInv
    /\ CountInv
    /\ LastInv
    /\ OneTransferReportsThePart
    /\ HandlerInv
    /\ XferDoneInv
    /\ UndisturbedInv
    /\ ListenerInv
    /\ DrainInv
    /\ SummaryInv
    /\ TellsInv
=============================================================================
