-------------------------- MODULE JobStatusManager --------------------------
(***************************************************************************)
(* ste/jobStatusManager.go: the goroutine that owns a job's summary and    *)
(* the channels through which the rest of the engine talks to it.          *)
(*                                                                         *)
(*   partCreated  the front end announces each part it has ordered         *)
(*   xferDone     every finished transfer reports its outcome              *)
(*   listReq      the front end asks for the summary                       *)
(*                                                                         *)
(* A channel is a record: its buffer and whether the field holds an open   *)
(* channel, a closed one, or nil.  A send on an open channel blocks while  *)
(* the buffer is full, a send on a closed one panics (and the panic is     *)
(* recovered), a send on a nil one blocks for ever.                        *)
(*                                                                         *)
(* The module has no specification of its own: JobMgr extends it and       *)
(* combines its actions with the goroutines at the other ends.             *)
(***************************************************************************)
EXTENDS Integers, Sequences

CONSTANTS XferDoneCap,      \* capacity of xferDone (1000 in the code)
          PartCreatedCap    \* capacity of partCreated (100 in the code)

ASSUME ChannelCapAssumption ==
    XferDoneCap \in Nat \ {0} /\ PartCreatedCap \in Nat \ {0}

VARIABLES xferDone,          \* [state, buf]: outcomes not handled yet
          partCreated,       \* [state, buf]: parts not handled yet
          js,                \* the summary being kept
          xferDoneDrained,   \* the channel of that name has been closed
          statusMgrDone      \* the goroutine has ended

smVars == <<xferDone, partCreated, js, xferDoneDrained, statusMgrDone>>

(* Outcomes of a transfer, with the failures and the skips that are always *)
(* treated alike merged into one each.                                     *)
TransferOutcomes ==
    {"Success", "Failed", "TierAvailabilityCheckFailure", "Skipped", "Cancelled"}

FailedOutcomes == {"Failed", "TierAvailabilityCheckFailure"}

EmptySummary ==
    [total |-> 0, completed |-> 0, failed |-> 0, skipped |-> 0,
     completeJobOrdered |-> FALSE]

SMInit ==
    /\ xferDone = [state |-> "open", buf |-> <<>>]
    /\ partCreated = [state |-> "open", buf |-> <<>>]
    /\ js = EmptySummary
    /\ xferDoneDrained = FALSE
    /\ statusMgrDone = FALSE

-----------------------------------------------------------------------------
(* The senders. *)

SendXferDone(outcome) ==
    /\ xferDone.state = "open"
    /\ Len(xferDone.buf) < XferDoneCap
    /\ xferDone' = [xferDone EXCEPT !.buf = Append(@, outcome)]
    /\ UNCHANGED <<partCreated, js, xferDoneDrained, statusMgrDone>>

(* The send panics, the deferred recover() logs it, the outcome is lost. *)
SendXferDoneRecovered ==
    /\ xferDone.state = "closed"
    /\ UNCHANGED smVars

(* The select sends the message or, when nobody listens any more, backs    *)
(* off; after the final part the channel is closed.  The front end orders  *)
(* parts one after the other, the final one last, so it never meets a      *)
(* channel that is already closed.                                         *)
SendJobPartCreated(transfers, isFinalPart) ==
    LET closedIfFinal(ch) == IF isFinalPart THEN [ch EXCEPT !.state = "closed"] ELSE ch
        msg == [transfers |-> transfers, isFinalPart |-> isFinalPart]
    IN  /\ partCreated.state = "open"
        /\ \/ /\ Len(partCreated.buf) < PartCreatedCap
              /\ partCreated' = closedIfFinal([partCreated EXCEPT !.buf = Append(@, msg)])
           \/ /\ statusMgrDone
              /\ partCreated' = closedIfFinal(partCreated)
        /\ UNCHANGED <<xferDone, js, xferDoneDrained, statusMgrDone>>

(* The job manager closes xferDone unless the field is already nil. *)
CloseXferDone ==
    /\ xferDone' = IF xferDone.state = "nil" THEN xferDone
                                             ELSE [xferDone EXCEPT !.state = "closed"]
    /\ UNCHANGED <<partCreated, js, xferDoneDrained, statusMgrDone>>

-----------------------------------------------------------------------------
(* The select loop of handleStatusUpdateMessage. *)

ReceivePartCreated ==
    /\ ~statusMgrDone /\ partCreated.buf # <<>>
    /\ LET msg == Head(partCreated.buf)
       IN  js' = [js EXCEPT !.total = @ + msg.transfers,
                            !.completeJobOrdered = @ \/ msg.isFinalPart]
    /\ partCreated' = [partCreated EXCEPT !.buf = Tail(@)]
    /\ UNCHANGED <<xferDone, xferDoneDrained, statusMgrDone>>

PartCreatedClosed ==
    /\ ~statusMgrDone /\ partCreated.state = "closed" /\ partCreated.buf = <<>>
    /\ partCreated' = [partCreated EXCEPT !.state = "nil"]
    /\ UNCHANGED <<xferDone, js, xferDoneDrained, statusMgrDone>>

Tallied(summary, outcome) ==
    CASE outcome = "Success" -> [summary EXCEPT !.completed = @ + 1]
      [] outcome \in FailedOutcomes -> [summary EXCEPT !.failed = @ + 1]
      [] outcome = "Skipped" -> [summary EXCEPT !.skipped = @ + 1]
      [] OTHER -> summary

ReceiveXferDone ==
    /\ ~statusMgrDone /\ xferDone.buf # <<>>
    /\ js' = Tallied(js, Head(xferDone.buf))
    /\ xferDone' = [xferDone EXCEPT !.buf = Tail(@)]
    /\ UNCHANGED <<partCreated, xferDoneDrained, statusMgrDone>>

MutXferDoneClosed ==  \* forgets to release those who wait
    /\ ~statusMgrDone /\ xferDone.state = "closed" /\ xferDone.buf = <<>>
    /\ xferDone' = [xferDone EXCEPT !.state = "nil"]
    /\ UNCHANGED <<partCreated, js, xferDoneDrained, statusMgrDone>>

MutXferDoneStaysClosed ==  \* leaves the closed channel in the field
    /\ ~statusMgrDone /\ xferDone.state = "closed" /\ xferDone.buf = <<>>
    /\ xferDoneDrained' = TRUE
    /\ UNCHANGED <<xferDone, partCreated, js, statusMgrDone>>

(* The receive that reports a closed and empty channel: the field becomes  *)
(* nil and those who wait for the drain are released.                      *)
XferDoneClosed ==
    /\ ~statusMgrDone /\ xferDone.state = "closed" /\ xferDone.buf = <<>>
    /\ xferDone' = [xferDone EXCEPT !.state = "nil"]
    /\ xferDoneDrained' = TRUE
    /\ UNCHANGED <<partCreated, js, statusMgrDone>>

(* A listReq is answered with the summary as it stands; once xferDone is   *)
(* drained the answer is the goroutine's last act, and later callers of    *)
(* ListJobSummary read js themselves.                                      *)
AnswerListReq ==
    /\ statusMgrDone' = (statusMgrDone \/ xferDoneDrained)
    /\ UNCHANGED <<xferDone, partCreated, js, xferDoneDrained>>

StatusManagerStep ==
    \/ ReceivePartCreated
    \/ PartCreatedClosed
    \/ ReceiveXferDone
    \/ XferDoneClosed

-----------------------------------------------------------------------------
Channel(S) == [state : {"open", "closed", "nil"}, buf : Seq(S)]

JobPartCreatedMsg == [transfers : Nat, isFinalPart : BOOLEAN]

Summary == [total : Nat, completed : Nat, failed : Nat, skipped : Nat,
            completeJobOrdered : BOOLEAN]

SMTypeOK ==
    /\ xferDone \in Channel(TransferOutcomes)
    /\ partCreated \in Channel(JobPartCreatedMsg)
    /\ js \in Summary
    /\ xferDoneDrained \in BOOLEAN
    /\ statusMgrDone \in BOOLEAN
=============================================================================
