------------------------------ MODULE JobOrder ------------------------------
(***************************************************************************)
(* What a job promises whoever ordered it, when nobody cancels it: its     *)
(* parts are ordered one after the other, transfers of ordered parts end   *)
(* in any order, and its status changes once, after the last part has been *)
(* ordered and every transfer has ended.  JobMgr implements this.          *)
(***************************************************************************)
EXTENDS Integers

CONSTANTS NumParts, NumTransfers

Part == 0..(NumParts - 1)
TransfersOf(p) == {p} \X (0..(NumTransfers[p] - 1))
Transfer == UNION {TransfersOf(p) : p \in Part}

EndStatuses == {"Completed", "CompletedWithErrors", "CompletedWithSkipped",
                "CompletedWithErrorsAndSkipped", "Failed"}

VARIABLES status,   \* the status of the job
          ordered,  \* number of parts ordered
          ended     \* transfers that have ended

vars == <<status, ordered, ended>>

Init == status = "InProgress" /\ ordered = 0 /\ ended = {}

OrderPart ==
    /\ ordered < NumParts
    /\ ordered' = ordered + 1
    /\ UNCHANGED <<status, ended>>

EndTransfer(x) ==
    /\ x[1] < ordered /\ x \notin ended
    /\ ended' = ended \cup {x}
    /\ UNCHANGED <<status, ordered>>

EndJob ==
    /\ status = "InProgress"
    /\ ordered = NumParts /\ ended = Transfer
    /\ status' \in EndStatuses
    /\ UNCHANGED <<ordered, ended>>

Next ==
    \/ OrderPart
    \/ \E x \in Transfer : EndTransfer(x)
    \/ EndJob

SafetySpec == Init /\ [][Next]_vars
Spec == SafetySpec /\ WF_vars(Next)
=============================================================================
