--------------------------- MODULE MCEngineParts ----------------------------
(***************************************************************************)
(* Small instances of a synchronisation and of the parts of the engine     *)
(* that share no state, side by side: chosen says which of them a          *)
(* behaviour is about, the others stay in one of their initial states.     *)
(***************************************************************************)
EXTENDS Limits, PlanFile, RemoveJob, FolderCreation, InPlaceSend, SyncJob

MCProbeZone == [from |-> 4, to |-> 16]

(* root/d/e/g and root/d/f *)
MCParent == [x \in {"f", "g", "d", "e"} |->
                CASE x = "f" -> "d" [] x = "g" -> "e" [] x = "e" -> "d" [] OTHER -> "root"]

(* top/d/e/f *)
MCFolderOf == [x \in {"f", "d", "e"} |->
                 CASE x = "f" -> "e" [] x = "e" -> "d" [] OTHER -> "top"]
MCSchedule == <<"f", "d", "e">>

VARIABLE chosen

partVars == <<ctVars, tbVars, pfVars, rmVars, fcVars, ipVars, syVars, chosen>>

NothingToDo == [source |-> TRUE, target |-> TRUE, newer |-> FALSE, hash |-> "missing",
                readable |-> TRUE, capitals |-> FALSE]

NoSync ==
    /\ uploads = TRUE /\ comparison = "hash" /\ ignoresCase = FALSE
    /\ pair = [o \in Objects |-> NothingToDo] /\ NothingCompared

MCInit ==
    /\ chosen \in {"pool", "pacer", "plan file", "removal", "folders", "in place", "sync"}
    /\ CTInit /\ (chosen # "pool" => ~isBenchmarking /\ target = 1)
    /\ TBInit /\ (chosen # "pacer" => ~isAuto /\ rate = 0)
    /\ PFInit /\ (chosen # "plan file" => order = [t \in OrderIndex |-> [f \in Field |-> 0]])
    /\ RMInit /\ (chosen # "removal" => location = "File")
    /\ FCInit /\ (chosen # "folders" => dest = "local" /\ there = {})
    /\ IPInit
    /\ chosen # "in place" =>
           kind = "page" /\ isUpload /\ withData = {} /\ destBefore = Absent
    /\ IF chosen = "sync" THEN SYInit ELSE NoSync

MCNext ==
    /\ UNCHANGED chosen
    /\ \/ /\ chosen = "pool" /\ CTNext
          /\ UNCHANGED <<tbVars, pfVars, rmVars, fcVars, ipVars, syVars>>
       \/ /\ chosen = "pacer" /\ TBNext
          /\ UNCHANGED <<ctVars, pfVars, rmVars, fcVars, ipVars, syVars>>
       \/ /\ chosen = "plan file" /\ PFNext
          /\ UNCHANGED <<ctVars, tbVars, rmVars, fcVars, ipVars, syVars>>
       \/ /\ chosen = "removal" /\ RMNext
          /\ UNCHANGED <<ctVars, tbVars, pfVars, fcVars, ipVars, syVars>>
       \/ /\ chosen = "folders" /\ FCNext
          /\ UNCHANGED <<ctVars, tbVars, pfVars, rmVars, ipVars, syVars>>
       \/ /\ chosen = "in place" /\ IPNext
          /\ UNCHANGED <<ctVars, tbVars, pfVars, rmVars, fcVars, syVars>>
       \/ /\ chosen = "sync" /\ SYNext
          /\ UNCHANGED <<ctVars, tbVars, pfVars, rmVars, fcVars, ipVars>>

(* The fairness of CTSpec, TBSpec, RMSpec, FCSpec and IPSpec, for the      *)
(* chosen one.                                                             *)
MCFairness ==
    /\ WF_ctVars(chosen = "pool" /\ TunerStep) /\ WF_ctVars(chosen = "pool" /\ SizerStep)
    /\ WF_tbVars(chosen = "pacer" /\ BodyStep)
    /\ \A r \in Requesters : WF_tbVars(chosen = "pacer" /\ RequestStep(r))
    /\ \A x \in Transfers : WF_rmVars(chosen = "removal" /\ RemovalStep(x))
    /\ WF_fcVars(chosen = "folders" /\ ScheduleTransfer)
    /\ \A x \in Copies : WF_fcVars(chosen = "folders" /\ CopyStep(x))
    /\ WF_ipVars(chosen = "in place" /\ SendStep)
    /\ WF_ipVars(chosen = "in place" /\ EpilogueStep)
    /\ \A c \in Cell : WF_ipVars(chosen = "in place" /\ CellStep(c))

MCSpec == MCInit /\ [][MCNext]_partVars /\ MCFairness

(* In the end the tuner has settled, and the pool has the size it settled  *)
(* for; nobody waits for the pacer for ever, and a cap takes effect; every *)
(* removal, every copy and every transfer has ended.                       *)
TheTuningEnds == <>[](chosen = "pool" => finalState # "none")
ThePoolReachesItsTarget ==
    /\ <>[](chosen = "pool" => target = Whole(concurrency))
    /\ []<>(chosen = "pool" => actual = target /\ starting = 0)
EveryAllocationIsAnswered == \A r \in Requesters : []<>(chosen = "pacer" => reqPc[r] # "wait")
TheCapTakesEffect == <>[](chosen = "pacer" => isAuto \/ rate = wanted)
EveryChosenRemovalEnds ==
    \A x \in Transfers : []<>(chosen = "removal" => rmPc[x] \in {"done", "dropped"})
EveryChosenCopyEnds == \A x \in Copies : []<>(chosen = "folders" => fcPc[x] = "done")
EveryChosenSendEnds == []<>(chosen = "in place" => sendPc = "done")

EveryPartSettles ==
    /\ TheTuningEnds
    /\ ThePoolReachesItsTarget
    /\ EveryAllocationIsAnswered
    /\ TheCapTakesEffect
    /\ EveryChosenRemovalEnds
    /\ EveryChosenCopyEnds
    /\ EveryChosenSendEnds
=============================================================================
