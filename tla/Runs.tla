-------------------------------- MODULE Runs --------------------------------
(***************************************************************************)
(* What is true of a run of the program as a whole: of the command it is   *)
(* given, of what its transfers keep, and of what it leaves to later       *)
(* processes.                                                              *)
(***************************************************************************)
EXTENDS SyncCommand, FileProperties, ResumableDownload, ResumeJob

(* Of the command lines as they are modelled only a sync's says what is to *)
(* become of trailing dots.                                                *)
ASSUME CommandsAssumption == \A line \in Asked : "dots" \notin DOMAIN line

IsSync == "dots" \in DOMAIN asked

(* What is asked for is done as the two ends allow: by a copy from its     *)
(* options to where things land, by a sync from its options to how both    *)
(* ends are listed, by a transfer to what is kept with them (cmd/copy.go,  *)
(* cmd/sync.go, ste/sender-azureFile.go).                                  *)
CommandInv ==
    /\ IF IsSync THEN SyncCommandInv ELSE CopyInv
    /\ FilePropertiesInv

(* No process undoes what an earlier one has achieved: it keeps the data   *)
(* of a download that has progress, and transfers that have succeeded      *)
(* (ste/xfer-remoteToLocal-file.go, jobsAdmin/init.go).                    *)
NothingIsLost ==
    /\ PartialIsKept
    /\ WhatSucceededStays
=============================================================================
