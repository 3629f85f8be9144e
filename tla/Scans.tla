--------------------------------- MODULE Scans --------------------------------
(***************************************************************************)
(* How a copy, a removal or a sync finds the objects at one of its ends:   *)
(* by walking the local disk, or by listing a container or a share.  The   *)
(* two ends of a job have a traverser each, and these share no state.      *)
(***************************************************************************)
EXTENDS LocalScan, ServiceScan

ScansSpec == LSSpec /\ SVSpec

(* What is handed to the processors is what there is, whether it is found  *)
(* on a disk or listed by a service (the traversers' Traverse).            *)
EveryScanIsExact ==
    /\ ScanInv
    /\ ServiceScanInv
=============================================================================
