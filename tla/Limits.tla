------------------------------- MODULE Limits -------------------------------
(***************************************************************************)
(* What bounds the work of the engine while it runs, side by side: the     *)
(* number of goroutines that execute chunk functions, which follows the    *)
(* search of the tuner, and the bytes that they may send or receive, which *)
(* the pacer hands out.  The two share no state: the pool is sized by the  *)
(* throughput, whatever held it back.                                      *)
(***************************************************************************)
EXTENDS ConcurrencyTuner, TokenBucket

LimitsSpec == CTSpec /\ TBSpec

(* The engine sizes its pool and paces its requests by what it measures:   *)
(* neither runs away from its bounds or loses count (poolSizer,            *)
(* RequestTrafficAllocation).                                              *)
LimitsInv ==
    /\ PoolInv
    /\ PacerInv
=============================================================================
