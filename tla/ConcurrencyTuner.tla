-------------------------- MODULE ConcurrencyTuner --------------------------
(***************************************************************************)
(* The pool of goroutines that execute chunk functions and what decides    *)
(* how many there are:                                                     *)
(*                                                                         *)
(*   jobMgr.poolSizer        starts and scales back chunkProcessors until  *)
(*                           there are as many as it has been recommended  *)
(*   autoConcurrencyTuner    recommends a number for each measurement, and *)
(*     .worker               looks for the smallest that is as fast as any *)
(*                                                                         *)
(* The sizer and the tuner exchange one message at a time over unbuffered  *)
(* channels: the tuner alternates between getCurrentSpeed and              *)
(* setConcurrency, and a call out of turn would leave both waiting.        *)
(*                                                                         *)
(* Concurrency and multiplier are floats in the code; here they are in     *)
(* hundredths and products are cut off.  How a speed compares with the     *)
(* desired one, the CPU's state and the retries are inputs.                *)
(***************************************************************************)
EXTENDS Integers

CONSTANTS InitialPools,     \* values of InitialMainPoolSize
          MaxMainPoolSize,  \* the limit of the tuner
          TopOfBoostZone,   \* 256 in the code, also the end of the normal range
          ProbeZone         \* [from, to]: 32 and 128 in the code

ASSUME TunerAssumption ==
    /\ InitialPools \subseteq Nat \ {0}
    /\ MaxMainPoolSize \in Nat /\ TopOfBoostZone \in Nat
    /\ \A n \in InitialPools : n < MaxMainPoolSize
    /\ ProbeZone.from \in Nat /\ ProbeZone.to \in Nat

Hundred == 100
Standard == 2 * Hundred
Boosted == 4 * Hundred
MinMultiplier == 119
CountedReductions == 3  \* the code only asks whether there were more than two
Times(a, b) == (a * b) \div Hundred
Whole(c) == c \div Hundred

VARIABLES
    \* autoConcurrencyTuner
    isBenchmarking,  \* fixed when it is made
    tunerPc,         \* which call its worker is in
    concurrency,     \* the value it has settled for so far
    multiplier,      \* what it tries next, relative to it
    trying,          \* the value it has recommended last
    atMax,           \* that value is the limit
    everSawHighCpu, sawHighMultiGbps,
    reductions,      \* multiplierReductionCount, up to CountedReductions
    reason,          \* the reason of the recommendation to be sent
    finalState,      \* what GetFinalState returns
    rejected,        \* values it went back from, as slower, for the properties
    \* poolSizer
    sizerPc,         \* its place in the loop
    target, actual,  \* targetConcurrency and actualConcurrency
    stable,          \* hasHadTimeToStablize
    slowTune,        \* slowTuneCh is not nil yet
    \* the chunkProcessors
    starting, live, exiting  \* how many have not told the sizer that they have
                             \* started, run, have not told it that they exit

tunerVars == <<isBenchmarking, tunerPc, concurrency, multiplier, trying, atMax, everSawHighCpu,
               sawHighMultiGbps, reductions, reason, finalState, rejected>>
sizerVars == <<sizerPc, target, actual, stable, slowTune>>
workerVars == <<starting, live, exiting>>
ctVars == <<tunerVars, sizerVars, workerVars>>

(* The sizer's first target comes straight from the settings.              *)
CTInit ==
    /\ isBenchmarking \in BOOLEAN
    /\ tunerPc = "baseline"
    /\ \E n \in InitialPools : concurrency = n * Hundred /\ trying = n * Hundred /\ target = n
    /\ multiplier = Boosted
    /\ atMax = FALSE /\ everSawHighCpu = FALSE /\ sawHighMultiGbps = FALSE
    /\ reductions = 0 /\ reason = "initial" /\ finalState = "none" /\ rejected = {}
    /\ sizerPc = "loop" /\ actual = 0 /\ stable = FALSE /\ slowTune = TRUE
    /\ starting = 0 /\ live = 0 /\ exiting = 0

-----------------------------------------------------------------------------
(* The worker of the tuner.  Its steps are those in which it receives a    *)
(* measurement (tunerPc says which) or sends a recommendation.             *)

(* The top of the loop: what to try next from concurrency c. *)
Probe(c, m) ==
    LET boost == IF c >= TopOfBoostZone * Hundred /\ m > Standard THEN Standard ELSE m
        over == Times(c, boost) > MaxMainPoolSize * Hundred
    IN  [multiplier |-> IF over THEN (MaxMainPoolSize * Hundred * Hundred) \div c ELSE boost,
         atMax |-> over, reason |-> IF over THEN "hit max" ELSE "seeking"]

ProbeFrom(c, m) ==
    LET next == Probe(c, m)
    IN  /\ multiplier' = next.multiplier
        /\ atMax' = next.atMax
        /\ trying' = IF next.atMax THEN MaxMainPoolSize * Hundred ELSE Times(c, next.multiplier)
        /\ reason' = next.reason
        /\ tunerPc' = "recommendProbe"

(* The first measurement, and the one taken after backing off, only set    *)
(* the speed that the next is compared with.                               *)
Baseline ==
    /\ tunerPc \in {"measureBaseline", "measureBackoff"}
    /\ ProbeFrom(concurrency, multiplier)
    /\ UNCHANGED <<isBenchmarking, concurrency, everSawHighCpu, sawHighMultiGbps, reductions,
                   finalState, rejected, sizerVars, workerVars>>

(* The bump that makes a reduced multiplier count for one connection: in   *)
(* steps of 5, the first that does.                                        *)
Bumped(c, m) ==
    LET counts == {n \in m..Boosted : (n - m) % 5 = 0 /\ Whole(Times(c, n)) # Whole(c)}
    IN  CHOOSE n \in counts : \A other \in counts : n <= other

Reduced(m) == IF m > Standard THEN Standard ELSE Hundred + (m - Hundred) \div 5

(* The multiplier after the times-th reduction.                            *)
NextMultiplier(c, m, times) == IF times <= 2 THEN Bumped(c, Reduced(m)) ELSE Reduced(m)

MutBackoff(c) == trying  \* stays where it is

Backoff(c) == c

(* The end of the search.  Having reached the limit there is no special    *)
(* result, and the final state is the reason that was given for the limit; *)
(* otherwise it is stored once the result has been asked for.              *)
Finish(c, atLimit, highCpu) ==
    /\ concurrency' = c
    /\ trying' = c
    /\ reason' = IF atLimit THEN "finished" ELSE IF highCpu THEN "high cpu" ELSE "at optimum"
    /\ tunerPc' = "recommendFinal"
    /\ finalState' = IF atLimit THEN "hit max" ELSE "none"

(* A probe has been measured: it was faster by enough, or not.             *)
MeasureProbe ==
    /\ tunerPc = "measureProbe"
    /\ \E faster, highCpu, multiGbps, retried \in BOOLEAN :
         LET sawMultiGbps == sawHighMultiGbps \/ multiGbps
             sawHighCpu == everSawHighCpu \/ highCpu
             noBackoff == isBenchmarking /\ retried /\ trying <= TopOfBoostZone * Hundred
             probeHigher == /\ isBenchmarking /\ sawMultiGbps /\ multiplier >= Standard
                            /\ trying >= ProbeZone.from * Hundred
                            /\ trying < ProbeZone.to * Hundred
             next == NextMultiplier(concurrency, multiplier, reductions + 1)
         IN  /\ everSawHighCpu' = sawHighCpu
             /\ sawHighMultiGbps' = sawMultiGbps
             /\ \/ /\ faster \/ probeHigher
                   /\ IF atMax
                      THEN /\ Finish(trying, TRUE, sawHighCpu)
                           /\ UNCHANGED <<multiplier, atMax>>
                      ELSE /\ concurrency' = trying
                           /\ ProbeFrom(trying, multiplier)
                           /\ UNCHANGED finalState
                   /\ rejected' = rejected \ {trying}
                   /\ UNCHANGED reductions
                \/ /\ ~faster /\ ~probeHigher /\ noBackoff
                   /\ Finish(trying, atMax, sawHighCpu)
                   /\ UNCHANGED <<multiplier, atMax, reductions, rejected>>
                \/ /\ ~faster /\ ~probeHigher /\ ~noBackoff
                   /\ rejected' = rejected \cup ({trying} \ {concurrency})
                   /\ reductions' = IF reductions < CountedReductions THEN reductions + 1 ELSE reductions
                   /\ multiplier' = next
                   /\ IF next < MinMultiplier
                      THEN Finish(Backoff(concurrency), atMax, sawHighCpu)
                      ELSE /\ concurrency' = Backoff(concurrency)
                           /\ trying' = Backoff(concurrency)
                           /\ reason' = "backoff"
                           /\ tunerPc' = "recommendBackoff"
                           /\ UNCHANGED finalState
                   /\ UNCHANGED atMax
    /\ UNCHANGED <<isBenchmarking, sizerVars, workerVars>>

(* When it has finished it stores the final state, and answers every       *)
(* measurement with the same value.                                        *)
MeasureFinal ==
    /\ tunerPc = "measureFinal"
    /\ tunerPc' = "recommendFinal"
    /\ finalState' = IF finalState = "none" THEN reason ELSE finalState
    /\ reason' = "finished"
    /\ UNCHANGED <<isBenchmarking, concurrency, multiplier, trying, atMax, everSawHighCpu,
                   sawHighMultiGbps, reductions, rejected, sizerVars, workerVars>>

TunerStep == Baseline \/ MeasureProbe \/ MeasureFinal

(* What it does with the next measurement after each recommendation.       *)
AfterRecommending ==
    CASE tunerPc = "recommendProbe"   -> "awaitProbe"
      [] tunerPc = "recommendBackoff" -> "awaitBackoff"
      [] OTHER                        -> "awaitFinal"

(* And what it does with one that arrives.                                 *)
AfterReceiving ==
    CASE tunerPc = "baseline"     -> "measureBaseline"
      [] tunerPc = "awaitProbe"   -> "measureProbe"
      [] tunerPc = "awaitBackoff" -> "measureBackoff"
      [] OTHER                     -> "measureFinal"

-----------------------------------------------------------------------------
(* poolSizer.  At the top of its loop it starts a worker or asks for one   *)
(* to be scaled back, then it waits for an event.                          *)

StartWorker ==
    /\ sizerPc = "loop" /\ actual < target
    /\ starting' = starting + 1
    /\ stable' = FALSE
    /\ sizerPc' = "wait"
    /\ UNCHANGED <<tunerVars, target, actual, slowTune, live, exiting>>

(* The request is received by a worker that looks for work.                *)
ScaleBack ==
    /\ sizerPc = "loop" /\ actual > target
    /\ live > 0
    /\ live' = live - 1 /\ exiting' = exiting + 1
    /\ stable' = FALSE
    /\ sizerPc' = "wait"
    /\ UNCHANGED <<tunerVars, target, actual, slowTune, starting>>

OnTarget ==
    /\ sizerPc = "loop" /\ actual = target
    /\ sizerPc' = "wait"
    /\ UNCHANGED <<tunerVars, target, actual, stable, slowTune, workerVars>>

WorkerStarted ==
    /\ sizerPc = "wait" /\ starting > 0
    /\ starting' = starting - 1 /\ live' = live + 1
    /\ actual' = actual + 1
    /\ sizerPc' = "loop"
    /\ UNCHANGED <<tunerVars, target, stable, slowTune, exiting>>

WorkerExited ==
    /\ sizerPc = "wait" /\ exiting > 0
    /\ exiting' = exiting - 1
    /\ actual' = actual - 1
    /\ sizerPc' = "loop"
    /\ UNCHANGED <<tunerVars, target, stable, slowTune, starting, live>>

(* RequestTuneSlowly is heard once; it wakes the sizer up.                 *)
TuneSlowly ==
    /\ sizerPc = "wait" /\ slowTune
    /\ slowTune' = FALSE
    /\ sizerPc' = "loop"
    /\ UNCHANGED <<tunerVars, target, actual, stable, workerVars>>

(* The monitoring interval, 4 or 8 seconds, has passed.  It is long: no    *)
(* worker is still about to say that it starts or exits.                   *)
IntervalPasses ==
    /\ sizerPc = "wait" /\ starting = 0 /\ exiting = 0
    /\ IF actual # target
       THEN sizerPc' = "loop" /\ UNCHANGED stable
       ELSE IF ~stable
            THEN sizerPc' = "loop" /\ stable' = TRUE
            ELSE sizerPc' = "sendMeasurement" /\ UNCHANGED stable
    /\ UNCHANGED <<tunerVars, target, actual, slowTune, workerVars>>

(* GetRecommendedConcurrency: the measurement is handed over, then the     *)
(* recommendation.                                                         *)
SendMeasurement ==
    /\ sizerPc = "sendMeasurement"
    /\ tunerPc \in {"baseline", "awaitProbe", "awaitBackoff", "awaitFinal"}
    /\ tunerPc' = AfterReceiving
    /\ sizerPc' = "awaitRecommendation"
    /\ UNCHANGED <<isBenchmarking, concurrency, multiplier, trying, atMax, everSawHighCpu,
                   sawHighMultiGbps, reductions, reason, finalState, rejected, target, actual,
                   stable, slowTune, workerVars>>

ReceiveRecommendation ==
    /\ sizerPc = "awaitRecommendation"
    /\ tunerPc \in {"recommendProbe", "recommendBackoff", "recommendFinal"}
    /\ tunerPc' = AfterRecommending
    /\ target' = Whole(trying)
    /\ sizerPc' = "loop"
    /\ UNCHANGED <<isBenchmarking, concurrency, multiplier, trying, atMax, everSawHighCpu,
                   sawHighMultiGbps, reductions, reason, finalState, rejected, actual, stable,
                   slowTune, workerVars>>

SizerStep ==
    \/ StartWorker \/ ScaleBack \/ OnTarget
    \/ WorkerStarted \/ WorkerExited \/ IntervalPasses
    \/ SendMeasurement \/ ReceiveRecommendation

CTNext == TunerStep \/ SizerStep \/ TuneSlowly

(* Both goroutines go on, workers start, exit and look for work again, and *)
(* time passes.  Nobody has to ask for slow tuning.                        *)
CTFairness == WF_ctVars(TunerStep) /\ WF_ctVars(SizerStep)

CTSpec == CTInit /\ [][CTNext]_ctVars /\ CTFairness

-----------------------------------------------------------------------------
CTTypeOK ==
    /\ concurrency \in 1..(MaxMainPoolSize * Hundred)
    /\ trying \in 1..(MaxMainPoolSize * Hundred)
    /\ multiplier \in Hundred..Boosted
    /\ reductions \in 0..CountedReductions
    /\ target \in 0..MaxMainPoolSize
    /\ actual \in Nat /\ starting \in Nat /\ live \in Nat /\ exiting \in Nat
    /\ finalState \in {"none", "hit max", "high cpu", "at optimum"}

(* The pool never has more goroutines than the greater of what is wanted   *)
(* and what is counted, and at most one in excess of the configured limit, *)
(* whatever woke the sizer up between two of them (poolSizer).             *)
PoolWithinLimit == starting + live + exiting <= MaxMainPoolSize + 1

(* The value the tuner settles for is not one that it found too slow and   *)
(* never found fast enough later: it goes back to where it was before it   *)
(* reports its result.                                                     *)
SettlesForWhatWorked ==
    finalState # "none" /\ ~isBenchmarking => concurrency \notin rejected

(* The tuner and the sizer stay in step: the search ends however the       *)
(* measurements turn out, and from then on every request is answered.      *)
TuningEnds == <>[](finalState # "none")

(* The pool follows: in the end it has as many workers as recommended.     *)
PoolReachesTarget == <>[](target = Whole(concurrency)) /\ []<>(actual = target /\ starting = 0)

(* The pool keeps to its limits while it is sized by a search that ends at *)
(* a value that worked.                                                    *)
PoolInv ==
    /\ CTTypeOK
    /\ PoolWithinLimit
    /\ SettlesForWhatWorked
=============================================================================
