---------------------------- MODULE TokenBucket ----------------------------
(***************************************************************************)
(* tokenBucketPacer and autoTokenBucketPacer: the goroutines that send or  *)
(* receive bytes ask for an allocation and wait until the bucket has it;   *)
(* pacerBody fills the bucket at the target rate; rateTunerBody, in the    *)
(* pacers of page blobs, changes that rate after 503s.                     *)
(*                                                                         *)
(* All of them share three atomic numbers and no lock.  An attempt that    *)
(* finds too little takes its tokens and puts them back in two steps, and  *)
(* others see the bucket in between.  Time passes in ticks of pacerBody,   *)
(* each worth a second's tokens; how long a wait sleeps is not counted.    *)
(***************************************************************************)
EXTENDS Integers, FiniteSets, FiniteSetsExt

CONSTANTS Requesters,    \* goroutines that read or write bodies
          Sizes,         \* bytes asked for at once
          InitialRates,  \* targets the pacer may be made with, 0: no limit
          Updates,       \* targets asked for with UpdateTargetBytesPerSecond
          Kinds,         \* TRUE: an autoTokenBucketPacer, FALSE: a plain one
          TunedRates,    \* what rateTunerBody may set
          ExpectedBytesPerRequest,
          DeadBand,      \* ticks between two updates of the target
          MaxPacerRequests, MaxUpdates  \* bounds of a requester's and the user's calls

(* Buffers have a largest size, and rates are 64-bit integers.             *)
ASSUME BucketAssumption ==
    /\ IsFiniteSet(Requesters)
    /\ \E largest \in Sizes : \A n \in Sizes : n <= largest
    /\ \E fastest \in InitialRates \cup Updates \cup TunedRates :
          \A t \in InitialRates \cup Updates \cup TunedRates : t <= fastest
    /\ Sizes \subseteq Nat \ {0} /\ InitialRates \subseteq Nat
    /\ Kinds \subseteq BOOLEAN
    /\ Updates \subseteq Nat /\ TunedRates \subseteq Nat
    /\ ExpectedBytesPerRequest \in Nat /\ DeadBand \in Nat
    /\ MaxPacerRequests \in Nat /\ MaxUpdates \in Nat

VARIABLES
    isAuto,       \* which of the two pacers it is
    tokens,       \* atomicTokenBucket
    rate,         \* atomicTargetBytesPerSecond
    grandTotal,   \* atomicGrandTotal
    newTarget,    \* the local variable of pacerBody
    bandAge,      \* ticks since its lastTargetUpdateTime, up to DeadBand
    reqPc,        \* where each requester is in RequestTrafficAllocation
    reqSize,      \* its byteCount, 0 when it has no request
    requested,    \* how many requests it has made
    updates,      \* how often the user has changed the cap
    bodyPc,       \* pacerBody is at the top of its loop, or asleep
    filling,      \* the rate it releases for
    \* what happened, for the properties
    wanted,       \* the rate that was asked for last
    inFlow, outFlow  \* tokens ever released less those trimmed; ever granted

tbVars == <<isAuto, tokens, rate, grandTotal, newTarget, bandAge, reqPc, reqSize, requested,
            updates, bodyPc, filling, wanted, inFlow, outFlow>>

TBInit ==
    /\ isAuto \in Kinds
    /\ rate \in InitialRates /\ (isAuto => rate # 0)
    /\ tokens = rate \div 4 /\ inFlow = rate \div 4 /\ outFlow = 0
    /\ newTarget = rate /\ wanted = rate /\ filling = rate
    /\ bandAge = 0 /\ bodyPc = "top"
    /\ grandTotal = 0
    /\ reqPc = [r \in Requesters |-> "idle"]
    /\ reqSize = [r \in Requesters |-> 0]
    /\ requested = [r \in Requesters |-> 0]
    /\ updates = 0

bodyVars == <<newTarget, bandAge, bodyPc, filling>>
pacerHistoryVars == <<wanted, inFlow>>
Reach(r, pc) == reqPc' = [reqPc EXCEPT ![r] = pc]

-----------------------------------------------------------------------------
(* RequestTrafficAllocation.                                               *)

(* The target is looked at once, before the loop.                          *)
Request(r) ==
    /\ reqPc[r] = "idle" /\ requested[r] < MaxPacerRequests
    /\ requested' = [requested EXCEPT ![r] = @ + 1]
    /\ \E n \in Sizes :
         \/ rate = 0 /\ reqSize' = [reqSize EXCEPT ![r] = n] /\ Reach(r, "free")
         \/ rate # 0 /\ rate < n /\ UNCHANGED <<reqPc, reqSize>>  \* an error
         \/ rate >= n /\ reqSize' = [reqSize EXCEPT ![r] = n] /\ Reach(r, "take")
    /\ UNCHANGED <<isAuto, tokens, rate, grandTotal, updates, bodyVars, pacerHistoryVars,
                   outFlow>>

Take(r) ==
    /\ reqPc[r] = "take"
    /\ tokens' = tokens - reqSize[r]
    /\ IF tokens' < 0
       THEN Reach(r, "putBack") /\ UNCHANGED outFlow
       ELSE Reach(r, "count") /\ outFlow' = outFlow + reqSize[r]
    /\ UNCHANGED <<isAuto, rate, grandTotal, reqSize, requested, updates, bodyVars,
                   pacerHistoryVars>>

MutPutBack(r) ==  \* only after it has slept, unless it is cancelled
    /\ reqPc[r] = "putBack"
    /\ \/ tokens' = tokens + reqSize[r] /\ Reach(r, "wait") /\ UNCHANGED reqSize
       \/ tokens' = tokens /\ Reach(r, "idle") /\ reqSize' = [reqSize EXCEPT ![r] = 0]
    /\ UNCHANGED <<isAuto, rate, grandTotal, requested, updates, bodyVars, pacerHistoryVars,
                   outFlow>>

PutBack(r) ==
    /\ reqPc[r] = "putBack"
    /\ tokens' = tokens + reqSize[r]
    /\ Reach(r, "wait")
    /\ UNCHANGED <<isAuto, rate, grandTotal, reqSize, requested, updates, bodyVars, pacerHistoryVars,
                   outFlow>>

(* It has slept; without a limit now, it need not wait any more.           *)
Waited(r) ==
    /\ reqPc[r] = "wait"
    /\ Reach(r, IF rate = 0 THEN "free" ELSE "take")
    /\ UNCHANGED <<isAuto, tokens, rate, grandTotal, reqSize, requested, updates, bodyVars, pacerHistoryVars,
                   outFlow>>

(* The context is done while it sleeps.                                    *)
GiveUp(r) ==
    /\ reqPc[r] = "wait"
    /\ reqSize' = [reqSize EXCEPT ![r] = 0]
    /\ Reach(r, "idle")
    /\ UNCHANGED <<isAuto, tokens, rate, grandTotal, requested, updates, bodyVars, pacerHistoryVars,
                   outFlow>>

CountTraffic(r) ==
    /\ reqPc[r] \in {"count", "free"}
    /\ grandTotal' = grandTotal + reqSize[r]
    /\ Reach(r, IF reqPc[r] = "free" THEN "freeHeld" ELSE "held")
    /\ UNCHANGED <<isAuto, tokens, rate, reqSize, requested, updates, bodyVars, pacerHistoryVars,
                   outFlow>>

-----------------------------------------------------------------------------
(* pacedReadSeeker.Read: reads the body and undoes what it did not need.   *)

(* UndoRequest puts tokens in the bucket even if none were taken from it.  *)
UndoRequest(r) ==
    /\ reqPc[r] \in {"held", "freeHeld"}
    /\ \E excess \in 0..reqSize[r] :
         /\ tokens' = tokens + excess
         /\ outFlow' = outFlow - excess
         /\ reqSize' = [reqSize EXCEPT ![r] = excess]
    /\ Reach(r, "undo")
    /\ UNCHANGED <<isAuto, rate, grandTotal, requested, updates, bodyVars, pacerHistoryVars>>

UndoTotal(r) ==
    /\ reqPc[r] = "undo"
    /\ grandTotal' = grandTotal - reqSize[r]
    /\ reqSize' = [reqSize EXCEPT ![r] = 0]
    /\ Reach(r, "idle")
    /\ UNCHANGED <<isAuto, tokens, rate, requested, updates, bodyVars, pacerHistoryVars,
                   outFlow>>

-----------------------------------------------------------------------------
(* The rate.                                                               *)

(* pacerBody at the top of its loop: it receives what a caller of          *)
(* UpdateTargetBytesPerSecond offers, stores the new target outside of the *)
(* dead band, and goes to sleep with the target it finds then.             *)
Adopt(t) ==
    /\ newTarget' = t
    /\ IF t # rate /\ bandAge = DeadBand
       THEN rate' = t /\ bandAge' = 0
       ELSE UNCHANGED <<isAuto, rate, bandAge>>
    /\ filling' = rate'
    /\ bodyPc' = "asleep"
    /\ UNCHANGED <<isAuto, tokens, grandTotal, reqPc, reqSize, requested, inFlow, outFlow>>

TopOfLoop == bodyPc = "top" /\ Adopt(newTarget) /\ UNCHANGED <<updates, wanted>>

(* --cap-mbps can be changed for the one pacer of the process only.        *)
UpdateTarget ==
    /\ bodyPc = "top" /\ updates < MaxUpdates /\ ~isAuto
    /\ updates' = updates + 1
    /\ \E t \in Updates : Adopt(t) /\ wanted' = t

MaxAllowedUnsentBytes(r) == Max({(5 * r) \div 2, ExpectedBytesPerRequest})

(* The bucket after it has been filled to level.                           *)
Trimmed(level, r) == Min({level, MaxAllowedUnsentBytes(r)})

(* pacerBody wakes up, releases the tokens and trims the backlog.          *)
Fill ==
    /\ bodyPc = "asleep"
    /\ tokens' = Trimmed(tokens + filling, filling)
    /\ inFlow' = inFlow + tokens' - tokens
    /\ bandAge' = Min({bandAge + 1, DeadBand})
    /\ bodyPc' = "top"
    /\ UNCHANGED <<isAuto, rate, grandTotal, newTarget, reqPc, reqSize, requested, updates, filling,
                   wanted, outFlow>>

(* decreaseRate, increaseRate: the tuner stores the rate itself.           *)
TuneRate ==
    /\ isAuto
    /\ \E t \in TunedRates : rate' = t /\ wanted' = t
    /\ UNCHANGED <<isAuto, tokens, grandTotal, reqPc, reqSize, requested, updates, bodyVars, inFlow,
                   outFlow>>

RequestStep(r) ==
    \/ Take(r) \/ PutBack(r) \/ Waited(r)
    \/ CountTraffic(r) \/ UndoRequest(r) \/ UndoTotal(r)
BodyStep == TopOfLoop \/ Fill

TBNext ==
    \/ \E r \in Requesters : Request(r) \/ RequestStep(r) \/ GiveUp(r)
    \/ BodyStep \/ UpdateTarget \/ TuneRate

(* Sleeps end and the pacer's goroutine goes on; nobody has to ask, to     *)
(* cancel or to change the cap.                                            *)
TBFairness ==
    WF_tbVars(BodyStep) /\ \A r \in Requesters : WF_tbVars(RequestStep(r))

TBSpec == TBInit /\ [][TBNext]_tbVars /\ TBFairness

-----------------------------------------------------------------------------
Rates == InitialRates \cup Updates \cup TunedRates

TBTypeOK ==
    /\ tokens \in Int
    /\ tokens <= MaxAllowedUnsentBytes(Max(Rates)) +
         (MaxPacerRequests + 1) * Cardinality(Requesters) * Max(Sizes)
    /\ rate \in Rates /\ newTarget \in Rates /\ filling \in Rates /\ wanted \in Rates
    /\ grandTotal \in Nat
    /\ bandAge \in 0..DeadBand /\ bodyPc \in {"top", "asleep"}
    /\ reqPc \in [Requesters -> {"idle", "take", "putBack", "wait", "count", "free", "held",
                                 "freeHeld", "undo"}]
    /\ reqSize \in [Requesters -> Nat]

(* The bytes allowed on the wire are never more than the tokens released:  *)
(* an attempt that overdraws the bucket for a moment makes others wait and *)
(* gives nobody anything (RequestTrafficAllocation).                       *)
NeverOverdrawn == outFlow <= inFlow

(* No token is lost or made up by attempts that overlap, by requests that  *)
(* are undone or by those whose context ends while they wait: with nobody  *)
(* between two additions the bucket holds what was released and not        *)
(* granted.                                                                *)
TokensAreConserved ==
    (\A r \in Requesters : reqPc[r] # "putBack") => tokens = inFlow - outFlow

(* As long as the rate allows its size, a request is answered: others that *)
(* take and put back do not keep it out for ever, and one that waits when  *)
(* the limit is lifted goes on.                                            *)
EveryRequestIsAnswered == \A r \in Requesters : []<>(reqPc[r] # "wait")

(* A cap that is changed takes effect, also when it is changed within the  *)
(* dead band of an earlier change.                                         *)
CapTakesEffect == <>[](isAuto \/ rate = wanted)

(* Nothing but the latest request for a rate changes the rate: "The target *)
(* rate is fixed, but can be modified at any time through                  *)
(* SetTargetBytesPerSecond" (pacer-tokenBucketPacer.go).                   *)
RateIsTheLatestWanted == [][rate' # rate => rate' = wanted']_tbVars

(* The bucket never gives more than was released, and its bookkeeping      *)
(* survives overlapping attempts.                                          *)
PacerInv ==
    /\ TBTypeOK
    /\ NeverOverdrawn
    /\ TokensAreConserved
=============================================================================
