------------------------- MODULE LimiterProofs -------------------------
(***************************************************************************)
(* Proofs about what bounds the engine's work: what is shared out in small *)
(* amounts by atomic additions and without a lock, and the size of the     *)
(* pool of goroutines.                                                     *)
(*                                                                         *)
(* CacheLimiter: for any number of clients, any limit and any counts up to *)
(* it, the counter accounts for every count, whoever is let in finds no    *)
(* more held than its limit, and so no more than the limit is ever held.   *)
(*                                                                         *)
(* TokenBucket: for any number of requesters, any sizes and rates, no more *)
(* is granted than was released, no token is lost, and the bucket stays    *)
(* within its bounds.                                                      *)
(*                                                                         *)
(* ConcurrencyTuner: for any first value, limit and zones, the pool keeps  *)
(* to its limit while a search sizes it that ends at a value that worked.  *)
(***************************************************************************)
EXTENDS CacheLimiter, Limits, FiniteSetTheorems, WellFoundedInduction, TLAPS

-----------------------------------------------------------------------------
(* Sums of the values of a function.                                       *)
UnitsOf(f, S) == UNION {{c} \X (1..f[c]) : c \in S}
Total(f, S) == Cardinality(UnitsOf(f, S))

(* The units of one key are as many as its value.                          *)
LEMMA UnitsOfOne ==
    ASSUME NEW f, NEW c, f[c] \in Nat
    PROVE  IsFiniteSet({c} \X (1..f[c])) /\ Cardinality({c} \X (1..f[c])) = f[c]
<1>1. IsFiniteSet({c}) /\ Cardinality({c}) = 1
  BY FS_Singleton
<1>2. IsFiniteSet(1..f[c]) /\ Cardinality(1..f[c]) = f[c]
  <2>1. 1 \in Int /\ f[c] \in Int
    OBVIOUS
  <2>2. /\ IsFiniteSet(1..f[c])
        /\ Cardinality(1..f[c]) = IF 1 > f[c] THEN 0 ELSE f[c] - 1 + 1
    BY <2>1, FS_Interval
  <2> QED BY <2>1, <2>2
<1>3. /\ IsFiniteSet({c} \X (1..f[c]))
      /\ Cardinality({c} \X (1..f[c])) = 1 * f[c]
  BY ZenonT(30), <1>1, <1>2, FS_Product
<1> QED BY <1>3

(* One more key adds its value, and one less takes it away.                *)
LEMMA TotalOfMore ==
    ASSUME NEW f, NEW S, IsFiniteSet(UnitsOf(f, S)), NEW c, c \notin S, f[c] \in Nat
    PROVE  /\ IsFiniteSet(UnitsOf(f, S \cup {c})) /\ Total(f, S) \in Nat
           /\ Total(f, S \cup {c}) = Total(f, S) + f[c]
<1> DEFINE one == {c} \X (1..f[c])
<1>1. IsFiniteSet(one) /\ Cardinality(one) = f[c]
  BY UnitsOfOne
<1>2. Total(f, S) \in Nat
  BY FS_CardinalityType DEF Total
<1>3. UnitsOf(f, S \cup {c}) = UnitsOf(f, S) \cup one
  BY DEF UnitsOf
<1>4. UnitsOf(f, S) \cap one = {}
  BY DEF UnitsOf
<1> HIDE DEF one
<1>5. /\ IsFiniteSet(UnitsOf(f, S) \cup one)
      /\ Cardinality(UnitsOf(f, S) \cup one)
           = Cardinality(UnitsOf(f, S)) + Cardinality(one) - Cardinality(UnitsOf(f, S) \cap one)
  BY <1>1, FS_Union
<1>6. Cardinality({}) = 0
  BY FS_EmptySet
<1>7. Total(f, S \cup {c}) = Cardinality(UnitsOf(f, S)) + f[c] - 0
  BY <1>1, <1>3, <1>4, <1>5, <1>6 DEF Total
<1>8. Cardinality(UnitsOf(f, S)) = Total(f, S)
  BY DEF Total
<1>9. IsFiniteSet(UnitsOf(f, S \cup {c}))
  BY <1>3, <1>5
<1>10. Total(f, S \cup {c}) = Total(f, S) + f[c]
  BY <1>2, <1>7, <1>8
<1> QED BY <1>2, <1>9, <1>10

(* And one key less takes its value away.                                  *)
LEMMA TotalOfLess ==
    ASSUME NEW f, NEW S, IsFiniteSet(UnitsOf(f, S)), NEW c \in S, f[c] \in Nat
    PROVE  /\ IsFiniteSet(UnitsOf(f, S \ {c})) /\ Total(f, S) \in Nat
           /\ Total(f, S \ {c}) = Total(f, S) - f[c]
<1> DEFINE less == S \ {c}
<1>1. c \notin less /\ less \cup {c} = S
  OBVIOUS
<1>2. UnitsOf(f, less) \subseteq UnitsOf(f, S)
  BY DEF UnitsOf
<1>3. IsFiniteSet(UnitsOf(f, less))
  BY <1>2, FS_Subset
<1> HIDE DEF less
<1>4. Total(f, less) \in Nat /\ Total(f, S) \in Nat
  BY <1>3, FS_CardinalityType DEF Total
<1>5. Total(f, less \cup {c}) = Total(f, less) + f[c]
  BY <1>1, <1>3, TotalOfMore
<1>6. Total(f, S) = Total(f, less) + f[c]
  BY <1>1, <1>5, Zenon
<1>7. Total(f, less) = Total(f, S) - f[c]
  BY <1>4, <1>6
<1> QED BY <1>3, <1>4, <1>7 DEF less

(* The sum is of the counts of its clients only.                           *)
LEMMA TotalIsOfItsClients ==
    ASSUME NEW f, NEW g, NEW S, \A c \in S : f[c] = g[c]
    PROVE  Total(f, S) = Total(g, S)
<1>1. UnitsOf(f, S) = UnitsOf(g, S)
  BY DEF UnitsOf
<1> QED BY <1>1 DEF Total

-----------------------------------------------------------------------------
(* CacheLimiter.                                                           *)
CLInv ==
    /\ ValueAccountsForEveryCount
    /\ Held <= Limit

CountFunctions == [Clients -> 0..Limit]

(* Every count is at most the limit.                                       *)
LEMMA CountsAreLimited ==
    ASSUME CLTypeOK
    PROVE  count \in CountFunctions
<1>1. Counts \subseteq 1..Limit /\ Limit \in Nat
  BY CacheLimiterAssumption
<1>2. Counts \cup {0} \subseteq 0..Limit
  BY <1>1
<1> QED BY <1>2 DEF CLTypeOK, CountFunctions

(* And a number.                                                           *)
LEMMA CountsAreNumbers ==
    ASSUME NEW f \in CountFunctions, NEW c \in Clients
    PROVE  f[c] \in Nat
  BY CacheLimiterAssumption DEF CountFunctions

(* A set of clients has a finite sum, as every count is at most the limit. *)
LEMMA TotalIsNumber ==
    ASSUME NEW f \in CountFunctions, NEW S, S \subseteq Clients
    PROVE  IsFiniteSet(UnitsOf(f, S)) /\ Total(f, S) \in Nat
<1>1. IsFiniteSet(Clients) /\ Limit \in Nat
  BY CacheLimiterAssumption
<1>2. IsFiniteSet(1..Limit)
  BY <1>1, FS_Interval
<1>3. IsFiniteSet(Clients \X (1..Limit))
  BY <1>1, <1>2, FS_Product
<1>4. UnitsOf(f, S) \subseteq Clients \X (1..Limit)
  <2>1. \A c \in S : c \in Clients /\ f[c] \in 0..Limit
    BY DEF CountFunctions
  <2>2. \A c \in S : {c} \X (1..f[c]) \subseteq Clients \X (1..Limit)
    BY <1>1, <2>1
  <2> QED BY <2>2 DEF UnitsOf
<1>5. IsFiniteSet(UnitsOf(f, S))
  BY <1>3, <1>4, FS_Subset
<1> QED BY <1>5, FS_CardinalityType DEF Total

(* A client's count is added, and taken away.                              *)
LEMMA OneCountMore ==
    ASSUME NEW f \in CountFunctions, NEW S, S \subseteq Clients, NEW c \in Clients, c \notin S
    PROVE  Total(f, S \cup {c}) = Total(f, S) + f[c]
<1>1. f[c] \in Nat
  BY CountsAreNumbers
<1>2. IsFiniteSet(UnitsOf(f, S))
  BY TotalIsNumber
<1> QED BY <1>1, <1>2, TotalOfMore

(* A client that leaves the set takes its count away.                      *)
LEMMA OneCountLess ==
    ASSUME NEW f \in CountFunctions, NEW S, S \subseteq Clients, NEW c \in S
    PROVE  Total(f, S \ {c}) = Total(f, S) - f[c]
<1>1. f[c] \in Nat
  BY CountsAreNumbers
<1>2. IsFiniteSet(UnitsOf(f, S))
  BY TotalIsNumber
<1> QED BY <1>1, <1>2, TotalOfLess

Holders == ClientsIn("holding")
Failing == ClientsIn("backingOut")

(* What is held, and what is to be backed out, are such sums,              *)
LEMMA HeldIsTotal ==
    /\ Held = Total(count, Holders)
    /\ SumOfCounts(ClientsIn("backingOut")) = Total(count, Failing)
BY DEF Held, SumOfCounts, Units, Total, UnitsOf, Holders, Failing

(* also after a step.                                                      *)
LEMMA HeldIsTotalNext ==
    /\ Held' = Total(count', Holders')
    /\ SumOfCounts(ClientsIn("backingOut"))' = Total(count', Failing')
BY DEF Held, SumOfCounts, Units, Total, UnitsOf, Holders, Failing

-----------------------------------------------------------------------------
(* What a step does to the two sums.                                       *)
(* A step that changes neither set, nor the count of a client in them.     *)
LEMMA CountsElsewhere ==
    ASSUME CLInv, CLTypeOK', Holders' = Holders, Failing' = Failing, value' = value,
           \A c \in Holders \cup Failing : count'[c] = count[c]
    PROVE  CLInv'
<1>1. Total(count', Holders') = Total(count, Holders)
  BY TotalIsOfItsClients
<1>2. Total(count', Failing') = Total(count, Failing)
  BY TotalIsOfItsClients
<1> QED BY <1>1, <1>2, HeldIsTotal, HeldIsTotalNext DEF CLInv, ValueAccountsForEveryCount

(* A step keeps the types of what the clients have.                        *)
LEMMA TypeStep ==
    ASSUME CLTypeOK, [CLNext]_clVars
    PROVE  /\ state' \in [Clients -> {"idle", "waiting", "backingOut", "holding"}]
           /\ count' \in [Clients -> Counts \cup {0}]
           /\ relaxed' \in [Clients -> BOOLEAN]
           /\ requests' \in [Clients -> 0..MaxRequests]
<1> USE CacheLimiterAssumption DEF CLTypeOK
<1>1. ASSUME NEW c \in Clients, NEW n \in Counts, WaitUntilAdd(c, n)
      PROVE  requests' \in [Clients -> 0..MaxRequests]
  <2>1. requests[c] + 1 \in 0..MaxRequests
    BY <1>1 DEF WaitUntilAdd
  <2> QED BY <1>1, <2>1 DEF WaitUntilAdd
<1>2. ASSUME NEW c \in Clients, NEW n \in Counts, WaitUntilAdd(c, n)
      PROVE  /\ state' \in [Clients -> {"idle", "waiting", "backingOut", "holding"}]
             /\ count' \in [Clients -> Counts \cup {0}] /\ relaxed' = relaxed
  BY <1>2 DEF WaitUntilAdd
<1>3. ASSUME NEW c \in Clients, NEW useRelaxedLimit \in BOOLEAN,
             TryAddSucceeds(c, useRelaxedLimit) \/ TryAddOverLimit(c, useRelaxedLimit)
      PROVE  /\ state' \in [Clients -> {"idle", "waiting", "backingOut", "holding"}]
             /\ relaxed' \in [Clients -> BOOLEAN] /\ UNCHANGED <<count, requests>>
  BY <1>3 DEF TryAddSucceeds, TryAddOverLimit
<1>4. ASSUME NEW c \in Clients, SubtractBack(c)
      PROVE  /\ state' \in [Clients -> {"idle", "waiting", "backingOut", "holding"}]
             /\ UNCHANGED <<count, relaxed, requests>>
  BY <1>4 DEF SubtractBack
<1>5. ASSUME NEW c \in Clients, WaitCancelled(c) \/ RemoveCount(c)
      PROVE  /\ state' \in [Clients -> {"idle", "waiting", "backingOut", "holding"}]
             /\ count' \in [Clients -> Counts \cup {0}] /\ UNCHANGED <<relaxed, requests>>
  BY <1>5 DEF WaitCancelled, RemoveCount
<1>6. CASE UNCHANGED clVars
  BY <1>6 DEF clVars
<1> QED BY <1>1, <1>2, <1>3, <1>4, <1>5, <1>6 DEF CLNext

-----------------------------------------------------------------------------
(* The invariant of the limiter holds initially.                           *)
LEMMA CLInitInv == CLInit => CLInv
<1> SUFFICES ASSUME CLInit PROVE CLInv
  OBVIOUS
<1>1. Holders = {} /\ Failing = {}
  BY DEF CLInit, Holders, Failing, ClientsIn
<1>2. Total(count, {}) = 0
  <2>1. UnitsOf(count, {}) = {}
    BY DEF UnitsOf
  <2> QED BY <2>1, FS_EmptySet DEF Total
<1>3. CLTypeOK
  BY CacheLimiterAssumption DEF CLInit, CLTypeOK
<1>4. value = 0 /\ 0 <= Limit
  BY CacheLimiterAssumption DEF CLInit
<1> QED BY <1>1, <1>2, <1>3, <1>4, HeldIsTotal DEF CLInv, ValueAccountsForEveryCount

(* Whoever is let in finds no more than its limit in the counter, which    *)
(* never shows less than what is held.                                     *)
LEMMA EntryStep ==
    ASSUME CLInv, NEW c \in Clients, NEW useRelaxedLimit \in BOOLEAN,
           TryAddSucceeds(c, useRelaxedLimit)
    PROVE  /\ value' = Held' + SumOfCounts(ClientsIn("backingOut"))'
           /\ value' \in Nat
           /\ Held' <= LimitFor(useRelaxedLimit)
<1>1. count \in CountFunctions
  BY CountsAreLimited DEF CLInv, ValueAccountsForEveryCount
<1>2. Holders \subseteq Clients /\ Failing \subseteq Clients /\ c \notin Holders
  BY DEF Holders, Failing, ClientsIn, TryAddSucceeds
<1>3. Holders' = Holders \cup {c} /\ Failing' = Failing /\ count' = count
  BY DEF Holders, Failing, ClientsIn, TryAddSucceeds, CLInv, ValueAccountsForEveryCount, CLTypeOK
<1>4. Total(count', Holders') = Total(count, Holders) + count[c]
  BY <1>1, <1>2, <1>3, OneCountMore
<1>5. Total(count', Failing') = Total(count, Failing)
  BY <1>3
<1>6. /\ Total(count, Holders) \in Nat /\ Total(count, Failing) \in Nat /\ count[c] \in Nat
  BY <1>1, <1>2, TotalIsNumber, CountsAreNumbers
<1>7. value = Total(count, Holders) + Total(count, Failing)
  BY HeldIsTotal DEF CLInv, ValueAccountsForEveryCount
<1>8. value' = value + count[c] /\ value' <= LimitFor(useRelaxedLimit)
  BY DEF TryAddSucceeds
<1>9. LimitFor(useRelaxedLimit) \in Int
  BY CacheLimiterAssumption DEF LimitFor, StrictLimit
<1>10. /\ Held' = Total(count', Holders')
       /\ SumOfCounts(ClientsIn("backingOut"))' = Total(count', Failing')
  BY HeldIsTotalNext
<1> QED BY <1>4, <1>5, <1>6, <1>7, <1>8, <1>9, <1>10

(* Any step keeps it.                                                      *)
LEMMA CLStep == CLInv /\ [CLNext]_clVars => CLInv'
<1> SUFFICES ASSUME CLInv, [CLNext]_clVars PROVE CLInv'
  OBVIOUS
<1> DEFINE held == Total(count, Holders)
           failing == Total(count, Failing)
<1>1. CLTypeOK /\ count \in CountFunctions
  BY CountsAreLimited DEF CLInv, ValueAccountsForEveryCount
<1>2. Holders \subseteq Clients /\ Failing \subseteq Clients
  BY DEF Holders, Failing, ClientsIn
<1>3. held \in Nat /\ failing \in Nat /\ value = held + failing /\ held <= Limit
  BY <1>1, <1>2, TotalIsNumber, HeldIsTotal DEF CLInv, ValueAccountsForEveryCount
<1>4. ASSUME value' \in Nat PROVE CLTypeOK'
  BY <1>1, <1>4, TypeStep DEF CLTypeOK
<1>5. Limit \in Nat
  BY CacheLimiterAssumption
<1>6. ASSUME value' \in Nat, value' = Total(count', Holders') + Total(count', Failing'),
             Total(count', Holders') <= Limit
      PROVE  CLInv'
  BY <1>4, <1>6, HeldIsTotalNext DEF CLInv, ValueAccountsForEveryCount
<1>7. \A c \in Clients : count[c] \in Nat
  BY <1>1, CountsAreNumbers
<1>8. state \in [Clients -> {"idle", "waiting", "backingOut", "holding"}]
  BY <1>1 DEF CLTypeOK
<1> HIDE DEF held, failing
<1>a. ASSUME NEW c \in Clients, NEW n \in Counts, WaitUntilAdd(c, n) PROVE CLInv'
  <2>1. Holders' = Holders /\ Failing' = Failing
    BY <1>8, <1>a DEF WaitUntilAdd, Holders, Failing, ClientsIn
  <2>2. \A d \in Holders \cup Failing : count'[d] = count[d]
    <3>1. \A d \in Holders \cup Failing : d # c /\ d \in Clients
      BY <1>a DEF WaitUntilAdd, Holders, Failing, ClientsIn
    <3> QED BY <1>1, <1>a, <3>1 DEF WaitUntilAdd, CLTypeOK
  <2>3. value' = value
    BY <1>a DEF WaitUntilAdd
  <2> QED BY <1>1, <1>4, <2>1, <2>2, <2>3, CountsElsewhere DEF CLTypeOK
<1>b. ASSUME NEW c \in Clients, NEW useRelaxedLimit \in BOOLEAN,
             TryAddSucceeds(c, useRelaxedLimit)
      PROVE  CLInv'
  <2>1. /\ value' = Held' + SumOfCounts(ClientsIn("backingOut"))' /\ value' \in Nat
        /\ Held' <= LimitFor(useRelaxedLimit)
    BY <1>b, EntryStep
  <2>2. LimitFor(useRelaxedLimit) <= Limit /\ LimitFor(useRelaxedLimit) \in Int
    BY CacheLimiterAssumption DEF LimitFor, StrictLimit
  <2>3. /\ Held' = Total(count', Holders')
        /\ SumOfCounts(ClientsIn("backingOut"))' = Total(count', Failing')
    BY HeldIsTotalNext
  <2>4. Held' \in Nat
    <3>1. Holders' = Holders \cup {c} /\ count' = count
      BY <1>8, <1>b DEF TryAddSucceeds, Holders, ClientsIn
    <3> QED BY <1>1, <1>2, <2>3, <3>1, TotalIsNumber
  <2>5. Held' <= Limit
    BY <1>5, <2>1, <2>2, <2>4
  <2> QED BY <1>6, <2>1, <2>3, <2>5
<1>c. ASSUME NEW c \in Clients, NEW useRelaxedLimit \in BOOLEAN,
             TryAddOverLimit(c, useRelaxedLimit)
      PROVE  CLInv'
  <2>1. /\ Holders' = Holders /\ Failing' = Failing \cup {c} /\ c \notin Failing
        /\ count' = count /\ value' = value + count[c]
    BY <1>8, <1>c DEF TryAddOverLimit, Holders, Failing, ClientsIn
  <2>2. Total(count', Failing') = failing + count[c]
    BY <1>1, <1>2, <2>1, OneCountMore DEF failing
  <2>3. Total(count', Holders') = held
    BY <2>1 DEF held
  <2> QED BY <1>3, <1>6, <1>7, <2>1, <2>2, <2>3
<1>d. ASSUME NEW c \in Clients, SubtractBack(c) PROVE CLInv'
  <2>1. /\ Holders' = Holders /\ Failing' = Failing \ {c} /\ c \in Failing
        /\ count' = count /\ value' = value - count[c]
    BY <1>8, <1>d DEF SubtractBack, Holders, Failing, ClientsIn
  <2>2. Total(count', Failing') = failing - count[c]
    BY <1>1, <1>2, <2>1, OneCountLess DEF failing
  <2>3. Total(count', Holders') = held
    BY <2>1 DEF held
  <2>4. Total(count', Failing') \in Nat
    BY <1>1, <1>2, <2>1, TotalIsNumber
  <2> QED BY <1>3, <1>6, <1>7, <2>1, <2>2, <2>3, <2>4
<1>e. ASSUME NEW c \in Clients, WaitCancelled(c) PROVE CLInv'
  <2>1. Holders' = Holders /\ Failing' = Failing
    BY <1>8, <1>e DEF WaitCancelled, Holders, Failing, ClientsIn
  <2>2. \A d \in Holders \cup Failing : count'[d] = count[d]
    <3>1. \A d \in Holders \cup Failing : d # c /\ d \in Clients
      BY <1>e DEF WaitCancelled, Holders, Failing, ClientsIn
    <3> QED BY <1>1, <1>e, <3>1 DEF WaitCancelled, CLTypeOK
  <2>3. value' = value
    BY <1>e DEF WaitCancelled
  <2> QED BY <1>1, <1>4, <2>1, <2>2, <2>3, CountsElsewhere DEF CLTypeOK
<1>f. ASSUME NEW c \in Clients, RemoveCount(c) PROVE CLInv'
  <2>1. /\ Holders' = Holders \ {c} /\ Failing' = Failing /\ c \in Holders /\ c \notin Failing
        /\ value' = value - count[c]
    BY <1>8, <1>f DEF RemoveCount, Holders, Failing, ClientsIn
  <2>2. \A d \in Clients \ {c} : count'[d] = count[d]
    BY <1>1, <1>f DEF RemoveCount, CLTypeOK
  <2>3. Total(count', Failing') = failing
    BY <1>2, <2>1, <2>2, TotalIsOfItsClients DEF failing
  <2>4. Total(count', Holders') = Total(count, Holders \ {c})
    <3>1. \A d \in Holders \ {c} : count'[d] = count[d]
      BY <1>2, <2>2
    <3> QED BY <2>1, <3>1, TotalIsOfItsClients
  <2>5. Total(count, Holders \ {c}) = held - count[c]
    BY <1>1, <1>2, <2>1, OneCountLess DEF held
  <2>6. Total(count, Holders \ {c}) \in Nat
    BY <1>1, <1>2, TotalIsNumber
  <2> QED BY <1>3, <1>5, <1>6, <1>7, <2>1, <2>3, <2>4, <2>5, <2>6
<1>g. CASE UNCHANGED clVars
  <2>1. /\ Holders' = Holders /\ Failing' = Failing /\ count' = count /\ value' = value
    BY <1>g DEF clVars, Holders, Failing, ClientsIn
  <2> QED BY <1>3, <1>6, <2>1 DEF held, failing
<1> QED BY <1>a, <1>b, <1>c, <1>d, <1>e, <1>f, <1>g DEF CLNext

-----------------------------------------------------------------------------
(* The counter shows what is held and what failing attempts will take      *)
(* back, and no more than the limit is held.                               *)
THEOREM CLInvHolds == CLSpec => []CLInv
BY CLInitInv, CLStep, PTL DEF CLSpec

(* No Remove and no failing TryAdd loses or duplicates a count.            *)
THEOREM EveryCountIsAccounted == CLSpec => []ValueAccountsForEveryCount
<1>1. CLInv => ValueAccountsForEveryCount
  BY DEF CLInv
<1> QED BY <1>1, CLInvHolds, PTL

(* The limiter keeps its limit, at every moment and not only when somebody *)
(* is let in (NewCacheLimiter's limit).                                    *)
THEOREM NeverOverTheLimit == CLSpec => [](Held <= Limit)
<1>1. CLInv => Held <= Limit
  BY DEF CLInv
<1> QED BY <1>1, CLInvHolds, PTL

(* Whoever is let in finds no more held than the limit of its own kind,    *)
(* although it decides on a counter that others are changing (TryAdd).     *)
EntersWithin(c) ==
    state[c] = "waiting" /\ state'[c] = "holding"
        => Held' <= IF relaxed'[c] THEN Limit ELSE StrictLimit

(* Whoever enters finds no more held than the limit that is for it.        *)
LEMMA EntranceStep ==
    ASSUME CLInv, CLNext, NEW c \in Clients, state[c] = "waiting", state'[c] = "holding"
    PROVE  Held' <= IF relaxed'[c] THEN Limit ELSE StrictLimit
<1>1. CLTypeOK
  BY DEF CLInv, ValueAccountsForEveryCount
<1>2. \E useRelaxedLimit \in BOOLEAN : TryAddSucceeds(c, useRelaxedLimit)
  BY <1>1 DEF CLNext, CLTypeOK, WaitUntilAdd, TryAddSucceeds, TryAddOverLimit, SubtractBack,
              WaitCancelled, RemoveCount
<1>3. PICK useRelaxedLimit \in BOOLEAN : TryAddSucceeds(c, useRelaxedLimit)
  BY <1>2
<1>4. relaxed'[c] = useRelaxedLimit
  BY <1>1, <1>3 DEF TryAddSucceeds, CLTypeOK
<1>5. Held' <= LimitFor(useRelaxedLimit)
  BY <1>3, EntryStep
<1> QED BY <1>4, <1>5 DEF LimitFor

(* At each entrance no more is held than the limit for whoever enters.     *)
THEOREM EntrantsKeepTheLimit == CLSpec => HeldWithinLimit
<1>1. CLInv /\ [CLNext]_clVars => [\A c \in Clients : EntersWithin(c)]_clVars
  BY EntranceStep DEF EntersWithin
<1>2. HeldWithinLimit <=> [][\A c \in Clients : EntersWithin(c)]_clVars
  BY DEF HeldWithinLimit, EntersWithin
<1> QED BY <1>1, <1>2, CLInvHolds, PTL DEF CLSpec

-----------------------------------------------------------------------------
(* TokenBucket.  The tokens that are missing are those of the attempts     *)
(* that have found too little and not put them back yet.                   *)
Overdrawing == {r \in Requesters : reqPc[r] = "putBack"}
Owed == Total(reqSize, Overdrawing)

(* The types, but for the bounds.                                          *)
BucketTyped ==
    /\ tokens \in Int /\ inFlow \in Int /\ outFlow \in Int
    /\ rate \in Nat /\ newTarget \in Nat /\ filling \in Nat
    /\ reqPc \in [Requesters -> {"idle", "take", "putBack", "wait", "count", "free", "held",
                                 "freeHeld", "undo"}]
    /\ reqSize \in [Requesters -> Nat]

(* The inductive invariant: what is in the bucket and what is owed to it   *)
(* is what was released and not granted.                                   *)
BucketInd ==
    /\ BucketTyped
    /\ IsFiniteSet(UnitsOf(reqSize, Overdrawing))
    /\ tokens + Owed = inFlow - outFlow
    /\ NeverOverdrawn

(* Without attempts in between nothing is owed.                            *)
LEMMA NothingOwed ==
    ASSUME NEW f
    PROVE  IsFiniteSet(UnitsOf(f, {})) /\ Total(f, {}) = 0
<1>1. UnitsOf(f, {}) = {}
  BY DEF UnitsOf
<1>2. IsFiniteSet({}) /\ Cardinality({}) = 0
  BY FS_EmptySet
<1> QED BY <1>1, <1>2 DEF Total

(* A new pacer.                                                            *)
LEMMA BucketInit == TBInit => BucketInd
<1> SUFFICES ASSUME TBInit PROVE BucketInd
  OBVIOUS
<1>1. rate \in Nat
  BY BucketAssumption DEF TBInit
<1>2. BucketTyped
  BY <1>1 DEF TBInit, BucketTyped
<1>3. Overdrawing = {}
  BY DEF TBInit, Overdrawing
<1>4. IsFiniteSet(UnitsOf(reqSize, Overdrawing)) /\ Owed = 0
  BY <1>3, NothingOwed DEF Owed
<1>5. tokens = rate \div 4 /\ inFlow = rate \div 4 /\ outFlow = 0 /\ rate \div 4 \in Nat
  BY <1>1 DEF TBInit
<1>6. tokens + Owed = inFlow - outFlow /\ NeverOverdrawn
  BY <1>4, <1>5 DEF NeverOverdrawn
<1> QED BY <1>2, <1>4, <1>6 DEF BucketInd

(* A step that neither begins nor ends an overdraft leaves what is owed.   *)
LEMMA OwedStays ==
    ASSUME Overdrawing' = Overdrawing, \A r \in Overdrawing : reqSize'[r] = reqSize[r]
    PROVE  /\ UnitsOf(reqSize, Overdrawing)' = UnitsOf(reqSize, Overdrawing)
           /\ Owed' = Owed
<1>1. UnitsOf(reqSize', Overdrawing) = UnitsOf(reqSize, Overdrawing)
  BY DEF UnitsOf
<1>2. UnitsOf(reqSize, Overdrawing)' = UnitsOf(reqSize, Overdrawing)
  BY <1>1 DEF UnitsOf
<1> QED BY <1>2 DEF Owed, Total

(* What is owed is a number.                                               *)
LEMMA OwedIsNumber ==
    ASSUME BucketInd
    PROVE  Owed \in Nat
  BY FS_CardinalityType DEF BucketInd, Owed, Total

(* A step that leaves the bucket alone, and the overdrafts.                *)
LEMMA BucketUntouched ==
    ASSUME BucketInd, BucketTyped', UNCHANGED <<tokens, inFlow, outFlow>>,
           Overdrawing' = Overdrawing, \A r \in Overdrawing : reqSize'[r] = reqSize[r]
    PROVE  BucketInd'
<1>1. IsFiniteSet(UnitsOf(reqSize, Overdrawing))' /\ Owed' = Owed
  BY OwedStays DEF BucketInd
<1>2. (tokens + Owed = inFlow - outFlow)' /\ NeverOverdrawn'
  BY <1>1 DEF BucketInd, NeverOverdrawn
<1> QED BY <1>1, <1>2 DEF BucketInd

(* A requester moves on, not to or from an overdraft.                      *)
LEMMA RequesterMoves ==
    ASSUME BucketTyped, NEW r \in Requesters, NEW pc, Reach(r, pc),
           pc \in {"idle", "take", "wait", "count", "free", "held", "freeHeld", "undo"},
           reqPc[r] # "putBack",
           \A x \in Requesters \ {r} : reqSize'[x] = reqSize[x]
    PROVE  /\ Overdrawing' = Overdrawing /\ \A x \in Overdrawing : reqSize'[x] = reqSize[x]
           /\ reqPc' \in [Requesters -> {"idle", "take", "putBack", "wait", "count", "free", "held",
                                         "freeHeld", "undo"}]
<1>1. reqPc' = [reqPc EXCEPT ![r] = pc]
  BY DEF Reach
<1>2. /\ reqPc' \in [Requesters -> {"idle", "take", "putBack", "wait", "count", "free", "held",
                                    "freeHeld", "undo"}]
      /\ reqPc'[r] = pc /\ \A x \in Requesters : x # r => reqPc'[x] = reqPc[x]
  BY <1>1 DEF BucketTyped
<1> QED BY <1>2 DEF Overdrawing

(* A request, which may be refused.                                        *)
LEMMA RequestKeeps ==
    ASSUME BucketInd, NEW r \in Requesters, Request(r)
    PROVE  BucketInd'
<1>1. /\ reqPc[r] = "idle" /\ BucketTyped
      /\ UNCHANGED <<tokens, rate, newTarget, filling, inFlow, outFlow>>
  BY DEF Request, BucketInd, bodyVars, pacerHistoryVars
<1>2. PICK n \in Sizes :
        \/ reqSize' = [reqSize EXCEPT ![r] = n] /\ (Reach(r, "free") \/ Reach(r, "take"))
        \/ UNCHANGED <<reqPc, reqSize>>
  BY DEF Request
<1>3. CASE UNCHANGED <<reqPc, reqSize>>
  <2>1. BucketTyped' /\ Overdrawing' = Overdrawing
    BY <1>1, <1>3 DEF BucketTyped, Overdrawing
  <2> QED BY <2>1, <1>1, <1>3, BucketUntouched
<1>4. CASE reqSize' = [reqSize EXCEPT ![r] = n] /\ (Reach(r, "free") \/ Reach(r, "take"))
  <2>1. n \in Nat
    BY BucketAssumption
  <2>2. reqSize' \in [Requesters -> Nat] /\ \A x \in Requesters \ {r} : reqSize'[x] = reqSize[x]
    BY <2>1, <1>1, <1>4 DEF BucketTyped
  <2>3. PICK pc \in {"free", "take"} : Reach(r, pc)
    BY <1>4
  <2>4. /\ Overdrawing' = Overdrawing /\ \A x \in Overdrawing : reqSize'[x] = reqSize[x]
        /\ reqPc' \in [Requesters -> {"idle", "take", "putBack", "wait", "count", "free", "held",
                                      "freeHeld", "undo"}]
    BY <2>2, <2>3, <1>1, RequesterMoves
  <2>5. BucketTyped'
    BY <2>2, <2>4, <1>1 DEF BucketTyped
  <2> QED BY <2>4, <2>5, <1>1, BucketUntouched
<1> QED BY <1>2, <1>3, <1>4

(* The tokens are taken; if that was too much, they are owed.              *)
LEMMA TakeKeeps ==
    ASSUME BucketInd, NEW r \in Requesters, Take(r)
    PROVE  BucketInd'
<1>1. /\ reqPc[r] = "take" /\ BucketTyped /\ reqSize[r] \in Nat
      /\ UNCHANGED <<rate, newTarget, filling, inFlow, reqSize>>
      /\ tokens' = tokens - reqSize[r] /\ tokens' \in Int
  BY DEF Take, BucketInd, BucketTyped, bodyVars, pacerHistoryVars
<1>2. CASE tokens' >= 0
  <2>1. Reach(r, "count") /\ outFlow' = outFlow + reqSize[r]
    BY <1>1, <1>2 DEF Take
  <2>2. /\ Overdrawing' = Overdrawing /\ \A x \in Overdrawing : reqSize'[x] = reqSize[x]
        /\ reqPc' \in [Requesters -> {"idle", "take", "putBack", "wait", "count", "free", "held",
                                      "freeHeld", "undo"}]
    BY <2>1, <1>1, RequesterMoves
  <2>3. BucketTyped'
    BY <2>1, <2>2, <1>1 DEF BucketTyped
  <2>4. IsFiniteSet(UnitsOf(reqSize, Overdrawing))' /\ Owed' = Owed
    BY <2>2, OwedStays DEF BucketInd
  <2>5. tokens' + Owed = inFlow - outFlow' /\ outFlow' <= inFlow
    BY <2>1, <1>1, <1>2, OwedIsNumber DEF BucketInd, BucketTyped
  <2>6. (tokens + Owed = inFlow - outFlow)' /\ NeverOverdrawn'
    BY <2>4, <2>5, <1>1 DEF NeverOverdrawn
  <2> QED BY <2>3, <2>4, <2>6 DEF BucketInd
<1>3. CASE ~(tokens' >= 0)
  <2>1. Reach(r, "putBack") /\ outFlow' = outFlow
    BY <1>1, <1>3 DEF Take
  <2>2. /\ Overdrawing' = Overdrawing \cup {r} /\ r \notin Overdrawing
        /\ BucketTyped'
    BY <2>1, <1>1 DEF Overdrawing, BucketTyped, Reach
  <2>3. /\ IsFiniteSet(UnitsOf(reqSize, Overdrawing \cup {r})) /\ Owed \in Nat
        /\ Total(reqSize, Overdrawing \cup {r}) = Owed + reqSize[r]
    BY <2>2, <1>1, TotalOfMore DEF BucketInd, Owed
  <2>4. /\ UnitsOf(reqSize, Overdrawing)' = UnitsOf(reqSize, Overdrawing \cup {r})
        /\ Owed' = Total(reqSize, Overdrawing \cup {r})
    BY <2>2, <1>1 DEF Owed, Total, UnitsOf
  <2>5. (tokens + Owed = inFlow - outFlow)'
    <3>1. tokens \in Int /\ tokens + Owed = inFlow - outFlow
      BY DEF BucketInd, BucketTyped
    <3>2. tokens' + (Owed + reqSize[r]) = inFlow - outFlow
      BY <3>1, <2>3, <1>1
    <3>3. Owed' = Owed + reqSize[r] /\ inFlow' = inFlow /\ outFlow' = outFlow
      BY <2>1, <2>3, <2>4, <1>1
    <3> QED BY <3>2, <3>3
  <2>6. NeverOverdrawn' /\ IsFiniteSet(UnitsOf(reqSize, Overdrawing))'
    BY <2>1, <2>3, <2>4, <1>1 DEF BucketInd, NeverOverdrawn
  <2> QED BY <2>2, <2>5, <2>6 DEF BucketInd
<1> QED BY <1>2, <1>3

(* The tokens that were too few are put back.                              *)
LEMMA PutBackKeeps ==
    ASSUME BucketInd, NEW r \in Requesters, PutBack(r)
    PROVE  BucketInd'
<1>1. /\ reqPc[r] = "putBack" /\ BucketTyped /\ reqSize[r] \in Nat
      /\ UNCHANGED <<rate, newTarget, filling, inFlow, outFlow, reqSize>>
      /\ tokens' = tokens + reqSize[r] /\ Reach(r, "wait")
  BY DEF PutBack, BucketInd, BucketTyped, bodyVars, pacerHistoryVars
<1>2. /\ Overdrawing' = Overdrawing \ {r} /\ r \in Overdrawing
      /\ BucketTyped'
  BY <1>1 DEF Overdrawing, BucketTyped, Reach
<1>3. /\ IsFiniteSet(UnitsOf(reqSize, Overdrawing \ {r})) /\ Owed \in Nat
      /\ Total(reqSize, Overdrawing \ {r}) = Owed - reqSize[r]
  BY <1>1, <1>2, TotalOfLess DEF BucketInd, Owed
<1>4. /\ UnitsOf(reqSize, Overdrawing)' = UnitsOf(reqSize, Overdrawing \ {r})
      /\ Owed' = Total(reqSize, Overdrawing \ {r})
  BY <1>1, <1>2 DEF Owed, Total, UnitsOf
<1>5. (tokens + Owed = inFlow - outFlow)'
  BY <1>1, <1>3, <1>4 DEF BucketInd, BucketTyped
<1>6. NeverOverdrawn' /\ IsFiniteSet(UnitsOf(reqSize, Overdrawing))'
  BY <1>1, <1>3, <1>4 DEF BucketInd, NeverOverdrawn
<1> QED BY <1>2, <1>5, <1>6 DEF BucketInd

(* Waiting, giving up, counting.                                           *)
LEMMA QuietStepKeeps ==
    ASSUME BucketInd, NEW r \in Requesters,
           Waited(r) \/ GiveUp(r) \/ CountTraffic(r) \/ UndoTotal(r)
    PROVE  BucketInd'
<1>1. /\ reqPc[r] # "putBack" /\ BucketTyped
      /\ UNCHANGED <<tokens, rate, newTarget, filling, inFlow, outFlow>>
      /\ reqSize' = reqSize \/ reqSize' = [reqSize EXCEPT ![r] = 0]
  BY DEF Waited, GiveUp, CountTraffic, UndoTotal, BucketInd, bodyVars, pacerHistoryVars
<1>2. PICK pc \in {"idle", "take", "free", "held", "freeHeld"} : Reach(r, pc)
  BY DEF Waited, GiveUp, CountTraffic, UndoTotal
<1>3. reqSize' \in [Requesters -> Nat] /\ \A x \in Requesters \ {r} : reqSize'[x] = reqSize[x]
  BY <1>1 DEF BucketTyped
<1>4. /\ Overdrawing' = Overdrawing /\ \A x \in Overdrawing : reqSize'[x] = reqSize[x]
      /\ reqPc' \in [Requesters -> {"idle", "take", "putBack", "wait", "count", "free", "held",
                                    "freeHeld", "undo"}]
  BY <1>1, <1>2, <1>3, RequesterMoves
<1>5. BucketTyped'
  BY <1>1, <1>3, <1>4 DEF BucketTyped
<1> QED BY <1>1, <1>4, <1>5, BucketUntouched

(* The bytes that were not needed go back to the bucket.                   *)
LEMMA UndoRequestKeeps ==
    ASSUME BucketInd, NEW r \in Requesters, UndoRequest(r)
    PROVE  BucketInd'
<1>1. /\ reqPc[r] # "putBack" /\ BucketTyped /\ reqSize[r] \in Nat /\ Reach(r, "undo")
      /\ UNCHANGED <<rate, newTarget, filling, inFlow>>
  BY DEF UndoRequest, BucketInd, BucketTyped, bodyVars, pacerHistoryVars
<1>2. PICK excess \in 0..reqSize[r] :
        /\ tokens' = tokens + excess
        /\ outFlow' = outFlow - excess
        /\ reqSize' = [reqSize EXCEPT ![r] = excess]
  BY DEF UndoRequest
<1>3. excess \in Nat
  BY <1>1
<1>4. reqSize' \in [Requesters -> Nat] /\ \A x \in Requesters \ {r} : reqSize'[x] = reqSize[x]
  BY <1>1, <1>2, <1>3 DEF BucketTyped
<1>5. /\ Overdrawing' = Overdrawing /\ \A x \in Overdrawing : reqSize'[x] = reqSize[x]
      /\ reqPc' \in [Requesters -> {"idle", "take", "putBack", "wait", "count", "free", "held",
                                    "freeHeld", "undo"}]
  BY <1>1, <1>4, RequesterMoves
<1>6. tokens' \in Int /\ outFlow' \in Int
  BY <1>1, <1>2, <1>3 DEF BucketTyped
<1>7. BucketTyped'
  BY <1>1, <1>4, <1>5, <1>6 DEF BucketTyped
<1>8. IsFiniteSet(UnitsOf(reqSize, Overdrawing))' /\ Owed' = Owed
  BY <1>5, OwedStays DEF BucketInd
<1>9. (tokens + Owed = inFlow - outFlow)' /\ NeverOverdrawn'
  BY <1>1, <1>2, <1>3, <1>8, OwedIsNumber DEF BucketInd, BucketTyped, NeverOverdrawn
<1> QED BY <1>7, <1>8, <1>9 DEF BucketInd

(* pacerBody adopts a target; the tuner sets the rate.                     *)
LEMMA RateStepKeeps ==
    ASSUME BucketInd, TopOfLoop \/ UpdateTarget \/ TuneRate
    PROVE  BucketInd'
<1>1. UNCHANGED <<tokens, inFlow, outFlow, reqPc, reqSize>> /\ BucketTyped
  BY DEF TopOfLoop, UpdateTarget, TuneRate, Adopt, BucketInd
<1>2. rate' \in Nat /\ newTarget' \in Nat /\ filling' \in Nat
  <2>1. ASSUME NEW t \in Nat, Adopt(t)
        PROVE  rate' \in Nat /\ newTarget' \in Nat /\ filling' \in Nat
    <3>1. rate' \in Nat
      BY <2>1, <1>1 DEF Adopt, BucketTyped
    <3> QED BY <2>1, <3>1 DEF Adopt
  <2>2. CASE TopOfLoop
    BY <2>1, <2>2, <1>1 DEF TopOfLoop, BucketTyped
  <2>3. CASE UpdateTarget
    BY <2>1, <2>3, BucketAssumption DEF UpdateTarget
  <2>4. CASE TuneRate
    BY <2>4, <1>1, BucketAssumption DEF TuneRate, BucketTyped, bodyVars
  <2> QED BY <2>2, <2>3, <2>4
<1>3. BucketTyped' /\ Overdrawing' = Overdrawing
  BY <1>1, <1>2 DEF BucketTyped, Overdrawing
<1> QED BY <1>1, <1>3, BucketUntouched

(* The bucket is filled, and what is too much is trimmed.                  *)
LEMMA FillKeeps ==
    ASSUME BucketInd, Fill
    PROVE  BucketInd'
<1>1. /\ BucketTyped /\ UNCHANGED <<rate, newTarget, filling, reqPc, reqSize, outFlow>>
      /\ tokens' = Trimmed(tokens + filling, filling)
      /\ inFlow' = inFlow + tokens' - tokens
  BY DEF Fill, BucketInd
<1>2. MaxAllowedUnsentBytes(filling) \in Nat
  <2>1. (5 * filling) \div 2 \in Nat /\ ExpectedBytesPerRequest \in Nat
    BY <1>1, BucketAssumption DEF BucketTyped
  <2>2. MaxAllowedUnsentBytes(filling) \in {(5 * filling) \div 2, ExpectedBytesPerRequest}
    <3>1. \A a, b \in Nat : Max({a, b}) \in {a, b}
      <4>1. SUFFICES ASSUME NEW a \in Nat, NEW b \in Nat PROVE Max({a, b}) \in {a, b}
        OBVIOUS
      <4>2. \E x \in {a, b} : \A y \in {a, b} : x >= y
        OBVIOUS
      <4> QED BY <4>2 DEF Max
    <3> QED BY <2>1, <3>1 DEF MaxAllowedUnsentBytes
  <2> QED BY <2>1, <2>2
<1>3. tokens' \in Int /\ (tokens' = tokens + filling \/ tokens' >= 0)
  <2>1. \A a, b \in Int : Min({a, b}) \in {a, b}
    <3>1. SUFFICES ASSUME NEW a \in Int, NEW b \in Int PROVE Min({a, b}) \in {a, b}
      OBVIOUS
    <3>2. \E x \in {a, b} : \A y \in {a, b} : x <= y
      OBVIOUS
    <3> QED BY <3>2 DEF Min
  <2>2. tokens + filling \in Int /\ MaxAllowedUnsentBytes(filling) \in Int
    BY <1>1, <1>2 DEF BucketTyped
  <2>3. tokens' \in {tokens + filling, MaxAllowedUnsentBytes(filling)}
    BY <1>1, <2>1, <2>2 DEF Trimmed
  <2> QED BY <1>2, <2>2, <2>3
<1>4. BucketTyped' /\ Overdrawing' = Overdrawing
  BY <1>1, <1>3 DEF BucketTyped, Overdrawing
<1>5. IsFiniteSet(UnitsOf(reqSize, Overdrawing))' /\ Owed' = Owed
  BY <1>1, <1>4, OwedStays DEF BucketInd
<1>6. (tokens + Owed = inFlow - outFlow)'
  BY <1>1, <1>3, <1>5, OwedIsNumber DEF BucketInd, BucketTyped
<1>7. NeverOverdrawn'
  BY <1>1, <1>3, OwedIsNumber DEF BucketInd, BucketTyped, NeverOverdrawn
<1> QED BY <1>4, <1>5, <1>6, <1>7 DEF BucketInd

(* Any step.                                                               *)
LEMMA BucketStep ==
    ASSUME BucketInd, [TBNext]_tbVars
    PROVE  BucketInd'
<1>1. CASE TBNext
  BY <1>1, RequestKeeps, TakeKeeps, PutBackKeeps, QuietStepKeeps, UndoRequestKeeps,
     RateStepKeeps, FillKeeps DEF TBNext, RequestStep, BodyStep
<1>2. CASE UNCHANGED tbVars
  <2>1. UNCHANGED <<tokens, rate, newTarget, filling, inFlow, outFlow, reqPc, reqSize>>
    BY <1>2 DEF tbVars
  <2>2. BucketTyped' /\ Overdrawing' = Overdrawing
    BY <2>1 DEF BucketInd, BucketTyped, Overdrawing
  <2> QED BY <2>1, <2>2, BucketUntouched
<1> QED BY <1>1, <1>2

(* Whatever overlaps, the pacer never allows more bytes than it has        *)
(* released tokens, and with no attempt under way its bucket holds         *)
(* exactly what was released and not granted.                              *)
THEOREM PacerKeepsItsAccounts == TBSpec => [](NeverOverdrawn /\ TokensAreConserved)
<1>1. BucketInd => NeverOverdrawn /\ TokensAreConserved
  <2> SUFFICES ASSUME BucketInd, \A r \in Requesters : reqPc[r] # "putBack"
               PROVE  tokens = inFlow - outFlow
    BY DEF BucketInd, TokensAreConserved
  <2>1. Overdrawing = {}
    BY DEF Overdrawing
  <2>2. Owed = 0
    BY <2>1, NothingOwed DEF Owed
  <2> QED BY <2>2 DEF BucketInd, BucketTyped
<1>2. TBSpec => []BucketInd
  BY BucketInit, BucketStep, PTL DEF TBSpec
<1> QED BY <1>1, <1>2, PTL

-----------------------------------------------------------------------------
(* TokenBucket: its bounds.                                                *)

(* The largest element of a set that has one. *)
LEMMA LargestIsMax ==
    ASSUME NEW S, S \subseteq Nat, \E x \in S : \A y \in S : y <= x
    PROVE  Max(S) \in S /\ Max(S) \in Nat /\ \A y \in S : y <= Max(S)
<1>1. \E x \in S : \A y \in S : x >= y
  OBVIOUS
<1> QED BY <1>1 DEF Max

(* The larger of two numbers.                                              *)
LEMMA MaxOfTwo ==
    ASSUME NEW a \in Nat, NEW b \in Nat
    PROVE  Max({a, b}) \in Nat /\ Max({a, b}) >= a /\ Max({a, b}) >= b
           /\ Max({a, b}) \in {a, b}
<1>1. \E x \in {a, b} : \A y \in {a, b} : x >= y
  OBVIOUS
<1> QED BY <1>1 DEF Max

(* The smaller of two numbers.                                             *)
LEMMA MinOfTwo ==
    ASSUME NEW a \in Int, NEW b \in Int
    PROVE  Min({a, b}) \in {a, b} /\ Min({a, b}) <= a /\ Min({a, b}) <= b
<1>1. \E x \in {a, b} : \A y \in {a, b} : x <= y
  OBVIOUS
<1> QED BY <1>1 DEF Min

Largest == Max(Sizes)
Fastest == Max(Rates)

(* No size is larger than the largest, and no rate than the fastest.       *)
LEMMA LargestTypes ==
    /\ Largest \in Nat /\ \A n \in Sizes : n \in Nat /\ n <= Largest
    /\ Fastest \in Nat /\ Fastest \in Rates /\ \A t \in Rates : t \in Nat /\ t <= Fastest
    /\ MaxPacerRequests \in Nat /\ DeadBand \in Nat
<1>1. Sizes \subseteq Nat /\ \E x \in Sizes : \A y \in Sizes : y <= x
  BY BucketAssumption
<1>2. Rates \subseteq Nat /\ \E x \in Rates : \A y \in Rates : y <= x
  BY BucketAssumption DEF Rates
<1>3. Largest \in Nat /\ \A n \in Sizes : n <= Largest
  BY ONLY <1>1, LargestIsMax DEF Largest
<1>4. Fastest \in Rates /\ Fastest \in Nat /\ \A t \in Rates : t <= Fastest
  BY ONLY <1>2, LargestIsMax DEF Fastest
<1>5. MaxPacerRequests \in Nat /\ DeadBand \in Nat
  BY BucketAssumption
<1> QED BY <1>1, <1>2, <1>3, <1>4, <1>5

(* What the backlog may be grows with the rate. *)
LEMMA UnsentGrows ==
    ASSUME NEW s \in Nat, NEW t \in Nat, s <= t
    PROVE  /\ MaxAllowedUnsentBytes(s) \in Nat /\ MaxAllowedUnsentBytes(t) \in Nat
           /\ MaxAllowedUnsentBytes(s) <= MaxAllowedUnsentBytes(t)
           /\ s \div 4 \in Nat /\ s \div 4 <= MaxAllowedUnsentBytes(s)
<1>1. ExpectedBytesPerRequest \in Nat
  BY BucketAssumption
<1>2. PICK e : e = ExpectedBytesPerRequest
  OBVIOUS
<1>3. PICK a, b : a = (5 * s) \div 2 /\ b = (5 * t) \div 2
  OBVIOUS
<1>4. a \in Nat /\ b \in Nat /\ e \in Nat /\ a <= b /\ s \div 4 \in Nat /\ s \div 4 <= a
  BY <1>1, <1>2, <1>3
<1>5. PICK ms, mt : ms = Max({a, e}) /\ mt = Max({b, e})
  OBVIOUS
<1>6. /\ ms \in Nat /\ ms >= a /\ ms \in {a, e}
      /\ mt \in Nat /\ mt >= b /\ mt >= e
  BY ONLY <1>4, <1>5, MaxOfTwo
<1>7. MaxAllowedUnsentBytes(s) = ms /\ MaxAllowedUnsentBytes(t) = mt
  BY <1>2, <1>3, <1>5 DEF MaxAllowedUnsentBytes
<1>8. ms <= mt /\ s \div 4 <= ms
  BY ONLY <1>4, <1>6
<1> QED BY ONLY <1>4, <1>6, <1>7, <1>8

-----------------------------------------------------------------------------
(* The sum over all requesters of what is at most b each. *)
LEMMA TotalOfAll ==
    ASSUME NEW b \in Nat, NEW f \in [Requesters -> 0..b]
    PROVE  /\ IsFiniteSet(UnitsOf(f, Requesters)) /\ Total(f, Requesters) \in Nat
           /\ Cardinality(Requesters) \in Nat
           /\ Total(f, Requesters) <= Cardinality(Requesters) * b
<1>1. IsFiniteSet(Requesters)
  BY BucketAssumption
<1>2. IsFiniteSet(1..b) /\ Cardinality(1..b) = b
  <2>1. 1 \in Int /\ b \in Int
    OBVIOUS
  <2>2. IsFiniteSet(1..b) /\ Cardinality(1..b) = IF 1 > b THEN 0 ELSE b - 1 + 1
    BY <2>1, FS_Interval
  <2> QED BY <2>1, <2>2
<1>3. /\ IsFiniteSet(Requesters \X (1..b))
      /\ Cardinality(Requesters \X (1..b)) = Cardinality(Requesters) * b
  BY ZenonT(30), <1>1, <1>2, FS_Product
<1>4. UnitsOf(f, Requesters) \subseteq Requesters \X (1..b)
  <2>1. \A r \in Requesters : {r} \X (1..f[r]) \subseteq Requesters \X (1..b)
    OBVIOUS
  <2> QED BY <2>1 DEF UnitsOf
<1>5. /\ IsFiniteSet(UnitsOf(f, Requesters))
      /\ Cardinality(UnitsOf(f, Requesters)) <= Cardinality(Requesters \X (1..b))
  BY ONLY <1>3, <1>4, FS_Subset
<1>6. Cardinality(UnitsOf(f, Requesters)) \in Nat /\ Cardinality(Requesters) \in Nat
  BY <1>1, <1>5, FS_CardinalityType
<1> QED BY ONLY <1>3, <1>5, <1>6 DEF Total

(* One of them changes its share. *)
LEMMA OneChangesItsShare ==
    ASSUME NEW b \in Nat, NEW f \in [Requesters -> 0..b], NEW g \in [Requesters -> 0..b],
           NEW r \in Requesters, \A x \in Requesters : x # r => g[x] = f[x]
    PROVE  Total(g, Requesters) = Total(f, Requesters) - f[r] + g[r]
<1>1. /\ IsFiniteSet(UnitsOf(f, Requesters)) /\ Total(f, Requesters) \in Nat
      /\ IsFiniteSet(UnitsOf(g, Requesters)) /\ Total(g, Requesters) \in Nat
  BY TotalOfAll
<1>2. f[r] \in Nat /\ g[r] \in Nat
  OBVIOUS
<1>3. Total(f, Requesters \ {r}) = Total(f, Requesters) - f[r]
  BY <1>1, <1>2, TotalOfLess
<1>4. Total(g, Requesters \ {r}) = Total(g, Requesters) - g[r]
  BY <1>1, <1>2, TotalOfLess
<1>5. Total(f, Requesters \ {r}) = Total(g, Requesters \ {r})
  <2>1. \A x \in Requesters \ {r} : f[x] = g[x]
    OBVIOUS
  <2> QED BY ONLY <2>1, TotalIsOfItsClients
<1> QED BY ONLY <1>1, <1>2, <1>3, <1>4, <1>5

-----------------------------------------------------------------------------
(* What a requester may still put in the bucket without having taken it from *)
(* there: what it holds or waits for, twice while it has to put it back, and *)
(* as much as the largest size for each request that it has not made yet.    *)
Room(k) == (MaxPacerRequests - k) * Largest
Share(pc, n) == IF pc = "putBack" THEN 2 * n ELSE IF pc \in {"idle", "undo"} THEN 0 ELSE n
Due == [r \in Requesters |-> Room(requested[r]) + Share(reqPc[r], reqSize[r])]

(* What it has counted and may still take away from the grand total. *)
CountedOf(pc, n) == IF pc \in {"held", "freeHeld", "undo"} THEN n ELSE 0
Counted == [r \in Requesters |-> CountedOf(reqPc[r], reqSize[r])]

MostDue == (MaxPacerRequests + 1) * Largest
TokenBound == MaxAllowedUnsentBytes(Fastest) + Cardinality(Requesters) * MostDue

RatesTyped ==
    /\ rate \in Rates /\ newTarget \in Rates /\ filling \in Rates /\ wanted \in Rates
    /\ bandAge \in 0..DeadBand /\ bodyPc \in {"top", "asleep"}

RequestsTyped ==
    /\ requested \in [Requesters -> 0..MaxPacerRequests]
    /\ reqPc \in [Requesters -> {"idle", "take", "putBack", "wait", "count", "free", "held",
                                 "freeHeld", "undo"}]
    /\ reqSize \in [Requesters -> 0..Largest]
    /\ \A r \in Requesters : reqPc[r] # "idle" => requested[r] >= 1

AmountsBounded ==
    /\ tokens \in Int /\ tokens + Total(Due, Requesters) <= TokenBound
    /\ grandTotal \in Int /\ grandTotal >= Total(Counted, Requesters)

PacerKeeps == RatesTyped /\ RequestsTyped /\ AmountsBounded

(* One more request leaves room for one less. *)
LEMMA RoomTypes ==
    ASSUME NEW k \in 0..MaxPacerRequests
    PROVE  /\ Room(k) \in Nat /\ Room(k) <= MaxPacerRequests * Largest
           /\ k >= 1 => Room(k) + 2 * Largest <= MostDue
           /\ k < MaxPacerRequests => Room(k + 1) = Room(k) - Largest
<1>1. MaxPacerRequests \in Nat /\ Largest \in Nat /\ k \in Nat
  BY LargestTypes
<1>2. PICK j \in Nat : MaxPacerRequests = k + j
  <2>1. MaxPacerRequests - k \in Nat
    BY <1>1
  <2> QED BY <1>1, <2>1
<1>3. Room(k) = j * Largest
  BY <1>1, <1>2 DEF Room
<1>4. MaxPacerRequests * Largest = k * Largest + j * Largest
  BY ONLY <1>1, <1>2
<1>5. j * Largest \in Nat /\ k * Largest \in Nat
  BY ONLY <1>1, <1>2
<1>6. MostDue = k * Largest + j * Largest + Largest
  BY ONLY <1>1, <1>2 DEF MostDue
<1>7. k >= 1 => k * Largest >= Largest
  <2>1. ASSUME k >= 1 PROVE k * Largest >= Largest
    <3>1. PICK i \in Nat : k = i + 1
      BY <1>1, <2>1
    <3>2. k * Largest = i * Largest + Largest /\ i * Largest \in Nat
      BY ONLY <1>1, <3>1
    <3> QED BY ONLY <1>1, <3>2
  <2> QED BY <2>1
<1>8. ASSUME k < MaxPacerRequests PROVE Room(k + 1) = Room(k) - Largest
  <2>1. PICK i \in Nat : j = i + 1
    BY <1>1, <1>2, <1>8
  <2>2. Room(k + 1) = i * Largest
    BY <1>1, <1>2, <2>1 DEF Room
  <2>3. j * Largest = i * Largest + Largest /\ i * Largest \in Nat
    BY ONLY <1>1, <2>1
  <2> QED BY ONLY <1>1, <1>3, <2>2, <2>3
<1>9. k >= 1 => Room(k) + 2 * Largest <= MostDue
  BY ONLY <1>1, <1>3, <1>5, <1>6, <1>7
<1>10. Room(k) \in Nat /\ Room(k) <= MaxPacerRequests * Largest
  BY ONLY <1>3, <1>4, <1>5
<1> QED BY <1>8, <1>9, <1>10

(* The bound of a requester's share is a number.                           *)
LEMMA MostDueTypes ==
    MostDue \in Nat /\ MaxPacerRequests * Largest <= MostDue
<1>1. MaxPacerRequests \in Nat /\ Largest \in Nat
  BY LargestTypes
<1>2. PICK p : p = MaxPacerRequests * Largest /\ p \in Nat
  BY <1>1
<1>3. MostDue = p + Largest
  BY ONLY <1>1, <1>2 DEF MostDue
<1> QED BY ONLY <1>1, <1>2, <1>3

(* The shares are bounded. *)
LEMMA SharesTyped ==
    ASSUME RequestsTyped
    PROVE  Due \in [Requesters -> 0..MostDue] /\ Counted \in [Requesters -> 0..Largest]
<1>1. Largest \in Nat /\ MostDue \in Nat /\ MaxPacerRequests * Largest <= MostDue
      /\ MaxPacerRequests * Largest \in Nat
  BY LargestTypes, MostDueTypes
<1>2. ASSUME NEW r \in Requesters
      PROVE  /\ Room(requested[r]) + Share(reqPc[r], reqSize[r]) \in 0..MostDue
             /\ CountedOf(reqPc[r], reqSize[r]) \in 0..Largest
  <2>1. PICK k, n, pc : k = requested[r] /\ n = reqSize[r] /\ pc = reqPc[r]
    OBVIOUS
  <2>2. k \in 0..MaxPacerRequests /\ n \in 0..Largest /\ (pc # "idle" => k >= 1)
    BY <2>1 DEF RequestsTyped
  <2>3. PICK room : room = Room(k)
    OBVIOUS
  <2>4. /\ room \in Nat /\ room <= MaxPacerRequests * Largest
        /\ k >= 1 => room + 2 * Largest <= MostDue
    BY <2>2, <2>3, RoomTypes
  <2>5. room + Share(pc, n) \in 0..MostDue
    <3>1. CASE pc = "idle"
      BY ONLY <1>1, <2>4, <3>1 DEF Share
    <3>2. CASE pc # "idle"
      <4>1. Share(pc, n) \in {0, n, 2 * n}
        BY DEF Share
      <4>2. room + 2 * Largest <= MostDue
        BY <2>2, <2>4, <3>2
      <4> QED BY ONLY <1>1, <2>2, <2>4, <4>1, <4>2
    <3> QED BY <3>1, <3>2
  <2>6. CountedOf(pc, n) \in 0..Largest
    BY ONLY <2>2, <1>1 DEF CountedOf
  <2> QED BY <2>1, <2>3, <2>5, <2>6
<1> QED BY <1>2 DEF Due, Counted

(* The shares are bounded after a step as well.                            *)
LEMMA SharesTypedNext ==
    RequestsTyped' => Due' \in [Requesters -> 0..MostDue] /\ Counted' \in [Requesters -> 0..Largest]
<1>1. RequestsTyped => Due \in [Requesters -> 0..MostDue] /\ Counted \in [Requesters -> 0..Largest]
  BY SharesTyped
<1>2. (RequestsTyped => Due \in [Requesters -> 0..MostDue]
                        /\ Counted \in [Requesters -> 0..Largest])'
  BY <1>1, PTL
<1>3. Largest' = Largest /\ MostDue' = MostDue
  BY DEF Largest, MostDue
<1> QED BY <1>2, <1>3

(* One requester moves on, and what it still may put in or take away changes *)
(* by no more than what it did to the bucket and to the grand total.         *)
LEMMA AmountsOfOneMove ==
    ASSUME RequestsTyped, RequestsTyped', AmountsBounded, NEW r \in Requesters,
           \A x \in Requesters : x # r => /\ reqPc'[x] = reqPc[x] /\ reqSize'[x] = reqSize[x]
                                          /\ requested'[x] = requested[x],
           tokens' \in Int, grandTotal' \in Int,
           tokens' + (Room(requested'[r]) + Share(reqPc'[r], reqSize'[r]))
             <= tokens + (Room(requested[r]) + Share(reqPc[r], reqSize[r])),
           grandTotal' - CountedOf(reqPc'[r], reqSize'[r])
             >= grandTotal - CountedOf(reqPc[r], reqSize[r])
    PROVE  AmountsBounded'
<1>1. MostDue \in Nat /\ Largest \in Nat
  BY LargestTypes, MostDueTypes
<1>2. PICK f, g, c, d : f = Due /\ g = Due' /\ c = Counted /\ d = Counted'
  OBVIOUS
<1>3. f \in [Requesters -> 0..MostDue] /\ c \in [Requesters -> 0..Largest]
  BY <1>2, SharesTyped
<1>4. g \in [Requesters -> 0..MostDue] /\ d \in [Requesters -> 0..Largest]
  BY <1>2, SharesTypedNext
<1>5. \A x \in Requesters : x # r => g[x] = f[x] /\ d[x] = c[x]
  BY <1>2 DEF Due, Counted
<1>6. Total(g, Requesters) = Total(f, Requesters) - f[r] + g[r]
  BY <1>1, <1>3, <1>4, <1>5, OneChangesItsShare
<1>7. Total(d, Requesters) = Total(c, Requesters) - c[r] + d[r]
  BY <1>1, <1>3, <1>4, <1>5, OneChangesItsShare
<1>8. /\ Total(f, Requesters) \in Nat /\ Total(c, Requesters) \in Nat
      /\ Cardinality(Requesters) \in Nat
  BY <1>1, <1>3, TotalOfAll
<1>9. f[r] \in Nat /\ g[r] \in Nat /\ c[r] \in Nat /\ d[r] \in Nat
  BY <1>1, <1>3, <1>4
<1>10. tokens' + g[r] <= tokens + f[r] /\ grandTotal' - d[r] >= grandTotal - c[r]
  BY <1>2 DEF Due, Counted
<1>11. /\ tokens \in Int /\ tokens + Total(f, Requesters) <= TokenBound
       /\ grandTotal \in Int /\ grandTotal >= Total(c, Requesters)
  BY <1>2 DEF AmountsBounded
<1>12. TokenBound \in Int
  <2>1. MaxAllowedUnsentBytes(Fastest) \in Nat
    BY LargestTypes, UnsentGrows
  <2>2. Cardinality(Requesters) * MostDue \in Nat
    BY ONLY <1>1, <1>8
  <2> QED BY ONLY <2>1, <2>2 DEF TokenBound
<1>13. tokens' + Total(g, Requesters) <= TokenBound
  BY ONLY <1>6, <1>8, <1>9, <1>10, <1>11, <1>12, tokens' \in Int
<1>14. grandTotal' >= Total(d, Requesters)
  BY ONLY <1>7, <1>8, <1>9, <1>10, <1>11, grandTotal' \in Int
<1>15. /\ Total(Due, Requesters)' = Total(g, Requesters)
       /\ Total(Counted, Requesters)' = Total(d, Requesters)
       /\ TokenBound' = TokenBound
  BY <1>2 DEF Total, UnitsOf, TokenBound, Fastest, MostDue, Largest
<1> QED BY <1>13, <1>14, <1>15 DEF AmountsBounded

(* The rates and the bucket, when nobody moves and the bucket is not filled. *)
LEMMA AmountsStay ==
    ASSUME AmountsBounded, UNCHANGED <<tokens, grandTotal, reqPc, reqSize, requested>>
    PROVE  AmountsBounded'
<1>1. Due' = Due /\ Counted' = Counted
  BY DEF Due, Counted
<1>2. /\ Total(Due, Requesters)' = Total(Due, Requesters)
      /\ Total(Counted, Requesters)' = Total(Counted, Requesters)
  BY <1>1 DEF Total, UnitsOf
<1> QED BY <1>2 DEF AmountsBounded, TokenBound, Fastest, MostDue, Largest, Room

(* What a requester does, whatever it does, in terms of its own place, size *)
(* and count.                                                               *)
MovesTo(r, pc, n, k) ==
    /\ reqPc' = [reqPc EXCEPT ![r] = pc] /\ reqSize' = [reqSize EXCEPT ![r] = n]
    /\ requested' = [requested EXCEPT ![r] = k]

(* A requester's place, size and count of requests after a step of its own. *)
LEMMA RequesterTyped ==
    ASSUME RequestsTyped, NEW r \in Requesters, NEW pc, NEW n, NEW k,
           pc \in {"idle", "take", "putBack", "wait", "count", "free", "held", "freeHeld", "undo"},
           n \in 0..Largest, k \in 0..MaxPacerRequests, pc # "idle" => k >= 1,
           MovesTo(r, pc, n, k)
    PROVE  /\ RequestsTyped'
           /\ reqPc'[r] = pc /\ reqSize'[r] = n /\ requested'[r] = k
           /\ \A x \in Requesters : x # r => /\ reqPc'[x] = reqPc[x] /\ reqSize'[x] = reqSize[x]
                                             /\ requested'[x] = requested[x]
<1>1. /\ reqPc' \in [Requesters -> {"idle", "take", "putBack", "wait", "count", "free", "held",
                                    "freeHeld", "undo"}]
      /\ reqPc'[r] = pc /\ \A x \in Requesters : x # r => reqPc'[x] = reqPc[x]
  BY DEF RequestsTyped, MovesTo
<1>2. /\ reqSize' \in [Requesters -> 0..Largest]
      /\ reqSize'[r] = n /\ \A x \in Requesters : x # r => reqSize'[x] = reqSize[x]
  BY DEF RequestsTyped, MovesTo
<1>3. /\ requested' \in [Requesters -> 0..MaxPacerRequests]
      /\ requested'[r] = k /\ \A x \in Requesters : x # r => requested'[x] = requested[x]
  BY DEF RequestsTyped, MovesTo
<1>4. \A x \in Requesters : reqPc'[x] # "idle" => requested'[x] >= 1
  <2> TAKE x \in Requesters
  <2>1. CASE x = r
    BY <2>1, <1>1, <1>3
  <2>2. CASE x # r
    BY <2>2, <1>1, <1>3 DEF RequestsTyped
  <2> QED BY <2>1, <2>2
<1>5. Largest' = Largest
  BY DEF Largest
<1> QED BY <1>1, <1>2, <1>3, <1>4, <1>5 DEF RequestsTyped

(* Such a step keeps the types, and the bounds when the amounts allow it.  *)
LEMMA MoveKeeps ==
    ASSUME RequestsTyped, AmountsBounded, NEW r \in Requesters, NEW pc, NEW n, NEW k,
           pc \in {"idle", "take", "putBack", "wait", "count", "free", "held", "freeHeld", "undo"},
           n \in 0..Largest, k \in 0..MaxPacerRequests, pc # "idle" => k >= 1,
           MovesTo(r, pc, n, k),
           tokens' \in Int, grandTotal' \in Int,
           tokens' + (Room(k) + Share(pc, n))
             <= tokens + (Room(requested[r]) + Share(reqPc[r], reqSize[r])),
           grandTotal' - CountedOf(pc, n) >= grandTotal - CountedOf(reqPc[r], reqSize[r])
    PROVE  RequestsTyped' /\ AmountsBounded'
<1>1. /\ RequestsTyped'
      /\ reqPc'[r] = pc /\ reqSize'[r] = n /\ requested'[r] = k
      /\ \A x \in Requesters : x # r => /\ reqPc'[x] = reqPc[x] /\ reqSize'[x] = reqSize[x]
                                        /\ requested'[x] = requested[x]
  BY RequesterTyped
<1>2. AmountsBounded'
  BY <1>1, AmountsOfOneMove
<1> QED BY <1>1, <1>2

(* A step that leaves the rates alone.                                     *)
LEMMA RatesStay ==
    ASSUME RatesTyped, UNCHANGED <<rate, newTarget, filling, wanted, bandAge, bodyPc>>
    PROVE  RatesTyped'
  BY DEF RatesTyped, Rates

(* The place, the size and the count of requests of one requester. *)
LEMMA RequesterIs ==
    ASSUME PacerKeeps, NEW r \in Requesters
    PROVE  /\ reqSize[r] \in 0..Largest /\ requested[r] \in 0..MaxPacerRequests
           /\ reqPc[r] # "idle" => requested[r] >= 1
           /\ [reqSize EXCEPT ![r] = reqSize[r]] = reqSize
           /\ [requested EXCEPT ![r] = requested[r]] = requested
           /\ Largest \in Nat /\ MaxPacerRequests \in Nat
           /\ Room(requested[r]) \in Nat
           /\ tokens \in Int /\ grandTotal \in Int
<1>1. RequestsTyped /\ AmountsBounded
  BY DEF PacerKeeps
<1>2. /\ reqSize[r] \in 0..Largest /\ requested[r] \in 0..MaxPacerRequests
      /\ reqPc[r] # "idle" => requested[r] >= 1
      /\ [reqSize EXCEPT ![r] = reqSize[r]] = reqSize
      /\ [requested EXCEPT ![r] = requested[r]] = requested
  BY <1>1 DEF RequestsTyped
<1>3. Room(requested[r]) \in Nat
  <2>1. PICK k : k = requested[r]
    OBVIOUS
  <2> QED BY <2>1, <1>2, RoomTypes
<1> QED BY <1>1, <1>2, <1>3, LargestTypes DEF AmountsBounded

(* A step in which a requester with its size n, of which it keeps m, goes    *)
(* from one place to another, without a new request.                         *)
LEMMA WalkKeeps ==
    ASSUME PacerKeeps, NEW r \in Requesters, NEW from, NEW to, NEW n, NEW m,
           reqPc[r] = from, from # "idle", reqSize[r] = n,
           to \in {"idle", "take", "putBack", "wait", "count", "free", "held", "freeHeld", "undo"},
           m \in 0..Largest,
           Reach(r, to), reqSize' = [reqSize EXCEPT ![r] = m], requested' = requested,
           tokens' \in Int, grandTotal' \in Int,
           tokens' + Share(to, m) <= tokens + Share(from, n),
           Share(to, m) \in Nat, Share(from, n) \in Nat,
           grandTotal' - CountedOf(to, m) >= grandTotal - CountedOf(from, n),
           UNCHANGED <<rate, newTarget, filling, wanted, bandAge, bodyPc>>
    PROVE  PacerKeeps'
<1>1. RequestsTyped /\ AmountsBounded /\ RatesTyped
  BY DEF PacerKeeps
<1>2. PICK k, room : k = requested[r] /\ room = Room(requested[r])
  OBVIOUS
<1>3. /\ k \in 0..MaxPacerRequests /\ k >= 1 /\ room \in Nat /\ tokens \in Int
      /\ [requested EXCEPT ![r] = k] = requested
  BY <1>2, RequesterIs
<1>4. MovesTo(r, to, m, k)
  BY <1>3 DEF MovesTo, Reach
<1>5. tokens' + (room + Share(to, m)) <= tokens + (room + Share(from, n))
  BY ONLY <1>3, tokens' \in Int, Share(to, m) \in Nat, Share(from, n) \in Nat,
          tokens' + Share(to, m) <= tokens + Share(from, n)
<1>6. tokens' + (Room(k) + Share(to, m)) <= tokens + (Room(requested[r]) + Share(reqPc[r], reqSize[r]))
  BY <1>2, <1>5
<1>7. grandTotal' - CountedOf(to, m) >= grandTotal - CountedOf(reqPc[r], reqSize[r])
  OBVIOUS
<1>8. RequestsTyped' /\ AmountsBounded'
  BY <1>1, <1>3, <1>4, <1>6, <1>7, MoveKeeps
<1>9. RatesTyped'
  BY <1>1, RatesStay
<1> QED BY <1>8, <1>9 DEF PacerKeeps

(* A request takes the place of the largest that it could still have made. *)
LEMMA RequestStays ==
    ASSUME PacerKeeps, NEW r \in Requesters, Request(r)
    PROVE  PacerKeeps'
<1>1. /\ reqPc[r] = "idle" /\ requested[r] < MaxPacerRequests
      /\ requested' = [requested EXCEPT ![r] = requested[r] + 1]
      /\ UNCHANGED <<tokens, grandTotal, rate, newTarget, filling, wanted, bandAge, bodyPc>>
  BY DEF Request, bodyVars, pacerHistoryVars
<1>2. PICK n \in Sizes :
        \/ reqSize' = [reqSize EXCEPT ![r] = n] /\ (Reach(r, "free") \/ Reach(r, "take"))
        \/ UNCHANGED <<reqPc, reqSize>>
  BY DEF Request
<1>3. RequestsTyped /\ AmountsBounded /\ RatesTyped
  BY DEF PacerKeeps
<1>4. PICK k, room : k = requested[r] /\ room = Room(requested[r])
  OBVIOUS
<1>5. /\ k \in 0..MaxPacerRequests /\ k < MaxPacerRequests /\ room \in Nat /\ tokens \in Int
      /\ reqSize[r] \in 0..Largest /\ [reqSize EXCEPT ![r] = reqSize[r]] = reqSize
      /\ MaxPacerRequests \in Nat /\ grandTotal \in Int /\ Largest \in Nat
  BY <1>1, <1>4, RequesterIs
<1>6. k + 1 \in 0..MaxPacerRequests /\ k + 1 >= 1 /\ Room(k + 1) = room - Largest
  BY <1>4, <1>5, RoomTypes
<1>7. n \in 0..Largest
  BY LargestTypes
<1>8. PICK pc, m : /\ pc \in {"idle", "free", "take"} /\ m \in 0..Largest
                   /\ MovesTo(r, pc, m, k + 1)
                   /\ Share(pc, m) \in 0..Largest
  <2>1. CASE UNCHANGED <<reqPc, reqSize>>
    <3>1. [reqPc EXCEPT ![r] = "idle"] = reqPc
      BY <1>1, <1>3 DEF RequestsTyped
    <3>2. MovesTo(r, "idle", reqSize[r], k + 1)
      BY <1>1, <1>4, <1>5, <2>1, <3>1 DEF MovesTo
    <3>3. Share("idle", reqSize[r]) \in 0..Largest
      BY <1>5 DEF Share
    <3> QED BY <1>5, <3>2, <3>3
  <2>2. CASE reqSize' = [reqSize EXCEPT ![r] = n] /\ (Reach(r, "free") \/ Reach(r, "take"))
    <3>1. PICK pc \in {"free", "take"} : Reach(r, pc)
      BY <2>2
    <3>2. MovesTo(r, pc, n, k + 1)
      BY <1>1, <1>4, <2>2, <3>1 DEF MovesTo, Reach
    <3>3. Share(pc, n) \in 0..Largest
      BY <1>7, <3>1 DEF Share
    <3> QED BY <1>7, <3>1, <3>2, <3>3
  <2> QED BY <1>2, <2>1, <2>2
<1>9. Share(reqPc[r], reqSize[r]) = 0 /\ CountedOf(reqPc[r], reqSize[r]) = 0
      /\ CountedOf(pc, m) = 0
  BY <1>1, <1>8 DEF Share, CountedOf
<1>10. tokens' + (Room(k + 1) + Share(pc, m)) <= tokens + (room + 0)
  <2>1. PICK s : s = Share(pc, m)
    OBVIOUS
  <2>2. s \in 0..Largest /\ tokens' = tokens
    BY <1>1, <1>8, <2>1
  <2>3. tokens' + (Room(k + 1) + s) <= tokens + (room + 0)
    BY ONLY <2>2, <1>5, <1>6
  <2> QED BY <2>1, <2>3
<1>11. /\ tokens' + (Room(k + 1) + Share(pc, m))
            <= tokens + (Room(requested[r]) + Share(reqPc[r], reqSize[r]))
       /\ grandTotal' - CountedOf(pc, m) >= grandTotal - CountedOf(reqPc[r], reqSize[r])
  <2>1. tokens' + (Room(k + 1) + Share(pc, m))
            <= tokens + (Room(requested[r]) + Share(reqPc[r], reqSize[r]))
    BY <1>4, <1>9, <1>10
  <2>2. grandTotal' - 0 >= grandTotal - 0
    BY <1>1, <1>5
  <2> QED BY <2>1, <2>2, <1>9
<1>12. RequestsTyped' /\ AmountsBounded'
  BY <1>1, <1>3, <1>5, <1>6, <1>8, <1>11, MoveKeeps
<1>13. RatesTyped'
  BY <1>1, <1>3, RatesStay
<1> QED BY <1>12, <1>13 DEF PacerKeeps

(* An attempt to take, and what follows when it fails. *)
LEMMA TakeStays ==
    ASSUME PacerKeeps, NEW r \in Requesters, Take(r) \/ PutBack(r)
    PROVE  PacerKeeps'
<1>1. /\ reqPc[r] \in {"take", "putBack"} /\ grandTotal' = grandTotal /\ requested' = requested
      /\ reqSize' = reqSize
      /\ UNCHANGED <<rate, newTarget, filling, wanted, bandAge, bodyPc>>
  BY DEF Take, PutBack, bodyVars, pacerHistoryVars
<1>2. PICK n, from : n = reqSize[r] /\ from = reqPc[r]
  OBVIOUS
<1>3. n \in 0..Largest /\ n \in Nat /\ Largest \in Nat /\ tokens \in Int /\ grandTotal \in Int
      /\ reqSize' = [reqSize EXCEPT ![r] = n]
  BY <1>1, <1>2, RequesterIs
<1>4. PICK to : /\ Reach(r, to)
                /\ \/ from = "take" /\ to \in {"putBack", "count"} /\ tokens' = tokens - n
                   \/ from = "putBack" /\ to = "wait" /\ tokens' = tokens + n
  <2>1. CASE Take(r)
    BY <1>2, <2>1 DEF Take
  <2>2. CASE PutBack(r)
    BY <1>2, <2>2 DEF PutBack
  <2> QED BY <2>1, <2>2
<1>5. /\ tokens' + Share(to, n) <= tokens + Share(from, n)
      /\ Share(to, n) \in Nat /\ Share(from, n) \in Nat /\ tokens' \in Int
  <2>1. CASE from = "take" /\ to = "putBack" /\ tokens' = tokens - n
    BY ONLY <1>3, <2>1 DEF Share
  <2>2. CASE from = "take" /\ to = "count" /\ tokens' = tokens - n
    BY ONLY <1>3, <2>2 DEF Share
  <2>3. CASE from = "putBack" /\ to = "wait" /\ tokens' = tokens + n
    BY ONLY <1>3, <2>3 DEF Share
  <2> QED BY <1>4, <2>1, <2>2, <2>3
<1>6. grandTotal' \in Int /\ grandTotal' - CountedOf(to, n) >= grandTotal - CountedOf(from, n)
  <2>1. CountedOf(to, n) = 0 /\ CountedOf(from, n) = 0
    BY ONLY <1>4 DEF CountedOf
  <2>2. grandTotal' \in Int /\ grandTotal' - 0 >= grandTotal - 0
    BY <1>1, <1>3
  <2> QED BY <2>1, <2>2
<1>7. from # "idle" /\ to \in {"idle", "take", "putBack", "wait", "count", "free", "held",
                               "freeHeld", "undo"}
  BY <1>4
<1> QED BY <1>1, <1>2, <1>3, <1>4, <1>5, <1>6, <1>7, WalkKeeps

(* Waiting, giving up and counting. *)
LEMMA QuietStays ==
    ASSUME PacerKeeps, NEW r \in Requesters, Waited(r) \/ GiveUp(r) \/ CountTraffic(r)
    PROVE  PacerKeeps'
<1>1. /\ tokens' = tokens /\ requested' = requested
      /\ UNCHANGED <<rate, newTarget, filling, wanted, bandAge, bodyPc>>
  BY DEF Waited, GiveUp, CountTraffic, bodyVars, pacerHistoryVars
<1>2. PICK n, from : n = reqSize[r] /\ from = reqPc[r]
  OBVIOUS
<1>3. n \in 0..Largest /\ n \in Nat /\ Largest \in Nat /\ tokens \in Int /\ grandTotal \in Int
      /\ reqSize = [reqSize EXCEPT ![r] = n]
  BY <1>2, RequesterIs
<1>4. PICK to, m :
         /\ Reach(r, to) /\ reqSize' = [reqSize EXCEPT ![r] = m]
         /\ \/ from = "wait" /\ to \in {"free", "take"} /\ m = n /\ grandTotal' = grandTotal
            \/ from = "wait" /\ to = "idle" /\ m = 0 /\ grandTotal' = grandTotal
            \/ /\ from \in {"count", "free"} /\ to \in {"held", "freeHeld"} /\ m = n
               /\ grandTotal' = grandTotal + n
  <2>1. CASE Waited(r)
    BY <1>2, <1>3, <2>1 DEF Waited
  <2>2. CASE GiveUp(r)
    BY <1>2, <2>2 DEF GiveUp
  <2>3. CASE CountTraffic(r)
    BY <1>2, <1>3, <2>3 DEF CountTraffic
  <2> QED BY <2>1, <2>2, <2>3
<1>5. m \in 0..Largest /\ m \in Nat /\ tokens' \in Int /\ grandTotal' \in Int
  BY <1>1, <1>3, <1>4
<1>6. /\ tokens' + Share(to, m) <= tokens + Share(from, n)
      /\ Share(to, m) \in Nat /\ Share(from, n) \in Nat
  <2>1. Share(from, n) = n
    BY ONLY <1>4 DEF Share
  <2>2. Share(to, m) \in {0, n}
    BY ONLY <1>4 DEF Share
  <2> QED BY ONLY <1>1, <1>3, <2>1, <2>2
<1>7. grandTotal' - CountedOf(to, m) >= grandTotal - CountedOf(from, n)
  <2>1. CountedOf(from, n) = 0
    BY ONLY <1>4 DEF CountedOf
  <2>2. CASE from = "wait" /\ grandTotal' = grandTotal /\ to \in {"free", "take", "idle"}
    <3>1. CountedOf(to, m) = 0
      BY ONLY <2>2 DEF CountedOf
    <3> QED BY ONLY <1>3, <2>1, <2>2, <3>1
  <2>3. CASE to \in {"held", "freeHeld"} /\ m = n /\ grandTotal' = grandTotal + n
    <3>1. CountedOf(to, m) = n
      BY ONLY <2>3 DEF CountedOf
    <3> QED BY ONLY <1>3, <2>1, <2>3, <3>1
  <2> QED BY <1>4, <2>2, <2>3
<1>8. from # "idle" /\ to \in {"idle", "take", "putBack", "wait", "count", "free", "held",
                               "freeHeld", "undo"}
  BY <1>4
<1> QED BY <1>1, <1>2, <1>3, <1>4, <1>5, <1>6, <1>7, <1>8, WalkKeeps

(* What was not needed is undone, in the bucket and then in the total. *)
LEMMA UndoStays ==
    ASSUME PacerKeeps, NEW r \in Requesters, UndoRequest(r) \/ UndoTotal(r)
    PROVE  PacerKeeps'
<1>1. /\ requested' = requested
      /\ UNCHANGED <<rate, newTarget, filling, wanted, bandAge, bodyPc>>
  BY DEF UndoRequest, UndoTotal, bodyVars, pacerHistoryVars
<1>2. PICK n, from : n = reqSize[r] /\ from = reqPc[r]
  OBVIOUS
<1>3. n \in 0..Largest /\ n \in Nat /\ Largest \in Nat /\ tokens \in Int /\ grandTotal \in Int
  BY <1>2, RequesterIs
<1>4. PICK to, m :
         /\ Reach(r, to) /\ reqSize' = [reqSize EXCEPT ![r] = m]
         /\ \/ /\ from \in {"held", "freeHeld"} /\ to = "undo" /\ m \in 0..n
               /\ tokens' = tokens + m /\ grandTotal' = grandTotal
            \/ /\ from = "undo" /\ to = "idle" /\ m = 0
               /\ tokens' = tokens /\ grandTotal' = grandTotal - n
  <2>1. CASE UndoRequest(r)
    BY <1>2, <2>1 DEF UndoRequest
  <2>2. CASE UndoTotal(r)
    BY <1>2, <2>2 DEF UndoTotal
  <2> QED BY <2>1, <2>2
<1>5. m \in 0..Largest /\ m \in Nat /\ m <= n /\ tokens' \in Int /\ grandTotal' \in Int
  BY ONLY <1>3, <1>4
<1>6. CASE /\ from \in {"held", "freeHeld"} /\ to = "undo"
           /\ tokens' = tokens + m /\ grandTotal' = grandTotal
  <2>1. /\ Share(from, n) = n /\ Share(to, m) = 0
        /\ CountedOf(from, n) = n /\ CountedOf(to, m) = m
    BY ONLY <1>6 DEF Share, CountedOf
  <2>2. /\ tokens' + Share(to, m) <= tokens + Share(from, n)
        /\ Share(to, m) \in Nat /\ Share(from, n) \in Nat
        /\ grandTotal' - CountedOf(to, m) >= grandTotal - CountedOf(from, n)
    BY ONLY <1>3, <1>5, <1>6, <2>1
  <2> QED BY <1>1, <1>2, <1>4, <1>5, <1>6, <2>2, WalkKeeps
<1>7. CASE /\ from = "undo" /\ to = "idle" /\ m = 0
           /\ tokens' = tokens /\ grandTotal' = grandTotal - n
  <2>1. /\ Share(from, n) = 0 /\ Share(to, m) = 0
        /\ CountedOf(from, n) = n /\ CountedOf(to, m) = 0
    BY ONLY <1>7 DEF Share, CountedOf
  <2>2. /\ tokens' + Share(to, m) <= tokens + Share(from, n)
        /\ Share(to, m) \in Nat /\ Share(from, n) \in Nat
        /\ grandTotal' - CountedOf(to, m) >= grandTotal - CountedOf(from, n)
    BY ONLY <1>3, <1>5, <1>7, <2>1
  <2> QED BY <1>1, <1>2, <1>4, <1>5, <1>7, <2>2, WalkKeeps
<1> QED BY <1>4, <1>6, <1>7

(* The rate and the target are always ones that have been asked for. *)
LEMMA RateStays ==
    ASSUME PacerKeeps, TopOfLoop \/ UpdateTarget \/ TuneRate
    PROVE  PacerKeeps'
<1>1. /\ UNCHANGED <<tokens, grandTotal, reqPc, reqSize, requested>>
      /\ RatesTyped /\ AmountsBounded /\ RequestsTyped
  BY DEF TopOfLoop, UpdateTarget, TuneRate, Adopt, PacerKeeps
<1>2. AmountsBounded'
  BY <1>1, AmountsStay
<1>3. RequestsTyped'
  BY <1>1 DEF RequestsTyped, Largest
<1>4. RatesTyped'
  <2>0. 0 \in 0..DeadBand
    BY LargestTypes
  <2>1. ASSUME NEW t \in Rates, Adopt(t), wanted' \in Rates
        PROVE  RatesTyped'
    <3>1. /\ rate' \in Rates /\ bandAge' \in 0..DeadBand /\ newTarget' = t /\ filling' = rate'
          /\ bodyPc' = "asleep"
      BY <1>1, <2>0, <2>1 DEF Adopt, RatesTyped
    <3> QED BY <2>1, <3>1 DEF RatesTyped, Rates
  <2>2. CASE TopOfLoop
    <3>1. newTarget \in Rates /\ Adopt(newTarget) /\ wanted' \in Rates
      BY <1>1, <2>2 DEF TopOfLoop, RatesTyped
    <3> QED BY <2>1, <3>1
  <2>3. CASE UpdateTarget
    <3>1. PICK t \in Updates : Adopt(t) /\ wanted' = t
      BY <2>3 DEF UpdateTarget
    <3> QED BY <2>1, <3>1 DEF Rates
  <2>4. CASE TuneRate
    <3>1. PICK t \in TunedRates : rate' = t /\ wanted' = t
      BY <2>4 DEF TuneRate
    <3>2. UNCHANGED <<newTarget, filling, bandAge, bodyPc>>
      BY <2>4 DEF TuneRate, bodyVars
    <3> QED BY <1>1, <3>1, <3>2 DEF RatesTyped, Rates
  <2> QED BY <2>2, <2>3, <2>4 DEF TopOfLoop
<1> QED BY <1>2, <1>3, <1>4 DEF PacerKeeps

(* After it has been filled the bucket holds no more than the backlog may    *)
(* be, whatever was in it.                                                   *)
LEMMA FillStays ==
    ASSUME PacerKeeps, Fill
    PROVE  PacerKeeps'
<1>1. /\ UNCHANGED <<rate, newTarget, filling, wanted, grandTotal, reqPc, reqSize, requested>>
      /\ tokens' = Min({tokens + filling, MaxAllowedUnsentBytes(filling)})
      /\ bandAge' = Min({bandAge + 1, DeadBand}) /\ bodyPc' = "top"
      /\ RatesTyped /\ AmountsBounded /\ RequestsTyped
  BY DEF Fill, Trimmed, PacerKeeps
<1>2. filling \in Nat /\ filling <= Fastest /\ Fastest \in Nat /\ DeadBand \in Nat
  BY <1>1, LargestTypes DEF RatesTyped
<1>3. /\ MaxAllowedUnsentBytes(filling) \in Nat /\ MaxAllowedUnsentBytes(Fastest) \in Nat
      /\ MaxAllowedUnsentBytes(filling) <= MaxAllowedUnsentBytes(Fastest)
  BY <1>2, UnsentGrows
<1>4. tokens' \in Int /\ tokens' <= MaxAllowedUnsentBytes(filling)
  <2>1. PICK a, b : a = tokens + filling /\ b = MaxAllowedUnsentBytes(filling)
    OBVIOUS
  <2>2. a \in Int /\ b \in Int
    BY <1>1, <1>2, <1>3, <2>1 DEF AmountsBounded
  <2>3. tokens' = Min({a, b})
    BY <1>1, <2>1
  <2> QED BY <2>1, <2>2, <2>3, MinOfTwo
<1>5. Total(Due, Requesters) <= Cardinality(Requesters) * MostDue
      /\ Total(Due, Requesters) \in Nat
  BY <1>1, SharesTyped, MostDueTypes, TotalOfAll
<1>6. Due' = Due /\ Counted' = Counted
  BY <1>1 DEF Due, Counted
<1>7. Cardinality(Requesters) * MostDue \in Nat
  <2>1. Cardinality(Requesters) \in Nat /\ MostDue \in Nat
    BY BucketAssumption, FS_CardinalityType, MostDueTypes
  <2> QED BY ONLY <2>1
<1>8. tokens' + Total(Due, Requesters) <= TokenBound
  BY ONLY <1>3, <1>4, <1>5, <1>7 DEF TokenBound
<1>9. AmountsBounded'
  <2>1. /\ Total(Due, Requesters)' = Total(Due, Requesters)
        /\ Total(Counted, Requesters)' = Total(Counted, Requesters)
    BY <1>6 DEF Total, UnitsOf
  <2>2. TokenBound' = TokenBound
    BY DEF TokenBound, Fastest, MostDue, Largest
  <2>3. grandTotal \in Int /\ grandTotal >= Total(Counted, Requesters) /\ grandTotal' = grandTotal
    BY <1>1 DEF AmountsBounded
  <2> QED BY <1>4, <1>8, <2>1, <2>2, <2>3 DEF AmountsBounded
<1>10. bandAge' \in 0..DeadBand
  <2>1. PICK a, b : a = bandAge + 1 /\ b = DeadBand
    OBVIOUS
  <2>2. a \in Nat /\ b \in Nat
    BY <1>1, <1>2, <2>1 DEF RatesTyped
  <2>3. bandAge' = Min({a, b})
    BY <1>1, <2>1
  <2>4. bandAge' \in Nat /\ bandAge' <= b
    BY ONLY <2>2, <2>3, MinOfTwo
  <2> QED BY ONLY <2>1, <2>2, <2>4
<1>11. RatesTyped'
  BY <1>1, <1>10 DEF RatesTyped, Rates
<1>12. RequestsTyped'
  BY <1>1 DEF RequestsTyped, Largest
<1> QED BY <1>9, <1>11, <1>12 DEF PacerKeeps

(* A new pacer is within its bounds.                                       *)
LEMMA PacerStarts ==
    ASSUME TBInit
    PROVE  PacerKeeps
<1>1. /\ rate \in Rates /\ newTarget = rate /\ wanted = rate /\ filling = rate
      /\ bandAge = 0 /\ bodyPc = "top" /\ tokens = rate \div 4 /\ grandTotal = 0
      /\ reqPc = [r \in Requesters |-> "idle"]
      /\ reqSize = [r \in Requesters |-> 0]
      /\ requested = [r \in Requesters |-> 0]
  BY DEF TBInit, Rates
<1>2. /\ Largest \in Nat /\ MaxPacerRequests \in Nat /\ DeadBand \in Nat
      /\ rate \in Nat /\ rate <= Fastest /\ Fastest \in Nat
  BY <1>1, LargestTypes
<1>3. RatesTyped
  BY <1>1, <1>2 DEF RatesTyped
<1>4. RequestsTyped
  BY <1>1, <1>2 DEF RequestsTyped
<1>5. /\ Total(Due, Requesters) <= Cardinality(Requesters) * MostDue
      /\ Total(Due, Requesters) \in Nat
  BY <1>4, SharesTyped, MostDueTypes, TotalOfAll
<1>6. Cardinality(Requesters) * MostDue \in Nat
  <2>1. Cardinality(Requesters) \in Nat /\ MostDue \in Nat
    BY BucketAssumption, FS_CardinalityType, MostDueTypes
  <2> QED BY ONLY <2>1
<1>7. /\ MaxAllowedUnsentBytes(rate) \in Nat /\ MaxAllowedUnsentBytes(Fastest) \in Nat
      /\ MaxAllowedUnsentBytes(rate) <= MaxAllowedUnsentBytes(Fastest)
      /\ rate \div 4 \in Nat /\ rate \div 4 <= MaxAllowedUnsentBytes(rate)
  BY <1>2, UnsentGrows
<1>8. tokens \in Int /\ tokens + Total(Due, Requesters) <= TokenBound
  <2>1. PICK t : t = rate \div 4
    OBVIOUS
  <2>2. tokens = t /\ t \in Nat /\ t <= MaxAllowedUnsentBytes(Fastest)
    BY <1>1, <1>7, <2>1
  <2> QED BY ONLY <2>2, <1>5, <1>6, <1>7 DEF TokenBound
<1>9. Total(Counted, Requesters) = 0
  <2>1. \A r \in Requesters : Counted[r] = 0
    BY <1>1 DEF Counted, CountedOf
  <2>2. UnitsOf(Counted, Requesters) = {}
    <3>1. \A r \in Requesters : {r} \X (1..Counted[r]) = {}
      BY <2>1
    <3> QED BY ONLY <3>1 DEF UnitsOf
  <2> QED BY <2>2, FS_EmptySet DEF Total
<1>10. AmountsBounded
  BY <1>1, <1>8, <1>9 DEF AmountsBounded
<1> QED BY <1>3, <1>4, <1>10 DEF PacerKeeps

(* The bucket keeps to its bounds, whatever overlaps, and the total of the   *)
(* bytes that went through is never less than what may still be undone.      *)
THEOREM PacerInvariant == TBSpec => []PacerKeeps
<1>1. PacerKeeps /\ [TBNext]_tbVars => PacerKeeps'
  <2> SUFFICES ASSUME PacerKeeps, [TBNext]_tbVars
               PROVE  PacerKeeps'
    OBVIOUS
  <2>1. CASE TBNext
    BY <2>1, RequestStays, TakeStays, QuietStays, UndoStays, RateStays, FillStays
       DEF TBNext, RequestStep, BodyStep
  <2>2. CASE UNCHANGED tbVars
    <3>1. /\ UNCHANGED <<tokens, grandTotal, reqPc, reqSize, requested>>
          /\ UNCHANGED <<rate, newTarget, filling, wanted, bandAge, bodyPc>>
          /\ RatesTyped /\ AmountsBounded /\ RequestsTyped
      BY <2>2 DEF tbVars, PacerKeeps
    <3>2. AmountsBounded' /\ RatesTyped'
      BY <3>1, AmountsStay, RatesStay
    <3>3. RequestsTyped'
      BY <3>1 DEF RequestsTyped, Largest
    <3> QED BY <3>2, <3>3 DEF PacerKeeps
  <2> QED BY <2>1, <2>2
<1> QED BY PacerStarts, <1>1, PTL DEF TBSpec

(* The bucket never gives more than was released, its bookkeeping survives   *)
(* attempts that overlap, and it stays within its bounds.                    *)
THEOREM PacerInvHolds == TBSpec => []PacerInv
<1>1. PacerKeeps => TBTypeOK
  <2> SUFFICES ASSUME PacerKeeps PROVE TBTypeOK
    OBVIOUS
  <2>1. RatesTyped /\ RequestsTyped /\ AmountsBounded
    BY DEF PacerKeeps
  <2>2. /\ Total(Due, Requesters) \in Nat /\ Total(Counted, Requesters) \in Nat
        /\ Cardinality(Requesters) \in Nat
    BY <2>1, SharesTyped, MostDueTypes, LargestTypes, TotalOfAll
  <2>3. MostDue \in Nat /\ Largest \in Nat /\ MaxPacerRequests \in Nat
        /\ MaxAllowedUnsentBytes(Fastest) \in Nat
    BY MostDueTypes, LargestTypes, UnsentGrows
  <2>4. Cardinality(Requesters) * MostDue
          = (MaxPacerRequests + 1) * Cardinality(Requesters) * Largest
    <3>1. PICK c, m, n : c = Cardinality(Requesters) /\ m = MaxPacerRequests + 1 /\ n = Largest
      OBVIOUS
    <3>2. c \in Nat /\ m \in Nat /\ n \in Nat
      BY <2>2, <2>3, <3>1
    <3>3. c * (m * n) = m * c * n
      BY ONLY <3>2
    <3> QED BY <3>1, <3>3 DEF MostDue
  <2>5. Cardinality(Requesters) * MostDue \in Nat
    BY ONLY <2>2, <2>3
  <2>6. tokens \in Int /\ tokens <= MaxAllowedUnsentBytes(Fastest) + Cardinality(Requesters) * MostDue
    <3>1. tokens \in Int /\ tokens + Total(Due, Requesters) <= TokenBound
      BY <2>1 DEF AmountsBounded
    <3> QED BY ONLY <2>2, <2>3, <2>5, <3>1 DEF TokenBound
  <2>7. tokens <= MaxAllowedUnsentBytes(Max(Rates)) +
           (MaxPacerRequests + 1) * Cardinality(Requesters) * Max(Sizes)
    BY <2>4, <2>6 DEF Fastest, Largest
  <2>8. grandTotal \in Nat
    <3>1. grandTotal \in Int /\ grandTotal >= Total(Counted, Requesters)
      BY <2>1 DEF AmountsBounded
    <3> QED BY ONLY <2>2, <3>1
  <2>9. reqSize \in [Requesters -> Nat]
    BY <2>1, <2>3 DEF RequestsTyped
  <2> QED BY <2>1, <2>6, <2>7, <2>8, <2>9 DEF TBTypeOK, RatesTyped, RequestsTyped
<1>2. PacerKeeps /\ NeverOverdrawn /\ TokensAreConserved => PacerInv
  BY <1>1 DEF PacerInv
<1> QED BY <1>2, PacerInvariant, PacerKeepsItsAccounts, PTL

-----------------------------------------------------------------------------
(* ConcurrencyTuner.                                                       *)

(* A set of numbers that is not empty has a least element: induction, as the *)
(* well-foundedness of < on Nat.                                           *)
LEMMA LeastNumber ==
    ASSUME NEW T, T \subseteq Nat, T # {}
    PROVE  \E x \in T : \A y \in T : x <= y
<1>1. PICK R : R = OpToRel(<, Nat)
  OBVIOUS
<1>2. IsWellFoundedOn(R, Nat)
  BY <1>1, NatLessThanWellFounded
<1>3. PICK x \in T : \A y \in T : ~(<<y, x>> \in R)
  BY <1>2, WFMin
<1>4. \A a, b \in Nat : a < b => <<a, b>> \in R
  BY <1>1 DEF OpToRel
<1>5. ASSUME NEW y \in T
      PROVE  x <= y
  <2>1. x \in Nat /\ y \in Nat
    OBVIOUS
  <2>2. ~(y < x)
    BY Zenon, <2>1, <1>3, <1>4
  <2> QED BY <2>1, <2>2
<1> QED BY <1>5

TunerLimit == MaxMainPoolSize * Hundred

(* What a quotient is.                                                     *)
LEMMA Quotient ==
    ASSUME NEW a \in Nat, NEW b \in Nat, b > 0
    PROVE  /\ a \div b \in Nat
           /\ b * (a \div b) <= a
           /\ a < b * (a \div b) + b
  OBVIOUS

(* Products grow with their factors.                                       *)
LEMMA Monotone ==
    ASSUME NEW a \in Nat, NEW b \in Nat, NEW c \in Nat, a <= b
    PROVE  c * a <= c * b /\ a * c <= b * c /\ c * a \in Nat
  OBVIOUS

(* To multiply by at least one hundredth hundred makes nothing smaller. *)
LEMMA TimesGrows ==
    ASSUME NEW c \in Nat, NEW m \in Nat, m >= Hundred
    PROVE  Times(c, m) \in Nat /\ Times(c, m) >= c
<1>1. c * Hundred <= c * m
  BY Monotone DEF Hundred
<1>2. c * m \in Nat
  OBVIOUS
<1>3. PICK p : p = c * m /\ p \in Nat /\ c * 100 <= p
  BY <1>1, <1>2 DEF Hundred
<1>4. p \div 100 \in Nat /\ p \div 100 >= c
  BY <1>3
<1> QED BY <1>3, <1>4 DEF Times, Hundred

Small(m) == m \in Hundred..Boosted

(* A probe multiplies by one to four, and ends at the limit or below it.   *)
LEMMA ProbeTypes ==
    ASSUME NEW c \in Hundred..TunerLimit, NEW m \in Hundred..Boosted
    PROVE  /\ Probe(c, m).multiplier \in Hundred..Boosted
           /\ Probe(c, m).atMax \in BOOLEAN
           /\ ~Probe(c, m).atMax => Times(c, Probe(c, m).multiplier) \in c..TunerLimit
           /\ Probe(c, m).reason \in {"hit max", "seeking"}
<1>0. MaxMainPoolSize \in Nat /\ TunerLimit \in Nat /\ c \in Nat /\ m \in Nat /\ c >= 100 /\ c <= TunerLimit
  BY TunerAssumption DEF TunerLimit, Hundred, Boosted
<1>1. PICK boost : boost = IF c >= TopOfBoostZone * Hundred /\ m > Standard THEN Standard ELSE m
  OBVIOUS
<1>2. boost \in 100..400 /\ boost \in Nat
  BY <1>1 DEF Standard, Hundred, Boosted
<1>3. PICK over : over = (Times(c, boost) > TunerLimit)
  OBVIOUS
<1>4. Probe(c, m) = [multiplier |-> IF over THEN (TunerLimit * Hundred) \div c ELSE boost,
                     atMax |-> over, reason |-> IF over THEN "hit max" ELSE "seeking"]
  BY <1>1, <1>3 DEF Probe, TunerLimit
<1>5. Times(c, boost) \in Nat /\ Times(c, boost) >= c
  <2>1. boost \in Nat /\ boost >= Hundred /\ c \in Nat
    BY <1>0, <1>2 DEF Hundred
  <2> QED BY ONLY <2>1, TimesGrows
<1>6. over => (TunerLimit * Hundred) \div c \in 100..400
  <2> SUFFICES ASSUME over PROVE (TunerLimit * 100) \div c \in 100..400
    BY DEF Hundred
  <2>1. Times(c, boost) > TunerLimit
    BY <1>3
  <2>2. PICK p, l, q : p = c * boost /\ l = TunerLimit * 100 /\ q = l \div c
    OBVIOUS
  <2>3. p \in Nat /\ l \in Nat /\ q \in Nat /\ c * q <= l /\ l < c * q + c
    BY <2>2, <1>0, <1>2, Quotient
  <2>4. p \div 100 > TunerLimit
    BY <2>1, <2>2 DEF Times, Hundred
  <2>5. p > l
    BY <2>2, <2>3, <2>4, <1>0
  <2>6. q <= boost
    <3> SUFFICES ASSUME q > boost PROVE FALSE
      BY <2>3, <1>2
    <3>1. c * boost <= c * q
      BY <2>3, <1>0, <1>2, Monotone
    <3> QED BY <3>1, <2>2, <2>3, <2>5, <1>0
  <2>7. q >= 100
    <3> SUFFICES ASSUME q < 100 PROVE FALSE
      BY <2>3
    <3>1. c * (q + 1) <= c * 100
      BY <2>3, <1>0, Monotone
    <3>2. c * (q + 1) = c * q + c
      BY <2>3, <1>0
    <3>3. c * 100 <= l
      BY <2>2, <1>0
    <3>4. c * q \in Nat /\ c * 100 \in Nat
      BY <2>3, <1>0
    <3> QED BY <3>1, <3>2, <3>3, <3>4, <2>3, <1>0
  <2> QED BY <2>2, <2>3, <2>6, <2>7, <1>2
<1>7. over \in BOOLEAN
  BY <1>3
<1>8. ~over => Times(c, boost) \in c..TunerLimit
  <2> SUFFICES ASSUME ~over PROVE Times(c, boost) \in c..TunerLimit
    OBVIOUS
  <2>1. PICK p : p = Times(c, boost)
    OBVIOUS
  <2>2. ~(p > TunerLimit) /\ p \in Nat /\ p >= c
    BY <1>3, <1>5, <2>1
  <2>3. p \in c..TunerLimit
    BY ONLY <2>2, <1>0
  <2> QED BY <2>1, <2>3
<1>9. PICK v, w : /\ v = IF over THEN (TunerLimit * Hundred) \div c ELSE boost
                 /\ w = IF over THEN "hit max" ELSE "seeking"
  OBVIOUS
<1>10. Probe(c, m) = [multiplier |-> v, atMax |-> over, reason |-> w]
  BY <1>4, <1>9
<1>11. Probe(c, m).multiplier = v /\ Probe(c, m).atMax = over /\ Probe(c, m).reason = w
  BY ONLY <1>10
<1>12. v \in Hundred..Boosted /\ w \in {"hit max", "seeking"} /\ (~over => v = boost)
  <2>1. over => (TunerLimit * Hundred) \div c \in Hundred..Boosted
    BY <1>6 DEF Hundred, Boosted
  <2>2. boost \in Hundred..Boosted
    BY <1>2 DEF Hundred, Boosted
  <2> QED BY ONLY <2>1, <2>2, <1>7, <1>9
<1>13. ~over => Times(c, v) \in c..TunerLimit
  BY <1>8, <1>12
<1> QED BY ONLY <1>7, <1>11, <1>12, <1>13

(* Some multiplier counts for one more connection, so the loop ends.       *)
LEMMA BumpedTypes ==
    ASSUME NEW c \in Nat, c >= Hundred, NEW m \in Hundred..Standard
    PROVE  Bumped(c, m) \in m..Boosted
<1> DEFINE counts == {n \in m..Boosted : (n - m) % 5 = 0 /\ Whole(Times(c, n)) # Whole(c)}
<1>0. m \in Nat /\ m >= 100 /\ m <= 200 /\ Boosted = 400
  BY DEF Hundred, Standard, Boosted
<1>1. counts # {}
  <2> DEFINE n == m + 100
  <2>1. n \in m..Boosted /\ (n - m) % 5 = 0 /\ n \in Nat /\ n >= 200
    BY <1>0
  <2>2. c * 200 <= c * n /\ c * n \in Nat
    BY <2>1, Monotone
  <2>3. Times(c, n) \in Nat /\ Times(c, n) >= 2 * c
    <3>1. PICK p : p = c * n /\ p \in Nat /\ c * 200 <= p
      BY <2>2
    <3>2. p \div 100 \in Nat /\ p \div 100 >= 2 * c
      BY <3>1
    <3> QED BY <3>1, <3>2 DEF Times, Hundred
  <2>4. Whole(Times(c, n)) # Whole(c)
    <3>1. PICK t : t = Times(c, n) /\ t \in Nat /\ t >= 2 * c
      BY <2>3
    <3>2. t \div 100 # c \div 100
      BY <3>1 DEF Hundred
    <3> QED BY <3>1, <3>2 DEF Whole, Hundred
  <2> QED BY <2>1, <2>4
<1>2. counts \subseteq Nat
  BY <1>0
<1>3. \E n \in counts : \A other \in counts : n <= other
  BY <1>1, <1>2, LeastNumber
<1>4. Bumped(c, m) \in counts
  BY <1>3 DEF Bumped
<1> QED BY <1>4

(* A reduced multiplier is one to four, too.                               *)
LEMMA NextMultiplierTypes ==
    ASSUME NEW c \in Hundred..TunerLimit, NEW m \in Hundred..Boosted, NEW times
    PROVE  NextMultiplier(c, m, times) \in Hundred..Boosted
<1>1. Reduced(m) \in Hundred..Standard
  BY DEF Reduced, Hundred, Standard, Boosted
<1>2. c \in Nat /\ c >= Hundred
  BY TunerAssumption DEF TunerLimit, Hundred
<1>3. Bumped(c, Reduced(m)) \in Hundred..Boosted
  <2>1. PICK r \in Hundred..Standard : r = Reduced(m)
    BY <1>1
  <2>2. Bumped(c, r) \in r..Boosted
    BY <1>2, BumpedTypes
  <2>3. r \in Nat /\ r >= Hundred
    BY DEF Hundred, Standard
  <2>4. Bumped(c, r) \in Hundred..Boosted
    BY <2>2, <2>3 DEF Hundred, Boosted
  <2> QED BY <2>1, <2>4
<1> QED BY <1>1, <1>3 DEF NextMultiplier, Hundred, Standard, Boosted

(* What the worker of the tuner keeps to.  Its last value but one has not been *)
(* found too slow, and once it has finished, the reason it is about to give is  *)
(* a result of the search until one is stored.                                  *)
TunerKeeps ==
    /\ concurrency \in Hundred..TunerLimit
    /\ trying \in Hundred..TunerLimit
    /\ multiplier \in Hundred..Boosted
    /\ reductions \in 0..CountedReductions
    /\ finalState \in {"none", "hit max", "high cpu", "at optimum"}
    /\ ~isBenchmarking => concurrency \notin rejected
    /\ tunerPc \in {"recommendFinal", "awaitFinal", "measureFinal"} /\ finalState = "none"
         => reason \in {"high cpu", "at optimum"}

(* How many workers have not told the sizer yet: the one it waits for, and one  *)
(* more once it has been woken up to tune slowly; none when it asks.            *)
Unheard ==
    (IF sizerPc = "wait" THEN 1 ELSE 0)
      + (IF slowTune \/ sizerPc \in {"sendMeasurement", "awaitRecommendation"} THEN 0 ELSE 1)

SizerKeeps ==
    /\ sizerPc \in {"loop", "wait", "sendMeasurement", "awaitRecommendation"}
    /\ target \in 0..MaxMainPoolSize
    /\ actual \in Nat /\ starting \in Nat /\ live \in Nat /\ exiting \in Nat
    /\ actual = live + exiting
    /\ starting + exiting <= Unheard
    /\ actual + starting <= MaxMainPoolSize + 1

PoolIInv == TunerKeeps /\ SizerKeeps

(* The limit of the tuner, in hundredths, is above every first value.        *)
LEMMA TunerLimitTypes ==
    /\ MaxMainPoolSize \in Nat /\ TunerLimit \in Nat
    /\ \A n \in InitialPools : n \in Nat /\ n * Hundred \in Hundred..TunerLimit
                               /\ n \in 0..MaxMainPoolSize
<1>1. MaxMainPoolSize \in Nat
  BY TunerAssumption
<1>2. ASSUME NEW n \in InitialPools
      PROVE  /\ n \in Nat /\ n * Hundred \in Hundred..TunerLimit
             /\ n \in 0..MaxMainPoolSize
  <2>1. n \in Nat /\ n > 0 /\ n < MaxMainPoolSize
    BY TunerAssumption
  <2> QED BY ONLY <2>1, <1>1 DEF TunerLimit, Hundred
<1> QED BY <1>1, <1>2 DEF TunerLimit, Hundred

(* What a probe recommends lies between the value it starts from and the     *)
(* limit.                                                                    *)
LEMMA ProbeFromKeeps ==
    ASSUME NEW c \in Hundred..TunerLimit, NEW m \in Hundred..Boosted, ProbeFrom(c, m)
    PROVE  /\ multiplier' \in Hundred..Boosted
           /\ trying' \in Hundred..TunerLimit
           /\ tunerPc' = "recommendProbe"
<1>1. PICK next : next = Probe(c, m)
  OBVIOUS
<1>2. /\ next.multiplier \in Hundred..Boosted
      /\ ~next.atMax => Times(c, next.multiplier) \in c..TunerLimit
  BY <1>1, ProbeTypes
<1>3. /\ multiplier' = next.multiplier
      /\ trying' = IF next.atMax THEN TunerLimit ELSE Times(c, next.multiplier)
      /\ tunerPc' = "recommendProbe"
  BY <1>1 DEF ProbeFrom, TunerLimit
<1>4. TunerLimit \in Hundred..TunerLimit
  BY TunerLimitTypes DEF Hundred
<1>5. c..TunerLimit \subseteq Hundred..TunerLimit
  BY DEF Hundred
<1> QED BY ONLY <1>2, <1>3, <1>4, <1>5

(* It holds when the sizer starts. *)
LEMMA PoolStarts ==
    ASSUME CTInit
    PROVE  PoolIInv
<1>1. PICK n \in InitialPools : concurrency = n * Hundred /\ trying = n * Hundred /\ target = n
  BY DEF CTInit
<1>2. concurrency \in Hundred..TunerLimit /\ trying \in Hundred..TunerLimit
      /\ target \in 0..MaxMainPoolSize /\ MaxMainPoolSize \in Nat
  BY <1>1, TunerLimitTypes
<1>3. TunerKeeps
  BY <1>2 DEF TunerKeeps, CTInit, CountedReductions, Boosted, Hundred
<1>4. SizerKeeps
  BY <1>2 DEF SizerKeeps, CTInit, Unheard
<1> QED BY <1>3, <1>4 DEF PoolIInv

(* The measurements keep it. *)
LEMMA BaselineKeeps ==
    ASSUME TunerKeeps, Baseline
    PROVE  TunerKeeps'
<1>1. concurrency \in Hundred..TunerLimit /\ multiplier \in Hundred..Boosted
  BY DEF TunerKeeps
<1>2. ProbeFrom(concurrency, multiplier)
  BY DEF Baseline
<1>3. /\ multiplier' \in Hundred..Boosted
      /\ trying' \in Hundred..TunerLimit
      /\ tunerPc' = "recommendProbe"
  BY <1>1, <1>2, ProbeFromKeeps
<1>4. UNCHANGED <<isBenchmarking, concurrency, reductions, finalState, rejected>>
  BY DEF Baseline
<1> QED BY <1>3, <1>4 DEF TunerKeeps, TunerLimit

(* A measurement after the end keeps it: the reason is stored as the result. *)
LEMMA MeasureFinalKeeps ==
    ASSUME TunerKeeps, MeasureFinal
    PROVE  TunerKeeps'
<1>1. /\ UNCHANGED <<isBenchmarking, concurrency, multiplier, trying, reductions, rejected>>
      /\ finalState' = (IF finalState = "none" THEN reason ELSE finalState)
      /\ tunerPc = "measureFinal"
  BY DEF MeasureFinal
<1>2. finalState' \in {"none", "hit max", "high cpu", "at optimum"} /\ finalState' # "none"
  BY <1>1 DEF TunerKeeps
<1> QED BY <1>1, <1>2 DEF TunerKeeps, TunerLimit

(* The end of the search keeps it, whatever value it ends at. *)
LEMMA FinishKeeps ==
    ASSUME NEW c, NEW atLimit, NEW highCpu, Finish(c, atLimit, highCpu)
    PROVE  /\ concurrency' = c /\ trying' = c
           /\ finalState' \in {"none", "hit max"}
           /\ finalState' = "none" => reason' \in {"high cpu", "at optimum"}
  BY DEF Finish

(* The measurement of a probe keeps it: a value that was slower is left.   *)
LEMMA MeasureProbeKeeps ==
    ASSUME TunerKeeps, MeasureProbe
    PROVE  TunerKeeps'
<1>1. isBenchmarking' = isBenchmarking /\ tunerPc = "measureProbe"
  BY DEF MeasureProbe
<1>2. /\ concurrency \in Hundred..TunerLimit /\ trying \in Hundred..TunerLimit
      /\ multiplier \in Hundred..Boosted /\ reductions \in 0..CountedReductions
      /\ finalState \in {"none", "hit max", "high cpu", "at optimum"}
  BY DEF TunerKeeps
<1>3. PICK sawHighCpu, noBackoff, probeHigher, faster, next :
         /\ noBackoff => isBenchmarking
         /\ next = NextMultiplier(concurrency, multiplier, reductions + 1)
         /\ \/ /\ faster \/ probeHigher
               /\ IF atMax
                  THEN /\ Finish(trying, TRUE, sawHighCpu)
                       /\ UNCHANGED <<multiplier, atMax>>
                  ELSE /\ concurrency' = trying
                       /\ ProbeFrom(trying, multiplier)
                       /\ UNCHANGED finalState
               /\ rejected' = rejected \ {trying}
               /\ UNCHANGED reductions
            \/ /\ ~faster /\ ~probeHigher /\ noBackoff
               /\ Finish(trying, atMax, sawHighCpu)
               /\ UNCHANGED <<multiplier, atMax, reductions, rejected>>
            \/ /\ ~faster /\ ~probeHigher /\ ~noBackoff
               /\ rejected' = rejected \cup ({trying} \ {concurrency})
               /\ reductions' = IF reductions < CountedReductions THEN reductions + 1 ELSE reductions
               /\ multiplier' = next
               /\ IF next < MinMultiplier
                  THEN Finish(Backoff(concurrency), atMax, sawHighCpu)
                  ELSE /\ concurrency' = Backoff(concurrency)
                       /\ trying' = Backoff(concurrency)
                       /\ reason' = "backoff"
                       /\ tunerPc' = "recommendBackoff"
                       /\ UNCHANGED finalState
               /\ UNCHANGED atMax
  BY Zenon DEF MeasureProbe
<1>4. next \in Hundred..Boosted
  BY <1>2, <1>3, NextMultiplierTypes
<1>5. CASE (faster \/ probeHigher) /\ atMax
  <2>1. /\ Finish(trying, TRUE, sawHighCpu) /\ multiplier' = multiplier
        /\ rejected' = rejected \ {trying} /\ reductions' = reductions
    BY <1>3, <1>5
  <2>2. /\ concurrency' = trying /\ trying' = trying
        /\ finalState' \in {"none", "hit max"}
        /\ finalState' = "none" => reason' \in {"high cpu", "at optimum"}
    BY <2>1, FinishKeeps
  <2> QED BY <1>2, <2>1, <2>2 DEF TunerKeeps, TunerLimit
<1>6. CASE (faster \/ probeHigher) /\ ~atMax
  <2>1. /\ concurrency' = trying /\ ProbeFrom(trying, multiplier) /\ finalState' = finalState
        /\ rejected' = rejected \ {trying} /\ reductions' = reductions
    BY <1>3, <1>6
  <2>2. /\ multiplier' \in Hundred..Boosted /\ trying' \in Hundred..TunerLimit
        /\ tunerPc' = "recommendProbe"
    BY <1>2, <2>1, ProbeFromKeeps
  <2> QED BY <1>2, <2>1, <2>2 DEF TunerKeeps, TunerLimit
<1>7. CASE ~(faster \/ probeHigher) /\ noBackoff
  <2>1. /\ Finish(trying, atMax, sawHighCpu) /\ multiplier' = multiplier
        /\ isBenchmarking /\ reductions' = reductions
    BY <1>3, <1>7
  <2>2. /\ concurrency' = trying /\ trying' = trying
        /\ finalState' \in {"none", "hit max"}
        /\ finalState' = "none" => reason' \in {"high cpu", "at optimum"}
    BY <2>1, FinishKeeps
  <2> QED BY <1>1, <1>2, <2>1, <2>2 DEF TunerKeeps, TunerLimit
<1>8. CASE ~(faster \/ probeHigher) /\ ~noBackoff
  <2>1. /\ rejected' = rejected \cup ({trying} \ {concurrency})
        /\ reductions' = (IF reductions < CountedReductions THEN reductions + 1 ELSE reductions)
        /\ multiplier' = next
        /\ IF next < MinMultiplier
           THEN Finish(concurrency, atMax, sawHighCpu)
           ELSE /\ concurrency' = concurrency
                /\ trying' = concurrency
                /\ tunerPc' = "recommendBackoff"
                /\ finalState' = finalState
    BY <1>3, <1>8 DEF Backoff
  <2>2. /\ concurrency' = concurrency /\ trying' = concurrency
        /\ finalState' \in {"none", "hit max", "high cpu", "at optimum"}
        /\ tunerPc' \in {"recommendFinal", "awaitFinal", "measureFinal"} /\ finalState' = "none"
             => reason' \in {"high cpu", "at optimum"}
    <3>1. CASE next < MinMultiplier
      <4>1. Finish(concurrency, atMax, sawHighCpu)
        BY <2>1, <3>1
      <4> QED BY <4>1, FinishKeeps
    <3>2. CASE ~(next < MinMultiplier)
      BY <1>2, <2>1, <3>2
    <3> QED BY <3>1, <3>2
  <2>3. reductions' \in 0..CountedReductions
    <3>1. reductions' = (IF reductions < CountedReductions THEN reductions + 1 ELSE reductions)
          /\ reductions \in 0..CountedReductions
      BY <1>2, <2>1
    <3> QED BY ONLY <3>1 DEF CountedReductions
  <2>4. ~isBenchmarking => concurrency \notin rejected'
    BY <2>1 DEF TunerKeeps
  <2> QED BY <1>1, <1>2, <1>4, <2>1, <2>2, <2>3, <2>4 DEF TunerKeeps, TunerLimit
<1> QED BY <1>5, <1>6, <1>7, <1>8

(* The sizer's messages to the tuner keep it, and nothing else of the sizer *)
(* changes what the tuner has.                                              *)
LEMMA TunerIsLeftAlone ==
    ASSUME TunerKeeps,
           UNCHANGED <<isBenchmarking, concurrency, multiplier, trying, reductions, reason,
                       finalState, rejected>>,
           \/ tunerPc' = tunerPc
           \/ tunerPc' \in {"recommendFinal", "awaitFinal", "measureFinal"}
                => tunerPc \in {"recommendFinal", "awaitFinal", "measureFinal"}
    PROVE  TunerKeeps'
  BY DEF TunerKeeps, TunerLimit

(* A measurement handed over, or a recommendation received, keeps it.      *)
LEMMA MessagesKeepTuner ==
    ASSUME TunerKeeps, SendMeasurement \/ ReceiveRecommendation
    PROVE  TunerKeeps'
<1>1. CASE SendMeasurement
  <2>1. tunerPc' = AfterReceiving
        /\ tunerPc \in {"baseline", "awaitProbe", "awaitBackoff", "awaitFinal"}
    BY <1>1 DEF SendMeasurement
  <2>2. tunerPc' \in {"recommendFinal", "awaitFinal", "measureFinal"}
          => tunerPc \in {"recommendFinal", "awaitFinal", "measureFinal"}
    BY <2>1 DEF AfterReceiving
  <2>3. UNCHANGED <<isBenchmarking, concurrency, multiplier, trying, reductions, reason,
                    finalState, rejected>>
    BY <1>1 DEF SendMeasurement
  <2> QED BY <2>2, <2>3, TunerIsLeftAlone
<1>2. CASE ReceiveRecommendation
  <2>1. tunerPc' = AfterRecommending
        /\ tunerPc \in {"recommendProbe", "recommendBackoff", "recommendFinal"}
    BY <1>2 DEF ReceiveRecommendation
  <2>2. tunerPc' \in {"recommendFinal", "awaitFinal", "measureFinal"}
          => tunerPc \in {"recommendFinal", "awaitFinal", "measureFinal"}
    BY <2>1 DEF AfterRecommending
  <2>3. UNCHANGED <<isBenchmarking, concurrency, multiplier, trying, reductions, reason,
                    finalState, rejected>>
    BY <1>2 DEF ReceiveRecommendation
  <2> QED BY <2>2, <2>3, TunerIsLeftAlone
<1> QED BY <1>1, <1>2

(* Whatever wakes the sizer up, no worker is started or scaled back while    *)
(* more than one other has still to tell.                                    *)
LEMMA SizerStepKeeps ==
    ASSUME TunerKeeps, SizerKeeps, SizerStep \/ TuneSlowly
    PROVE  SizerKeeps'
<1>1. /\ sizerPc \in {"loop", "wait", "sendMeasurement", "awaitRecommendation"}
      /\ target \in 0..MaxMainPoolSize /\ MaxMainPoolSize \in Nat
      /\ actual \in Nat /\ starting \in Nat /\ live \in Nat /\ exiting \in Nat
      /\ actual = live + exiting
      /\ starting + exiting <= Unheard
      /\ actual + starting <= MaxMainPoolSize + 1
  BY TunerLimitTypes DEF SizerKeeps
<1>2. CASE StartWorker
  BY <1>1, <1>2 DEF StartWorker, SizerKeeps, Unheard
<1>3. CASE ScaleBack
  BY <1>1, <1>3 DEF ScaleBack, SizerKeeps, Unheard
<1>4. CASE OnTarget
  BY <1>1, <1>4 DEF OnTarget, SizerKeeps, Unheard, workerVars
<1>5. CASE WorkerStarted
  BY <1>1, <1>5 DEF WorkerStarted, SizerKeeps, Unheard
<1>6. CASE WorkerExited
  BY <1>1, <1>6 DEF WorkerExited, SizerKeeps, Unheard
<1>7. CASE TuneSlowly
  BY <1>1, <1>7 DEF TuneSlowly, SizerKeeps, Unheard, workerVars
<1>8. CASE IntervalPasses
  BY <1>1, <1>8 DEF IntervalPasses, SizerKeeps, Unheard, workerVars
<1>9. CASE SendMeasurement
  BY <1>1, <1>9 DEF SendMeasurement, SizerKeeps, Unheard, workerVars
<1>10. CASE ReceiveRecommendation
  <2>1. target' = Whole(trying) /\ trying \in Hundred..TunerLimit
    BY <1>10 DEF ReceiveRecommendation, TunerKeeps
  <2>2. Whole(trying) \in 0..MaxMainPoolSize
    BY <2>1, TunerLimitTypes DEF Whole, TunerLimit, Hundred
  <2>3. sizerPc = "awaitRecommendation" /\ sizerPc' = "loop"
        /\ UNCHANGED <<actual, slowTune, starting, live, exiting>>
    BY <1>10 DEF ReceiveRecommendation, workerVars
  <2> QED BY <1>1, <2>1, <2>2, <2>3 DEF SizerKeeps, Unheard
<1> QED BY <1>2, <1>3, <1>4, <1>5, <1>6, <1>7, <1>8, <1>9, <1>10 DEF SizerStep

(* The inductive invariant of the pool holds throughout, and with it the     *)
(* property that the runs check.                                             *)
THEOREM PoolInvariant == CTSpec => []PoolIInv
<1>1. CTInit => PoolIInv
  BY PoolStarts
<1>2. PoolIInv /\ [CTNext]_ctVars => PoolIInv'
  <2> SUFFICES ASSUME PoolIInv, [CTNext]_ctVars
               PROVE  PoolIInv'
    OBVIOUS
  <2>0. TunerKeeps /\ SizerKeeps
    BY DEF PoolIInv
  <2>1. CASE TunerStep
    <3>1. TunerKeeps'
      BY <2>0, <2>1, BaselineKeeps, MeasureProbeKeeps, MeasureFinalKeeps DEF TunerStep
    <3>2. UNCHANGED <<sizerVars, workerVars>>
      BY <2>1 DEF TunerStep, Baseline, MeasureProbe, MeasureFinal
    <3>3. SizerKeeps'
      BY <2>0, <3>2 DEF SizerKeeps, Unheard, sizerVars, workerVars
    <3> QED BY <3>1, <3>3 DEF PoolIInv
  <2>2. CASE SizerStep \/ TuneSlowly
    <3>1. SizerKeeps'
      BY <2>0, <2>2, SizerStepKeeps
    <3>2. CASE SendMeasurement \/ ReceiveRecommendation
      BY <2>0, <3>1, <3>2, MessagesKeepTuner DEF PoolIInv
    <3>3. CASE ~(SendMeasurement \/ ReceiveRecommendation)
      <4>1. UNCHANGED tunerVars
        BY <2>2, <3>3 DEF SizerStep, StartWorker, ScaleBack, OnTarget, WorkerStarted,
                          WorkerExited, IntervalPasses, TuneSlowly
      <4>2. TunerKeeps'
        BY <2>0, <4>1, TunerIsLeftAlone DEF tunerVars
      <4> QED BY <3>1, <4>2 DEF PoolIInv
    <3> QED BY <3>2, <3>3
  <2>3. CASE UNCHANGED ctVars
    <3>1. UNCHANGED tunerVars /\ UNCHANGED <<sizerVars, workerVars>>
      BY <2>3 DEF ctVars
    <3>2. TunerKeeps'
      BY <2>0, <3>1, TunerIsLeftAlone DEF tunerVars
    <3>3. SizerKeeps'
      BY <2>0, <3>1 DEF SizerKeeps, Unheard, sizerVars, workerVars
    <3> QED BY <3>2, <3>3 DEF PoolIInv
  <2> QED BY <2>1, <2>2, <2>3 DEF CTNext
<1> QED BY <1>1, <1>2, PTL DEF CTSpec

(* The pool keeps to its limits while it is sized by a search that ends at a *)
(* value that worked.                                                      *)
THEOREM PoolInvHolds == CTSpec => []PoolInv
<1>1. PoolIInv => PoolInv
  <2> SUFFICES ASSUME PoolIInv PROVE PoolInv
    OBVIOUS
  <2>0. TunerKeeps /\ SizerKeeps
    BY DEF PoolIInv
  <2>1. Hundred..TunerLimit \subseteq 1..(MaxMainPoolSize * Hundred)
    BY TunerLimitTypes DEF TunerLimit, Hundred
  <2>2. CTTypeOK
    BY <2>0, <2>1 DEF CTTypeOK, TunerKeeps, SizerKeeps
  <2>3. PoolWithinLimit
    BY <2>0, TunerLimitTypes DEF PoolWithinLimit, SizerKeeps
  <2>4. SettlesForWhatWorked
    BY <2>0 DEF SettlesForWhatWorked, TunerKeeps
  <2> QED BY <2>2, <2>3, <2>4 DEF PoolInv
<1> QED BY <1>1, PoolInvariant, PTL

-----------------------------------------------------------------------------
(* The pool and the pacer, side by side: neither runs away from its bounds *)
(* or loses count.                                                         *)
THEOREM LimitsInvHolds == LimitsSpec => []LimitsInv
<1>1. PoolInv /\ PacerInv => LimitsInv
  BY DEF LimitsInv
<1> QED BY <1>1, PoolInvHolds, PacerInvHolds, PTL DEF LimitsSpec
=============================================================================
