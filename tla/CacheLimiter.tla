---------------------------- MODULE CacheLimiter ----------------------------
(***************************************************************************)
(* common/cacheLimiter.go: the counter that bounds RAM and open files.     *)
(* TryAdd is not one step: it adds its count, looks at the sum, and when   *)
(* the sum is over the limit subtracts the count again.  Between the two   *)
(* atomic operations the counter shows an amount nobody was granted, which *)
(* other callers see.  Every client is a goroutine calling WaitUntilAdd    *)
(* and, when it is done with the resource, Remove.                         *)
(***************************************************************************)
EXTENDS Integers, FiniteSets

CONSTANTS Clients,      \* goroutines sharing the limiter
          Limit,        \* limit given to NewCacheLimiter
          Counts,       \* counts a client may ask for
          MaxRequests   \* bound: calls of WaitUntilAdd per client

ASSUME CacheLimiterAssumption ==
    /\ IsFiniteSet(Clients)
    /\ Limit \in Nat /\ MaxRequests \in Nat
    /\ Counts \subseteq 1..Limit

VARIABLES value,     \* the int64 every TryAdd and Remove updates atomically
          state,     \* where each client is in WaitUntilAdd
          count,     \* the count of the client's current call
          relaxed,   \* useRelaxedLimit() of its latest attempt
          requests   \* calls made so far, per client

clVars == <<value, state, count, relaxed, requests>>

StrictLimit == (Limit * 3) \div 4

LimitFor(useRelaxedLimit) == IF useRelaxedLimit THEN Limit ELSE StrictLimit

ClientsIn(st) == {c \in Clients : state[c] = st}

CLInit ==
    /\ value = 0
    /\ state = [c \in Clients |-> "idle"]
    /\ count = [c \in Clients |-> 0]
    /\ relaxed = [c \in Clients |-> FALSE]
    /\ requests = [c \in Clients |-> 0]

(* WaitUntilAdd is called with a count. *)
WaitUntilAdd(c, n) ==
    /\ state[c] = "idle" /\ requests[c] < MaxRequests
    /\ state' = [state EXCEPT ![c] = "waiting"]
    /\ count' = [count EXCEPT ![c] = n]
    /\ requests' = [requests EXCEPT ![c] = @ + 1]
    /\ UNCHANGED <<value, relaxed>>

MutTryAddSucceeds(c, useRelaxedLimit) ==  \* looks before adding
    /\ state[c] = "waiting"
    /\ value <= LimitFor(useRelaxedLimit)
    /\ value' = value + count[c]
    /\ state' = [state EXCEPT ![c] = "holding"]
    /\ relaxed' = [relaxed EXCEPT ![c] = useRelaxedLimit]
    /\ UNCHANGED <<count, requests>>

(* The first half of TryAdd, atomic.AddInt64, when the new sum fits. *)
TryAddSucceeds(c, useRelaxedLimit) ==
    /\ state[c] = "waiting"
    /\ value + count[c] <= LimitFor(useRelaxedLimit)
    /\ value' = value + count[c]
    /\ state' = [state EXCEPT ![c] = "holding"]
    /\ relaxed' = [relaxed EXCEPT ![c] = useRelaxedLimit]
    /\ UNCHANGED <<count, requests>>

(* The same AddInt64 when the new sum is over the limit: the count stays   *)
(* in the counter until it is subtracted back.                             *)
TryAddOverLimit(c, useRelaxedLimit) ==
    /\ state[c] = "waiting"
    /\ value + count[c] > LimitFor(useRelaxedLimit)
    /\ value' = value + count[c]
    /\ state' = [state EXCEPT ![c] = "backingOut"]
    /\ relaxed' = [relaxed EXCEPT ![c] = useRelaxedLimit]
    /\ UNCHANGED <<count, requests>>

MutSubtractBack(c) ==  \* forgets to subtract
    /\ state[c] = "backingOut"
    /\ state' = [state EXCEPT ![c] = "waiting"]
    /\ UNCHANGED <<value, count, relaxed, requests>>

(* The second AddInt64 of a failing TryAdd; WaitUntilAdd then sleeps for a *)
(* random while and loops.                                                 *)
SubtractBack(c) ==
    /\ state[c] = "backingOut"
    /\ value' = value - count[c]
    /\ state' = [state EXCEPT ![c] = "waiting"]
    /\ UNCHANGED <<count, relaxed, requests>>

(* ctx.Done() wins the select of WaitUntilAdd. *)
WaitCancelled(c) ==
    /\ state[c] = "waiting"
    /\ state' = [state EXCEPT ![c] = "idle"]
    /\ count' = [count EXCEPT ![c] = 0]
    /\ UNCHANGED <<value, relaxed, requests>>

RemoveCount(c) ==
    /\ state[c] = "holding"
    /\ value' = value - count[c]
    /\ state' = [state EXCEPT ![c] = "idle"]
    /\ count' = [count EXCEPT ![c] = 0]
    /\ UNCHANGED <<relaxed, requests>>

CLNext ==
    \E c \in Clients :
        \/ \E n \in Counts : WaitUntilAdd(c, n)
        \/ \E useRelaxedLimit \in BOOLEAN :
               TryAddSucceeds(c, useRelaxedLimit) \/ TryAddOverLimit(c, useRelaxedLimit)
        \/ SubtractBack(c)
        \/ WaitCancelled(c)
        \/ RemoveCount(c)

(* A holder gives the resource back and a failed attempt finishes.  The    *)
(* sleep of WaitUntilAdd is randomized "to prevent the establishment of    *)
(* repetitive oscillations", and is seconds long where a failing attempt   *)
(* is two adjacent instructions.  So however many attempts are failing at  *)
(* once, sooner or later one is taken back before another starts, and an   *)
(* attempt that would succeed again and again is made at such a moment.    *)
(* Without these strong fairness conditions two waiters can make each      *)
(* other fail for ever with nothing held.                                  *)
SubtractBackOneOf(n) ==
    /\ Cardinality(ClientsIn("backingOut")) = n
    /\ \E c \in Clients : SubtractBack(c)

CLFairness ==
    /\ \A n \in 1..Cardinality(Clients) : SF_clVars(SubtractBackOneOf(n))
    /\ \A c \in Clients :
           /\ WF_clVars(RemoveCount(c))
           /\ WF_clVars(SubtractBack(c))
           /\ SF_clVars(TryAddSucceeds(c, TRUE) \/ TryAddSucceeds(c, FALSE))

CLSpec == CLInit /\ [][CLNext]_clVars /\ CLFairness

-----------------------------------------------------------------------------
(* The sum of the counts of clients, as the number of the units they have. *)
Units(S) == UNION {{c} \X (1..count[c]) : c \in S}
SumOfCounts(S) == Cardinality(Units(S))
Held == SumOfCounts(ClientsIn("holding"))

CLTypeOK ==
    /\ value \in Nat
    /\ state \in [Clients -> {"idle", "waiting", "backingOut", "holding"}]
    /\ count \in [Clients -> Counts \cup {0}]
    /\ relaxed \in [Clients -> BOOLEAN]
    /\ requests \in [Clients -> 0..MaxRequests]

(* Whoever is let in finds no more held, itself included, than its limit,  *)
(* which leaves a strict caller's last quarter free, although it decides   *)
(* on a counter that failing attempts of others are changing (TryAdd).     *)
HeldWithinLimit ==
    [][\A c \in Clients :
          state[c] = "waiting" /\ state'[c] = "holding"
              => Held' <= IF relaxed'[c] THEN Limit ELSE StrictLimit]_clVars

(* The counter is what is held plus what failing attempts have not taken   *)
(* back yet: no Remove and no failing TryAdd loses or duplicates a count.  *)
ValueAccountsForEveryCount ==
    /\ CLTypeOK
    /\ value = Held + SumOfCounts(ClientsIn("backingOut"))

(* Every waiter is let in or gives up, since holders give back. *)
EveryWaiterIsServed ==
    \A c \in Clients : []<>(state[c] \in {"holding", "idle"})
=============================================================================
