-------------------------- MODULE DestinationProofs ---------------------------
(***************************************************************************)
(* Proofs about what a job does to what is at its destination.             *)
(*                                                                         *)
(* RemoveJob: for any tree of folders, any number of processes and every   *)
(* way in which the transfers and the attempts to delete a folder overlap, *)
(* what is reported as removed is gone, and only failures keep a folder.   *)
(*                                                                         *)
(* FolderCreation: for any tree, any destination and any number of         *)
(* processes, a succeeded transfer has its folders, and with               *)
(* --overwrite=false folders of others keep their properties.              *)
(*                                                                         *)
(* InPlaceSend: for every kind of destination, any number of chunks, any   *)
(* flush threshold and any number of attempts at a request, a file that is *)
(* written in place is whole or gone at the end.                           *)
(***************************************************************************)
EXTENDS RemoveJob, FolderCreation, InPlaceSend, FiniteSetTheorems, TLAPS

-----------------------------------------------------------------------------
(* RemoveJob.                                                              *)

(* RMTypeOK, but for the bound of the counts, and the rest of the types.   *)
TypedVars ==
    /\ location \in {"File", "Blob", "BlobFS"} /\ location \in Locations
    /\ exists \subseteq Transfers \cup {Root}
    /\ rmPc \in [Transfers -> {"todo", "request", "queued", "dropped", "recordDeleted", "try",
                              "forget", "report", "done"}]
    /\ at \in [Transfers -> Transfers]
    /\ rmStatus \in [Transfers -> {"Started", "Restarted", "Success", "Failed",
                                  "SkippedBlobHasSnapshots"}]
    /\ children \in [Tracked -> Nat]
    /\ tracked \subseteq Tracked /\ deleter \subseteq tracked /\ deleter \subseteq Folders

(* What a transfer does, by what it is, and which entry it is at.          *)
PlaceInv ==
    /\ location # "File" =>
         /\ \A d \in Folders : rmPc[d] = "done" /\ rmStatus[d] = "Success"
         /\ \A t \in Files : rmPc[t] \in {"todo", "queued", "dropped", "report", "done"}
         /\ tracked = {}
    /\ \A d \in Folders : rmPc[d] \notin {"queued", "dropped"}
    /\ \A t \in Files : rmPc[t] # "request"
    /\ \A t \in Transfers :
         /\ rmPc[t] \in {"todo", "request", "queued"} => at[t] = t
         /\ rmPc[t] \in {"try", "forget"} => at[t] \in Folders
         /\ at[t] # t => at[t] \in Folders /\ rmPc[at[t]] \notin {"todo", "request"}
    /\ \A d \in deleter : rmPc[d] \notin {"todo", "request"}

(* What is gone, and what is said of it. *)
GoneInv ==
    /\ Root \in exists /\ \A x \in Transfers \cap exists : Parent[x] \in exists
    /\ \A t \in Transfers : rmPc[t] \in {"forget", "recordDeleted"} => at[t] \notin exists
    /\ \A t \in Files : t \notin exists => rmStatus[t] = "Success"
    /\ \A t \in Files : rmStatus[t] = "Success" /\ location # "BlobFS" => t \notin exists
    /\ \A t \in Transfers :
         rmPc[t] \in {"todo", "request", "queued", "dropped"} => rmStatus[t] # "Success"

(* A folder that is still there after its request is known to the manager. *)
AskedInv ==
    location = "File" =>
        \A d \in Folders \cap exists :
            \/ d \in deleter
            \/ /\ rmPc[d] \in {"todo", "request", "done"}
               /\ rmStatus[d] = "Success" => d \in orphans

(* Children that count for their folder: of those this process has begun,  *)
(* all but the ones whose deletion has been recorded.                      *)
IsAt(t, c, where) == at[t] = c /\ rmPc[t] \in where

IsPending(c) ==
    /\ rmPc[c] # "todo"
    /\ \/ c \in exists \/ c \in deleter \/ rmPc[c] \in {"request", "queued"}
       \/ \E t \in Transfers : IsAt(t, c, {"try", "forget", "recordDeleted"})

Pending(d) == {c \in Transfers : Parent[c] = d /\ IsPending(c)}

(* Two goroutines may record the same child: the count is never too large. *)
CountInv ==
    /\ \A d \in Tracked : children[d] <= Cardinality(Pending(d))
    /\ \A d \in Tracked \ tracked : children[d] = 0

(* A folder that is waited for, is empty and has not failed, is about to   *)
(* be tried, or has a child that still counts.                             *)
Due(d) == d \in deleter /\ IsEmpty(d) /\ (d \in exists => d \notin faulty)

TriedInv ==
    \A d \in Folders :
        Due(d) => \/ \E t \in Transfers : IsAt(t, d, {"try", "forget"})
                  \/ Pending(d) # {}

ManagerInv == CountInv /\ TriedInv

RemInv == TypedVars /\ PlaceInv /\ GoneInv /\ AskedInv /\ ManagerInv

-----------------------------------------------------------------------------
(* Every step keeps the types.                                              *)
LEMMA TypeStep ==
    ASSUME TypedVars, PlaceInv, RMNext
    PROVE  TypedVars'
<1> USE TreeAssumption DEF Tracked, TypedVars, PlaceInv, planVars, managerVars, removalHistoryVars, Go
<1>1. ASSUME NEW t \in Transfers, StartCancelled(t) PROVE TypedVars'
  BY <1>1 DEF StartCancelled
<1>2. ASSUME NEW t \in Transfers, StartFileShareEntry(t) PROVE TypedVars'
  BY <1>2 DEF StartFileShareEntry
<1>3. ASSUME NEW t \in Transfers, StartOther(t) PROVE TypedVars'
  BY <1>3 DEF StartOther
<1>4. ASSUME NEW t \in Folders, RequestDeletion(t) PROVE TypedVars'
  BY <1>4 DEF RequestDeletion
<1>5. ASSUME NEW t \in Transfers, DropChunk(t) PROVE TypedVars'
  BY <1>5 DEF DropChunk
<1>6. ASSUME NEW t \in Transfers, DeleteChunk(t) PROVE TypedVars'
  BY <1>6 DEF DeleteChunk, StatusAfter
<1>7. ASSUME NEW t \in Transfers, RecordChildDeleted(t) PROVE TypedVars'
  <2>1. at[t] \in Transfers /\ Parent[at[t]] \in Tracked
    BY DEF Transfers
  <2>2. children[Parent[at[t]]] \in Nat /\ Clamp(children[Parent[at[t]]]) \in Nat
    BY <2>1 DEF Clamp
  <2>3. children' \in [Tracked -> Nat]
    BY <1>7, <2>1, <2>2 DEF RecordChildDeleted
  <2>4. Parent[at[t]] \in deleter => Parent[at[t]] \in Transfers
    BY DEF Transfers
  <2>5. at' \in [Transfers -> Transfers]
    BY <1>7, <2>4 DEF RecordChildDeleted
  <2> QED BY <1>7, <2>3, <2>5 DEF RecordChildDeleted
<1>8. ASSUME NEW t \in Transfers, TryDeletion(t) PROVE TypedVars'
  BY <1>8 DEF TryDeletion
<1>9. ASSUME NEW t \in Transfers, Forget(t) PROVE TypedVars'
  BY <1>9 DEF Forget
<1>10. ASSUME NEW t \in Transfers, Report(t) PROVE TypedVars'
  BY <1>10 DEF Report
<1>11. CASE CancelRemoval
  BY <1>11 DEF CancelRemoval
<1>12. CASE Restart
  BY <1>12 DEF Restart
<1> QED BY <1>1, <1>2, <1>3, <1>4, <1>5, <1>6, <1>7, <1>8, <1>9, <1>10, <1>11, <1>12
        DEF RMNext, RemovalStep

(* Every step keeps what a transfer does, and which entry it is at.         *)
LEMMA PlaceStep ==
    ASSUME TypedVars, PlaceInv, RMNext
    PROVE  PlaceInv'
<1> USE TreeAssumption DEF Tracked, Transfers, TypedVars, PlaceInv, planVars, managerVars, removalHistoryVars, Go
<1>1. ASSUME NEW t \in Transfers, StartCancelled(t) PROVE PlaceInv'
  BY <1>1 DEF StartCancelled
<1>2. ASSUME NEW t \in Transfers, StartFileShareEntry(t) PROVE PlaceInv'
  BY <1>2 DEF StartFileShareEntry
<1>3. ASSUME NEW t \in Transfers, StartOther(t) PROVE PlaceInv'
  BY <1>3 DEF StartOther
<1>4. ASSUME NEW t \in Folders, RequestDeletion(t) PROVE PlaceInv'
  BY <1>4 DEF RequestDeletion
<1>5. ASSUME NEW t \in Transfers, DropChunk(t) PROVE PlaceInv'
  BY <1>5 DEF DropChunk
<1>6. ASSUME NEW t \in Transfers, DeleteChunk(t) PROVE PlaceInv'
  BY <1>6 DEF DeleteChunk, StatusAfter
<1>7. ASSUME NEW t \in Transfers, RecordChildDeleted(t) PROVE PlaceInv'
  BY <1>7 DEF RecordChildDeleted
<1>8. ASSUME NEW t \in Transfers, TryDeletion(t) PROVE PlaceInv'
  BY <1>8 DEF TryDeletion
<1>9. ASSUME NEW t \in Transfers, Forget(t) PROVE PlaceInv'
  BY <1>9 DEF Forget
<1>10. ASSUME NEW t \in Transfers, Report(t) PROVE PlaceInv'
  BY <1>10 DEF Report
<1>11. CASE CancelRemoval
  BY <1>11 DEF CancelRemoval
<1>12. CASE Restart
  BY <1>12 DEF Restart
<1> QED BY <1>1, <1>2, <1>3, <1>4, <1>5, <1>6, <1>7, <1>8, <1>9, <1>10, <1>11, <1>12
        DEF RMNext, RemovalStep

(* Every step keeps what is gone, and what is said of it.                   *)
LEMMA GoneStep ==
    ASSUME TypedVars, PlaceInv, GoneInv, RMNext
    PROVE  GoneInv'
<1> USE TreeAssumption DEF Tracked, Transfers, TypedVars, PlaceInv, GoneInv, planVars, managerVars, removalHistoryVars, Go
<1>1. ASSUME NEW t \in Transfers, StartCancelled(t) PROVE GoneInv'
  BY <1>1 DEF StartCancelled
<1>2. ASSUME NEW t \in Transfers, StartFileShareEntry(t) PROVE GoneInv'
  BY <1>2 DEF StartFileShareEntry
<1>3. ASSUME NEW t \in Transfers, StartOther(t) PROVE GoneInv'
  BY <1>3 DEF StartOther
<1>4. ASSUME NEW t \in Folders, RequestDeletion(t) PROVE GoneInv'
  BY <1>4 DEF RequestDeletion
<1>5. ASSUME NEW t \in Transfers, DropChunk(t) PROVE GoneInv'
  BY <1>5 DEF DropChunk
<1>6. ASSUME NEW t \in Transfers, DeleteChunk(t) PROVE GoneInv'
  BY <1>6 DEF DeleteChunk, StatusAfter
<1>7. ASSUME NEW t \in Transfers, RecordChildDeleted(t) PROVE GoneInv'
  BY <1>7 DEF RecordChildDeleted
<1>8. ASSUME NEW t \in Transfers, TryDeletion(t) PROVE GoneInv'
  BY <1>8 DEF TryDeletion, IsEmpty
<1>9. ASSUME NEW t \in Transfers, Forget(t) PROVE GoneInv'
  BY <1>9 DEF Forget
<1>10. ASSUME NEW t \in Transfers, Report(t) PROVE GoneInv'
  BY <1>10 DEF Report
<1>11. CASE CancelRemoval
  BY <1>11 DEF CancelRemoval
<1>12. CASE Restart
  BY <1>12 DEF Restart
<1> QED BY <1>1, <1>2, <1>3, <1>4, <1>5, <1>6, <1>7, <1>8, <1>9, <1>10, <1>11, <1>12
        DEF RMNext, RemovalStep

(* Every step keeps that a folder that is left was asked for.               *)
LEMMA AskedStep ==
    ASSUME TypedVars, PlaceInv, GoneInv, AskedInv, RMNext
    PROVE  AskedInv'
<1> USE TreeAssumption DEF Tracked, Transfers, TypedVars, PlaceInv, GoneInv, AskedInv, planVars, managerVars, removalHistoryVars, Go
<1>1. ASSUME NEW t \in Transfers, StartCancelled(t) PROVE AskedInv'
  BY <1>1 DEF StartCancelled
<1>2. ASSUME NEW t \in Transfers, StartFileShareEntry(t) PROVE AskedInv'
  BY <1>2 DEF StartFileShareEntry
<1>3. ASSUME NEW t \in Transfers, StartOther(t) PROVE AskedInv'
  BY <1>3 DEF StartOther
<1>4. ASSUME NEW t \in Folders, RequestDeletion(t) PROVE AskedInv'
  BY <1>4 DEF RequestDeletion
<1>5. ASSUME NEW t \in Transfers, DropChunk(t) PROVE AskedInv'
  BY <1>5 DEF DropChunk
<1>6. ASSUME NEW t \in Transfers, DeleteChunk(t) PROVE AskedInv'
  BY <1>6 DEF DeleteChunk, StatusAfter
<1>7. ASSUME NEW t \in Transfers, RecordChildDeleted(t) PROVE AskedInv'
  BY <1>7 DEF RecordChildDeleted
<1>8. ASSUME NEW t \in Transfers, TryDeletion(t) PROVE AskedInv'
  BY <1>8 DEF TryDeletion
<1>9. ASSUME NEW t \in Transfers, Forget(t) PROVE AskedInv'
  BY <1>9 DEF Forget
<1>10. ASSUME NEW t \in Transfers, Report(t) PROVE AskedInv'
  BY <1>10 DEF Report
<1>11. CASE CancelRemoval
  BY <1>11 DEF CancelRemoval
<1>12. CASE Restart
  BY <1>12 DEF Restart
<1> QED BY <1>1, <1>2, <1>3, <1>4, <1>5, <1>6, <1>7, <1>8, <1>9, <1>10, <1>11, <1>12
        DEF RMNext, RemovalStep

-----------------------------------------------------------------------------
(* Counting entries of the tree.                                           *)
LEMMA Counting ==
    ASSUME NEW S \in SUBSET Transfers, NEW T \in SUBSET Transfers
    PROVE  /\ Cardinality(S) \in 0 .. Cardinality(Transfers)
           /\ Cardinality(S) \in Nat /\ Cardinality(Transfers) \in Nat
           /\ S \subseteq T => Cardinality(S) <= Cardinality(T)
           /\ \A c \in T : S \subseteq T \ {c} => Cardinality(S) + 1 <= Cardinality(T)
           /\ \A c \in S : S \ {c} \subseteq T => Cardinality(S) <= Cardinality(T) + 1
<1>1. \A U \in SUBSET Transfers : IsFiniteSet(U) /\ Cardinality(U) \in Nat
  BY TreeAssumption, FS_Subset, FS_CardinalityType
<1>2. \A U, V \in SUBSET Transfers : U \subseteq V => Cardinality(U) <= Cardinality(V)
  BY <1>1, FS_Subset
<1>3. ASSUME NEW U \in SUBSET Transfers, NEW c \in U
      PROVE  Cardinality(U \ {c}) = Cardinality(U) - 1
  BY <1>1, FS_RemoveElement
<1>4. \A c \in T : S \subseteq T \ {c} => Cardinality(S) + 1 <= Cardinality(T)
  <2> SUFFICES ASSUME NEW c \in T, S \subseteq T \ {c}
               PROVE  Cardinality(S) + 1 <= Cardinality(T)
    OBVIOUS
  <2>1. Cardinality(T \ {c}) = Cardinality(T) - 1 /\ Cardinality(S) <= Cardinality(T \ {c})
    BY <1>2, <1>3
  <2> QED BY <1>1, <2>1
<1>5. \A c \in S : S \ {c} \subseteq T => Cardinality(S) <= Cardinality(T) + 1
  <2> SUFFICES ASSUME NEW c \in S, S \ {c} \subseteq T
               PROVE  Cardinality(S) <= Cardinality(T) + 1
    OBVIOUS
  <2>1. Cardinality(S \ {c}) = Cardinality(S) - 1 /\ Cardinality(S \ {c}) <= Cardinality(T)
    BY <1>2, <1>3
  <2> QED BY <1>1, <2>1
<1> QED BY <1>1, <1>2, <1>4, <1>5

(* A child counts until its deletion has been recorded.                    *)
LEMMA PendingStays ==
    ASSUME TypedVars, PlaceInv, GoneInv, location = "File",
           NEW t \in Transfers, RemovalStep(t),
           NEW c \in Transfers, IsPending(c)
    PROVE  IsPending(c)' \/ (RecordChildDeleted(t) /\ c = at[t])
<1> USE TreeAssumption DEF Transfers, TypedVars, PlaceInv, GoneInv, IsPending, IsAt, planVars,
        managerVars, removalHistoryVars, Go
<1>1. CASE StartCancelled(t)
  BY <1>1 DEF StartCancelled
<1>2. CASE StartFileShareEntry(t)
  BY <1>2 DEF StartFileShareEntry
<1>3. CASE StartOther(t)
  BY <1>3 DEF StartOther
<1>4. CASE t \in Folders /\ RequestDeletion(t)
  BY <1>4 DEF RequestDeletion
<1>5. CASE DropChunk(t)
  BY <1>5 DEF DropChunk
<1>6. CASE DeleteChunk(t)
  <2>1. t \in Files /\ at[t] = t /\ t \in exists
    BY <1>6 DEF DeleteChunk
  <2>2. c # t => IsPending(c)'
    BY <1>6, <2>1 DEF DeleteChunk
  <2>3. t \notin exists' => rmPc'[t] = "recordDeleted"
    BY <1>6, <2>1 DEF DeleteChunk, StatusAfter
  <2>4. at'[t] = t /\ rmPc'[t] # "todo"
    BY <1>6, <2>1 DEF DeleteChunk
  <2> QED BY <2>2, <2>3, <2>4
<1>7. CASE RecordChildDeleted(t)
  BY <1>7 DEF RecordChildDeleted
<1>8. CASE TryDeletion(t)
  BY <1>8 DEF TryDeletion, IsEmpty
<1>9. CASE Forget(t)
  BY <1>9 DEF Forget
<1>10. CASE Report(t)
  BY <1>10 DEF Report
<1> QED BY <1>1, <1>2, <1>3, <1>4, <1>5, <1>6, <1>7, <1>8, <1>9, <1>10 DEF RemovalStep

(* Every step keeps that a count is of children that are pending.          *)
LEMMA CountStep ==
    ASSUME TypedVars, PlaceInv, GoneInv, CountInv, RMNext
    PROVE  CountInv'
<1> USE TreeAssumption DEF Tracked, Transfers, TypedVars
<1>0. \A d \in Tracked :
        /\ Pending(d) \in SUBSET Transfers /\ Pending(d)' \in SUBSET Transfers
        /\ Cardinality(Pending(d)) \in Nat /\ Cardinality(Pending(d)') \in Nat
  <2>1. \A d \in Tracked : Pending(d) \in SUBSET Transfers /\ Pending(d)' \in SUBSET Transfers
    BY DEF Pending
  <2> QED BY <2>1, Counting
<1>1. ASSUME NEW t \in Transfers, RemovalStep(t), location = "File", ~RecordChildDeleted(t)
      PROVE  CountInv'
  <2>1. \A d \in Tracked : Pending(d) \subseteq Pending(d)'
    BY <1>1, PendingStays DEF Pending
  <2>2. \A d \in Tracked : Cardinality(Pending(d)) <= Cardinality(Pending(d)')
    BY <1>0, <2>1, Counting
  <2>3. CASE StartFileShareEntry(t)
    <3> DEFINE folder == Parent[t]
    <3>1. /\ folder \in Tracked /\ children'[folder] = children[folder] + 1
          /\ tracked' = tracked \cup {folder}
          /\ \A d \in Tracked \ {folder} : children'[d] = children[d]
      BY <2>3 DEF StartFileShareEntry
    <3>2. t \in Pending(folder)' /\ t \notin Pending(folder)
      BY <2>3 DEF StartFileShareEntry, Pending, IsPending, Go, PlaceInv
    <3>3. Cardinality(Pending(folder)) + 1 <= Cardinality(Pending(folder)')
      <4>1. Pending(folder) \subseteq Pending(folder)' \ {t}
        BY <2>1, <3>1, <3>2
      <4> QED BY <1>0, <3>1, <3>2, <4>1, Counting
    <3>4. children'[folder] <= Cardinality(Pending(folder)')
      BY <1>0, <3>1, <3>3 DEF CountInv
    <3>5. \A d \in Tracked : children'[d] <= Cardinality(Pending(d)')
      BY <1>0, <2>2, <3>1, <3>4 DEF CountInv
    <3> QED BY <3>1, <3>5 DEF CountInv
  <2>4. CASE ~StartFileShareEntry(t)
    <3>1. /\ \A d \in Tracked : children'[d] \in {0, children[d]}
          /\ \A d \in Tracked \ tracked' : d \in tracked => children'[d] = 0
      BY <1>1, <2>4 DEF RemovalStep, StartCancelled, StartOther, RequestDeletion, DropChunk,
             DeleteChunk, TryDeletion, Forget, Report, managerVars, PlaceInv
    <3>2. \A d \in Tracked : children'[d] <= Cardinality(Pending(d)')
      BY <1>0, <2>2, <3>1 DEF CountInv
    <3> QED BY <3>1, <3>2 DEF CountInv
  <2> QED BY <2>3, <2>4
<1>2. ASSUME NEW t \in Transfers, RecordChildDeleted(t), location = "File"
      PROVE  CountInv'
  <2>0. at[t] \in Transfers /\ Parent[at[t]] \in Tracked
    OBVIOUS
  <2> PICK folder \in Tracked : folder = Parent[at[t]]
    BY <2>0
  <2>1. folder \in Tracked /\ at[t] \in Transfers /\ tracked' = tracked
    BY <1>2 DEF RecordChildDeleted
  <2>2. \A d \in Tracked : Pending(d) \ {at[t]} \subseteq Pending(d)'
    BY <1>2, PendingStays DEF Pending, RemovalStep
  <2>3. \A d \in Tracked \ {folder} : Pending(d) \subseteq Pending(d)'
    BY <2>2 DEF Pending
  <2>4. \A d \in Tracked \ {folder} : Cardinality(Pending(d)) <= Cardinality(Pending(d)')
    BY <1>0, <2>3, Counting
  <2>5. Cardinality(Pending(folder)) <= Cardinality(Pending(folder)') + 1
    <3>1. CASE at[t] \in Pending(folder)
      BY <1>0, <2>1, <2>2, <3>1, Counting
    <3>2. CASE at[t] \notin Pending(folder)
      <4>1. Pending(folder) \subseteq Pending(folder)'
        BY <2>1, <2>2, <3>2
      <4>2. Cardinality(Pending(folder)) <= Cardinality(Pending(folder)')
        BY <1>0, <2>1, <4>1, Counting
      <4> QED BY <1>0, <2>1, <4>2
    <3> QED BY <3>1, <3>2
  <2>6. /\ \A d \in Tracked \ {folder} : children'[d] = children[d]
        /\ folder \in tracked => children'[folder] = Clamp(children[folder])
        /\ folder \notin tracked => children'[folder] = children[folder]
    BY <1>2, <2>1 DEF RecordChildDeleted
  <2>7. children'[folder] <= Cardinality(Pending(folder)')
    BY <1>0, <2>1, <2>5, <2>6 DEF CountInv, Clamp
  <2>8. \A d \in Tracked : children'[d] <= Cardinality(Pending(d)')
    BY <1>0, <2>4, <2>6, <2>7 DEF CountInv
  <2>9. \A d \in Tracked \ tracked' : children'[d] = 0
    BY <2>1, <2>6 DEF CountInv
  <2> QED BY <2>8, <2>9 DEF CountInv
<1>3. ASSUME NEW t \in Transfers, RemovalStep(t), location # "File"
      PROVE  CountInv'
  <2>1. tracked' = tracked /\ children' = children
    BY <1>3 DEF RemovalStep, StartCancelled, StartFileShareEntry, StartOther, RequestDeletion,
           DropChunk, DeleteChunk, RecordChildDeleted, TryDeletion, Forget, Report, managerVars,
           PlaceInv
  <2>2. \A d \in Tracked : children'[d] = 0
    BY <1>3, <2>1 DEF CountInv, PlaceInv
  <2> QED BY <1>0, <2>2 DEF CountInv
<1>4. CASE CancelRemoval
  <2>1. \A d \in Tracked : Pending(d)' = Pending(d)
    BY <1>4 DEF CancelRemoval, Pending, IsPending, IsAt, managerVars
  <2> QED BY <1>4, <2>1 DEF CancelRemoval, CountInv, managerVars
<1>5. CASE Restart
  <2>1. \A d \in Tracked : children'[d] = 0
    BY <1>5 DEF Restart
  <2> QED BY <1>0, <2>1 DEF CountInv
<1> QED BY <1>1, <1>2, <1>3, <1>4, <1>5 DEF RMNext, RemovalStep

(* Every step keeps that an empty folder will be tried.                    *)
LEMMA TriedStep ==
    ASSUME TypedVars, PlaceInv, GoneInv, CountInv, TriedInv, RMNext
    PROVE  TriedInv'
<1> USE TreeAssumption DEF Tracked, Transfers, TypedVars
<1> DEFINE AboutToTry(d) == \E t \in Transfers : IsAt(t, d, {"try", "forget"})
<1>1. ASSUME NEW t \in Transfers, RemovalStep(t), location = "File", NEW d \in Folders, Due(d)'
      PROVE  AboutToTry(d)' \/ Pending(d)' # {}
  <2>1. ~RecordChildDeleted(t) /\ Pending(d) # {} => Pending(d)' # {}
    BY <1>1, PendingStays DEF Pending
  <2>2. CASE RequestDeletion(t) /\ d = t
    <3>1. CASE children[d] = 0
      BY <2>2, <3>1 DEF RequestDeletion, Go, IsAt, PlaceInv
    <3>2. CASE children[d] # 0
      <4>1. Pending(d) # {}
        <5>1. children[d] > 0 /\ children[d] <= Cardinality(Pending(d))
          BY <3>2 DEF CountInv
        <5> QED BY SMTT(30), <5>1, FS_EmptySet
      <4>2. ~RecordChildDeleted(t)
        BY <2>2 DEF RequestDeletion, RecordChildDeleted
      <4> QED BY <2>1, <4>1, <4>2
    <3> QED BY <3>1, <3>2
  <2>3. CASE DeleteChunk(t)
    <3>1. CASE IsEmpty(d)
      <4>1. Due(d)
        BY <1>1, <2>3, <3>1 DEF Due, DeleteChunk, managerVars, removalHistoryVars, PlaceInv
      <4>2. AboutToTry(d) => AboutToTry(d)'
        BY <2>3 DEF DeleteChunk, IsAt, Go
      <4>3. ~RecordChildDeleted(t)
        BY <2>3 DEF DeleteChunk, RecordChildDeleted
      <4> QED BY <2>1, <4>1, <4>2, <4>3 DEF TriedInv
    <3>2. CASE ~IsEmpty(d)
      <4>1. Parent[t] = d /\ t \in exists /\ t \notin exists'
        BY <1>1, <2>3, <3>2 DEF Due, IsEmpty, DeleteChunk
      <4>2. rmPc'[t] = "recordDeleted" /\ at'[t] = t
        BY <1>1, <2>3, <4>1 DEF DeleteChunk, StatusAfter, Go, PlaceInv
      <4> QED BY <4>1, <4>2 DEF Pending, IsPending, IsAt
    <3> QED BY <3>1, <3>2
  <2>4. CASE TryDeletion(t)
    <3>1. CASE at[t] = d
      BY <1>1, <2>4, <3>1 DEF TryDeletion, Due, IsEmpty, IsAt, Go, managerVars
    <3>2. CASE at[t] # d /\ IsEmpty(d)
      <4>1. Due(d)
        BY <1>1, <2>4, <3>2 DEF Due, TryDeletion, managerVars
      <4>2. AboutToTry(d) => AboutToTry(d)'
        BY <2>4, <3>2 DEF TryDeletion, IsAt, Go
      <4>3. ~RecordChildDeleted(t)
        BY <2>4 DEF TryDeletion, RecordChildDeleted
      <4> QED BY <2>1, <4>1, <4>2, <4>3 DEF TriedInv
    <3>3. CASE at[t] # d /\ ~IsEmpty(d)
      <4>1. Parent[at[t]] = d /\ at[t] \in exists /\ at[t] \notin exists'
        BY <1>1, <2>4, <3>3 DEF Due, IsEmpty, TryDeletion
      <4>2. rmPc'[t] = "forget" /\ at'[t] = at[t] /\ rmPc'[at[t]] # "todo"
        BY <2>4, <4>1 DEF TryDeletion, Go, PlaceInv
      <4> QED BY <4>1, <4>2 DEF Pending, IsPending, IsAt
    <3> QED BY <3>1, <3>2, <3>3
  <2>5. CASE RecordChildDeleted(t)
    <3> DEFINE c == at[t]
               folder == Parent[c]
    <3>1. Due(d) /\ folder \in Tracked /\ (d \in Transfers => d \in Tracked)
      BY <1>1, <2>5 DEF Due, IsEmpty, RecordChildDeleted, removalHistoryVars
    <3>2. AboutToTry(d) => AboutToTry(d)'
      BY <2>5 DEF RecordChildDeleted, IsAt, Go
    <3>3. CASE folder # d
      <4>1. Pending(d) \subseteq Pending(d)'
        BY <1>1, <3>3, PendingStays DEF Pending
      <4> QED BY <3>1, <3>2, <4>1 DEF TriedInv
    <3>4. CASE folder = d /\ Clamp(children[d]) = 0
      <4>1. d \in deleter /\ d \in tracked
        BY <3>1 DEF Due
      <4>2. rmPc'[t] = "try" /\ at'[t] = d
        BY <2>5, <3>4, <4>1 DEF RecordChildDeleted, Go
      <4> QED BY <4>2 DEF IsAt
    <3>5. CASE folder = d /\ Clamp(children[d]) # 0
      <4>1. children[d] > 1 /\ children[d] <= Cardinality(Pending(d))
        BY <3>1, <3>5 DEF Clamp, CountInv
      <4>2. Pending(d) \in SUBSET Transfers /\ Cardinality(Pending(d)) \in Nat
        <5>1. Pending(d) \in SUBSET Transfers
          BY DEF Pending
        <5> QED BY <5>1, Counting
      <4>3. PICK other \in Pending(d) : other # c
        <5>1. ~(Pending(d) \subseteq {c})
          <6> SUFFICES ASSUME Pending(d) \subseteq {c} PROVE FALSE
            OBVIOUS
          <6>1. Cardinality(Pending(d)) <= 1
            <7>1. Cardinality({c}) = 1
              BY FS_Singleton
            <7>2. {c} \in SUBSET Transfers
              OBVIOUS
            <7> QED BY <4>2, <7>1, <7>2, Counting
          <6> QED BY <4>1, <4>2, <6>1
        <5> QED BY <5>1
      <4> QED BY <1>1, <4>3, PendingStays DEF Pending
    <3> QED BY <3>3, <3>4, <3>5
  <2>6. CASE Forget(t)
    <3>1. d # at[t] /\ Due(d)
      BY <1>1, <2>6 DEF Forget, Due, IsEmpty, removalHistoryVars
    <3>2. AboutToTry(d) => AboutToTry(d)'
      BY <2>6, <3>1 DEF Forget, IsAt, Go
    <3>3. ~RecordChildDeleted(t)
      BY <2>6 DEF Forget, RecordChildDeleted
    <3> QED BY <2>1, <3>1, <3>2, <3>3 DEF TriedInv
  <2>7. CASE \/ StartCancelled(t) \/ StartFileShareEntry(t) \/ StartOther(t)
             \/ (RequestDeletion(t) /\ d # t) \/ DropChunk(t) \/ Report(t)
    <3>1. Due(d)
      BY <1>1, <2>7 DEF Due, IsEmpty, StartCancelled, StartFileShareEntry, StartOther,
             RequestDeletion, DropChunk, Report, managerVars, removalHistoryVars
    <3>2. AboutToTry(d) => AboutToTry(d)'
      BY <2>7 DEF IsAt, StartCancelled, StartFileShareEntry, StartOther, RequestDeletion,
             DropChunk, Report, Go
    <3>3. ~RecordChildDeleted(t)
      BY <2>7 DEF StartCancelled, StartFileShareEntry, StartOther, RequestDeletion, DropChunk,
             Report, RecordChildDeleted
    <3> QED BY <2>1, <3>1, <3>2, <3>3 DEF TriedInv
  <2> QED BY <1>1, <2>2, <2>3, <2>4, <2>5, <2>6, <2>7 DEF RemovalStep
<1>2. ASSUME NEW t \in Transfers, RemovalStep(t), location # "File", NEW d \in Folders
      PROVE  ~Due(d)'
  BY <1>2 DEF RemovalStep, StartCancelled, StartFileShareEntry, StartOther, RequestDeletion,
         DropChunk, DeleteChunk, RecordChildDeleted, TryDeletion, Forget, Report, managerVars,
         PlaceInv, Due
<1>3. CASE CancelRemoval
  BY <1>3 DEF CancelRemoval, TriedInv, Due, IsEmpty, Pending, IsPending, IsAt, managerVars,
         removalHistoryVars
<1>4. CASE Restart
  BY <1>4 DEF Restart, TriedInv, Due
<1> QED BY <1>1, <1>2, <1>3, <1>4 DEF RMNext, TriedInv

(* The inductive invariant of a removal holds initially.                   *)
LEMMA RemInit == RMInit => RemInv
<1> SUFFICES ASSUME RMInit PROVE RemInv
  OBVIOUS
<1> USE TreeAssumption DEF RMInit, Tracked, Transfers
<1>1. TypedVars /\ PlaceInv /\ GoneInv /\ AskedInv
  BY DEF TypedVars, PlaceInv, GoneInv, AskedInv
<1>2. \A d \in Tracked : Cardinality(Pending(d)) \in Nat
  <2>1. \A d \in Tracked : Pending(d) \in SUBSET Transfers
    BY DEF Pending
  <2> QED BY <2>1, Counting
<1>3. CountInv
  BY <1>2 DEF CountInv
<1>4. TriedInv
  BY DEF TriedInv, Due
<1> QED BY <1>1, <1>3, <1>4 DEF RemInv, ManagerInv

(* Any step keeps it.                                                      *)
LEMMA RemStep == RemInv /\ [RMNext]_rmVars => RemInv'
<1> SUFFICES ASSUME RemInv, [RMNext]_rmVars PROVE RemInv'
  OBVIOUS
<1>1. CASE RMNext
  BY <1>1, TypeStep, PlaceStep, GoneStep, AskedStep, CountStep, TriedStep DEF RemInv, ManagerInv
<1>2. CASE UNCHANGED rmVars
  BY <1>2 DEF rmVars, planVars, managerVars, removalHistoryVars, RemInv, TypedVars, PlaceInv,
         GoneInv, AskedInv, ManagerInv, CountInv, TriedInv, Due, IsEmpty, Pending, IsPending, IsAt
<1> QED BY <1>1, <1>2

(* So it holds throughout.                                                 *)
LEMMA RemAlways == RMSpec => []RemInv
BY RemInit, RemStep, PTL DEF RMSpec

-----------------------------------------------------------------------------
(* The function Below exists: what is below x is what is in every set that *)
(* has x and, with a folder, what is in it.                                *)
LEMMA BelowEquation ==
    Below = [x \in Transfers \cup {Root} |->
                {x} \cup UNION {Below[y] : y \in {z \in Transfers : Parent[z] = x}}]
<1> DEFINE Entries == Transfers \cup {Root}
           Closed(S) == \A y \in S : \A z \in Transfers : Parent[z] = y => z \in S
           B(x) == {w \in Entries : \A S \in SUBSET Entries : x \in S /\ Closed(S) => w \in S}
           F == [x \in Entries |-> B(x)]
           R(x) == {x} \cup UNION {F[y] : y \in {z \in Transfers : Parent[z] = x}}
<1>1. ASSUME NEW x \in Entries PROVE B(x) = R(x)
  <2>1. \A y \in Transfers : F[y] = B(y)
    OBVIOUS
  <2>2. R(x) \subseteq B(x)
    <3>1. x \in B(x)
      OBVIOUS
    <3>2. ASSUME NEW y \in Transfers, Parent[y] = x PROVE B(y) \subseteq B(x)
      BY <3>2
    <3> QED BY <2>1, <3>1, <3>2
  <2>3. R(x) \in SUBSET Entries /\ x \in R(x)
    BY <2>1
  <2>4. Closed(R(x))
    <3>1. ASSUME NEW u \in R(x), NEW z \in Transfers, Parent[z] = u PROVE z \in R(x)
      <4>1. CASE u = x
        <5>1. z \in F[z]
          BY <2>1
        <5> QED BY <3>1, <4>1, <5>1
      <4>2. CASE u # x
        <5>1. PICK y \in Transfers : Parent[y] = x /\ u \in F[y]
          BY <4>2
        <5>2. z \in F[y]
          BY <2>1, <3>1, <5>1
        <5> QED BY <5>1, <5>2
      <4> QED BY <4>1, <4>2
    <3> QED BY <3>1
  <2>5. B(x) \subseteq R(x)
    <3> HIDE DEF R, Closed
    <3> QED BY <2>3, <2>4
  <2> QED BY <2>2, <2>5
<1>2. F = [x \in Entries |-> R(x)]
  <2> HIDE DEF R, B
  <2> QED BY <1>1
<1> HIDE DEF F
<1>3. \E f : f = [x \in Transfers \cup {Root} |->
                    {x} \cup UNION {f[y] : y \in {z \in Transfers : Parent[z] = x}}]
  BY <1>2
<1> QED BY <1>3, Zenon DEF Below

(* What is in something below d is below d.                                *)
LEMMA BelowIsClosed ==
    ASSUME NEW d \in Transfers
    PROVE  /\ d \in Below[d]
           /\ \A y \in Below[d] : \A z \in Transfers : Parent[z] = y => z \in Below[d]
<1> DEFINE Open(x) == \E y \in Below[x] : \E z \in Transfers : Parent[z] = y /\ z \notin Below[x]
           Bad == {x \in Transfers : Open(x)}
<1>1. \A x \in Transfers :
        Below[x] = {x} \cup UNION {Below[y] : y \in {z \in Transfers : Parent[z] = x}}
  BY BelowEquation
<1>2. \A x \in Transfers : x \in Below[x]
  BY <1>1
<1>3. Bad = {}
  <2> SUFFICES ASSUME Bad # {} PROVE FALSE
    OBVIOUS
  <2>1. PICK x \in Bad : \A y \in Bad : Parent[y] # x
    BY TreeAssumption
  <2>2. PICK y \in Below[x], z \in Transfers : Parent[z] = y /\ z \notin Below[x]
    BY <2>1
  <2>3. \A u \in Transfers : Parent[u] = x => Below[u] \subseteq Below[x]
    BY <1>1, <2>1
  <2>4. CASE y = x
    BY <1>2, <2>2, <2>3, <2>4
  <2>5. CASE y # x
    <3>1. PICK u \in Transfers : Parent[u] = x /\ y \in Below[u]
      BY <1>1, <2>1, <2>2, <2>5
    <3>2. z \in Below[u]
      BY <2>1, <2>2, <3>1
    <3> QED BY <2>2, <2>3, <3>1, <3>2
  <2> QED BY <2>4, <2>5
<1> QED BY <1>2, <1>3

(* At the end no deletion of an empty folder is still to be tried.         *)
LEMMA NoneIsDue ==
    ASSUME RemInv, Ended
    PROVE  \A d \in Folders : ~Due(d)
<1> DEFINE AllDue == {d \in Folders : Due(d)}
<1> SUFFICES ASSUME AllDue # {} PROVE FALSE
  OBVIOUS
<1>1. PICK d \in AllDue : \A y \in AllDue : Parent[y] # d
  <2>1. AllDue \in SUBSET Transfers
    BY DEF Transfers
  <2> HIDE DEF AllDue
  <2> QED BY <2>1, TreeAssumption
<1>2. \A t \in Transfers : rmPc[t] \notin {"request", "queued", "try", "forget", "recordDeleted"}
  BY DEF Ended
<1>3. PICK c \in Pending(d) : TRUE
  BY <1>1, <1>2 DEF RemInv, ManagerInv, TriedInv, IsAt
<1>4. c \in Transfers /\ Parent[c] = d /\ c \notin exists /\ c \in deleter
  BY <1>1, <1>2, <1>3 DEF Pending, IsPending, IsAt, Due, IsEmpty
<1>5. c \in Folders /\ IsEmpty(c)
  BY <1>4 DEF RemInv, TypedVars, GoneInv, IsEmpty
<1>6. Due(c)
  BY <1>4, <1>5 DEF Due
<1> QED BY <1>1, <1>4, <1>5, <1>6

-----------------------------------------------------------------------------
(* The type invariant, with every count of children at most the number of  *)
(* transfers: RecordChildExists is never repeated without its counterpart. *)
THEOREM TypeCorrect == RMSpec => []RMTypeOK
<1>1. RemInv => RMTypeOK
  <2> SUFFICES ASSUME RemInv PROVE RMTypeOK
    OBVIOUS
  <2> USE DEF RemInv, TypedVars, ManagerInv, CountInv
  <2>1. \A d \in Tracked : Cardinality(Pending(d)) \in 0 .. Cardinality(Transfers)
    <3>1. \A d \in Tracked : Pending(d) \in SUBSET Transfers
      BY DEF Pending
    <3> QED BY <3>1, Counting
  <2>2. Cardinality(Transfers) \in Nat
    BY TreeAssumption, FS_CardinalityType
  <2>3. \A d \in Tracked : children[d] \in 0 .. Cardinality(Transfers)
    BY <2>1, <2>2
  <2>4. children \in [Tracked -> 0 .. Cardinality(Transfers)]
    BY <2>3
  <2> QED BY <2>4 DEF RMTypeOK
<1> QED BY <1>1, RemAlways, PTL

(* With it a folder that is kept at the end has a failure below it.        *)
LEMMA FoldersAtTheEnd == RemInv => OnlyFailuresKeepAFolder
<1> SUFFICES ASSUME RemInv, Ended, location = "File", NEW d \in Folders \cap exists
             PROVE  \E x \in Below[d] \cap exists :
                        x \in faulty \cup orphans \/ rmStatus[x] # "Success"
  BY DEF OnlyFailuresKeepAFolder
<1> DEFINE Left == {x \in Transfers : x \in Below[d] /\ x \in exists}
<1>1. d \in Transfers
  BY DEF Transfers
<1>2. Left # {}
  BY <1>1, BelowIsClosed
<1>3. PICK x \in Left : \A y \in Left : Parent[y] # x
  <2> HIDE DEF Left
  <2> QED BY <1>2, TreeAssumption DEF Left
<1>4. IsEmpty(x)
  BY <1>1, <1>3, BelowIsClosed DEF IsEmpty
<1>5. CASE x \in Files
  BY <1>3, <1>5 DEF RemInv, GoneInv
<1>6. CASE x \in Folders
  <2>1. ~Due(x)
    BY <1>6, NoneIsDue
  <2>2. x \in faulty \/ x \notin deleter
    BY <1>3, <1>4, <2>1 DEF Due
  <2>3. x \in deleter \/ (rmStatus[x] = "Success" => x \in orphans)
    BY <1>3, <1>6 DEF RemInv, AskedInv
  <2> QED BY <1>3, <2>2, <2>3
<1> QED BY <1>3, <1>5, <1>6 DEF Transfers

(* However attempts overlap and processes end, a folder of an Azure Files  *)
(* share that is left at the end has something in it that could not be     *)
(* removed: folderDeletionManager tries every folder that becomes empty.   *)
THEOREM OnlyFailuresKeepFolders == RMSpec => []OnlyFailuresKeepAFolder
BY FoldersAtTheEnd, RemAlways, PTL

(* What the remove job promises of shares and blob containers: the types,  *)
(* the folders that are left, and that a file or blob whose transfer is a  *)
(* success is gone.  (For ADLS transferDone takes an error without a       *)
(* response for a success.)                                                *)
THEOREM RemovalInvHolds ==
    ASSUME "BlobFS" \notin Locations
    PROVE  RMSpec => []RemovalInv
<1>1. RemInv => SuccessMeansRemoved
  BY DEF RemInv, TypedVars, GoneInv, SuccessMeansRemoved
<1> QED BY <1>1, RemAlways, TypeCorrect, OnlyFailuresKeepFolders, PTL DEF RemovalInv

-----------------------------------------------------------------------------
(* FolderCreation.                                                         *)

(* Where a transfer is on its way to the folder it needs.                  *)
Place(t) ==
    /\ fcPc[t] \in {"stat", "create", "mark"} => fcAt[t] \in PathTo(Needs(t))
    /\ fcPc[t] = "mark" => mu = t
    /\ fcPc[t] = "mark" /\ dest # "blob" => fcAt[t] \in there
    /\ fcPc[t] = "properties" => t \in CopyFolders
    /\ fcPc[t] = "probe" => dest = "blob"
    /\ dest = "blob" => fcPc[t] # "stat"
    /\ dest = "blob" /\ fcPc[t] \in {"probe", "create", "mark"} =>
           t \in CopyFolders /\ fcAt[t] = t
    /\ dest = "blob" /\ fcPc[t] = "create" => t \notin there
    /\ dest = "blob" /\ fcPc[t] = "properties" =>
           fcStatus[t] = "FolderCreated" \/ Locked(fcStatus[t])

(* When the folder it needs is there.                                      *)
Arrived(t) ==
    dest # "blob" =>
        /\ fcPc[t] = "properties" => Needs(t) \in there
        /\ fcPc[t] \in {"complete", "finish"} /\ ~jobStopped =>
               Needs(t) \in there \cup {Top} \/ Locked(fcStatus[t])
        /\ fcStatus[t] = "Success" => Needs(t) \in there \cup {Top}

(* What is above a folder that exists exists too.                          *)
PathInv ==
    /\ dest # "blob" => HasItsParents(there)
    /\ \A t \in Copies : Place(t) /\ Arrived(t)

(* What the scheduler has not come to is as the plan files left it, and a  *)
(* folder is registered while its transfer is at work.                     *)
TrackedInv ==
    /\ \A i \in DOMAIN Schedule : i > scheduled => fcPc[Schedule[i]] = "planned"
    /\ \A t \in Copies : fcPc[t] = "planned" => ~Locked(fcStatus[t]) \/ fcStatus[t] = "Success"
    /\ \A d \in CopyFolders : fcPc[d] \notin {"planned", "done"} => d \in contents

(* Somebody has made d and is about to write that down.                    *)
MarkedAt(d) == \E t \in Copies : fcPc[t] = "mark" /\ fcAt[t] = d

(* A folder that exists is somebody else's, or forgotten, or has the mark, *)
(* or is about to get it.                                                  *)
AccountedInv ==
    \A d \in there :
        \/ d \in before \cup forgotten \cup unregisteredButCreated
        \/ fcStatus[d] \in {"FolderCreated", "Success"}
        \/ MarkedAt(d)

(* With --overwrite=false nothing happens to the folders of others.        *)
ForeignInv ==
    overwrite = "false" =>
        \A d \in before :
            /\ d \in there /\ d \notin withProperties
            /\ fcStatus[d] # "FolderCreated" /\ d \notin unregisteredButCreated
            /\ ~MarkedAt(d)

(* The inductive invariant.                                                *)
FolderInd ==
    /\ FCTypeOK /\ before \subseteq CopyFolders
    /\ PathInv
    /\ TrackedInv
    /\ AccountedInv
    /\ ForeignInv
    /\ OnlyForeignFoldersAreSkipped

-----------------------------------------------------------------------------
(* The tree. *)

(* What a transfer needs is a folder, or the top.                          *)
LEMMA NeedsIsAFolder ==
    ASSUME NEW t \in Copies
    PROVE  /\ Needs(t) \in CopyFolders \cup {Top}
           /\ t \in CopyFolders => Needs(t) = t
           /\ Top \notin CopyFolders /\ CopyFolders \subseteq Copies
  BY CopyAssumption DEF Needs, Copies

(* PathTo is the least set with the folder and the parents of its members. *)
LEMMA PathIsLeast ==
    ASSUME NEW d \in CopyFolders \cup {Top}, NEW s \in SUBSET CopyFolders,
           d \in s \cup {Top}, HasItsParents(s)
    PROVE  PathTo(d) \subseteq s
  BY DEF PathTo

(* ... and is itself such a set.                                           *)
LEMMA PathLemma ==
    ASSUME NEW d \in CopyFolders
    PROVE  /\ d \in PathTo(d) /\ PathTo(d) \subseteq CopyFolders
           /\ HasItsParents(PathTo(d))
<1>0. d # Top /\ Top \notin CopyFolders
  BY CopyAssumption DEF Copies
<1>1. d \in PathTo(d) /\ PathTo(d) \subseteq CopyFolders
  BY <1>0 DEF PathTo
<1>2. ASSUME NEW x \in PathTo(d), FolderOf[x] # Top
      PROVE  FolderOf[x] \in PathTo(d)
  <2>1. x \in CopyFolders /\ FolderOf[x] \in CopyFolders
    BY <1>2, CopyAssumption DEF PathTo, Copies
  <2>2. ASSUME NEW s \in SUBSET CopyFolders, d \in s \cup {Top}, HasItsParents(s)
        PROVE  FolderOf[x] \in s
    <3>1. x \in s
      BY <2>2 DEF PathTo
    <3>2. QED
      BY <3>1, <2>2, <1>2 DEF HasItsParents
  <2>3. QED
    BY <2>1, <2>2 DEF PathTo
<1>3. HasItsParents(PathTo(d))
  BY <1>2 DEF HasItsParents
<1>4. QED
  BY <1>1, <1>3

(* The top needs no folder.                                                *)
LEMMA NoPathToTop == PathTo(Top) = {}
<1>1. HasItsParents({})
  BY DEF HasItsParents
<1>2. PathTo(Top) \subseteq {}
  BY <1>1, PathIsLeast
<1>3. QED
  BY <1>2

(* On the way down there is always a next folder.                          *)
LEMMA TowardsLemma ==
    ASSUME NEW d \in CopyFolders, NEW a \in PathTo(d), a # d
    PROVE  Towards(a, d) \in PathTo(d)
<1>1. \E x \in PathTo(d) : FolderOf[x] = a
  <2>1. SUFFICES ASSUME \A x \in PathTo(d) : FolderOf[x] # a PROVE FALSE
    OBVIOUS
  <2>2. HasItsParents(PathTo(d) \ {a})
    BY <2>1, PathLemma DEF HasItsParents
  <2>3. d \in PathTo(d) \ {a} /\ PathTo(d) \ {a} \in SUBSET CopyFolders
    BY PathLemma
  <2>4. PathTo(d) \subseteq PathTo(d) \ {a}
    BY <2>2, <2>3, PathIsLeast
  <2>5. QED
    BY <2>4
<1>2. QED
  BY <1>1 DEF Towards

(* The way down has a first folder.                                        *)
LEMMA FirstOfLemma ==
    ASSUME NEW d \in CopyFolders
    PROVE  FirstOf(d) \in PathTo(d)
<1>1. PICK x \in PathTo(d) : FolderOf[x] \notin PathTo(d)
  BY PathLemma, CopyAssumption
<1>2. FolderOf[x] = Top
  BY <1>1, PathLemma DEF HasItsParents
<1>3. QED
  BY <1>2 DEF FirstOf

-----------------------------------------------------------------------------
(* The statuses and the program counters. *)

(* The values of a status and of a program counter.                        *)
FCStatus == {"Started", "FolderCreated", "Restarted", "Success", "Failed", "Skipped", "Cancelled"}
FCPc == {"planned", "start", "stat", "probe", "create", "mark", "properties", "fail",
         "failEnsure", "complete", "finish", "done"}

(* What SetTransferStatus does to the plan file.                           *)
LEMMA WithStatusLemma ==
    ASSUME FCTypeOK, NEW t \in Copies, NEW status \in FCStatus
    PROVE  /\ WithStatus(t, status) \in [Copies -> FCStatus]
           /\ \A x \in Copies : x # t => WithStatus(t, status)[x] = fcStatus[x]
           /\ WithStatus(t, status)[t] = IF Locked(fcStatus[t]) THEN fcStatus[t] ELSE status
  BY DEF FCTypeOK, WithStatus, FCStatus

(* A step of one transfer moves no other.                                  *)
LEMMA FcGoLemma ==
    ASSUME FCTypeOK, NEW t \in Copies, NEW pc \in FCPc, FcGo(t, pc)
    PROVE  /\ fcPc' \in [Copies -> FCPc] /\ fcPc'[t] = pc
           /\ \A x \in Copies : x # t => fcPc'[x] = fcPc[x]
  BY DEF FCTypeOK, FcGo, FCPc

(* Where a transfer goes when CreateFolder returns.                        *)
LEMMA AfterCreateLemma ==
    ASSUME FCTypeOK, PathInv, NEW t \in Copies, NEW ok \in BOOLEAN,
           fcPc[t] \in {"create", "mark"}, AfterCreate(t, ok)
    PROVE  /\ fcPc' \in [Copies -> FCPc] /\ fcAt' \in [Copies -> Copies]
           /\ \A x \in Copies : x # t => fcPc'[x] = fcPc[x] /\ fcAt'[x] = fcAt[x]
           /\ \/ /\ fcPc'[t] = "create" /\ fcAt'[t] \in PathTo(Needs(t)) /\ dest # "blob"
              \/ /\ fcPc'[t] = "properties" /\ ok /\ t \in CopyFolders
                 /\ fcAt[t] = Needs(t) /\ fcAt' = fcAt
              \/ /\ fcPc'[t] = "complete" /\ ok /\ t \notin CopyFolders
                 /\ fcAt[t] = Needs(t) /\ fcAt' = fcAt
              \/ /\ fcPc'[t] = "failEnsure" /\ ~ok /\ fcAt' = fcAt
<1>1. fcAt[t] \in PathTo(Needs(t)) /\ Needs(t) \in CopyFolders
  BY NeedsIsAFolder, NoPathToTop DEF PathInv, Place
<1>2. CASE fcAt[t] # Needs(t) /\ (dest = "local" \/ ok)
  <2>1. /\ FcGo(t, "create") /\ fcAt' = [fcAt EXCEPT ![t] = Towards(fcAt[t], Needs(t))]
    BY <1>2 DEF AfterCreate
  <2>2. Towards(fcAt[t], Needs(t)) \in PathTo(Needs(t))
    BY <1>1, <1>2, TowardsLemma
  <2>3. PathTo(Needs(t)) \subseteq Copies
    BY <1>1, PathLemma, NeedsIsAFolder
  <2>4. dest # "blob"
    BY <1>2, NeedsIsAFolder DEF PathInv, Place
  <2>5. /\ fcAt' \in [Copies -> Copies] /\ fcAt'[t] \in PathTo(Needs(t))
        /\ \A x \in Copies : x # t => fcAt'[x] = fcAt[x]
    BY <2>1, <2>2, <2>3 DEF FCTypeOK
  <2>6. /\ fcPc' \in [Copies -> FCPc] /\ fcPc'[t] = "create"
        /\ \A x \in Copies : x # t => fcPc'[x] = fcPc[x]
    BY <2>1, FcGoLemma DEF FCPc
  <2>7. QED
    BY <2>4, <2>5, <2>6
<1>3. CASE ~(fcAt[t] # Needs(t) /\ (dest = "local" \/ ok))
  <2>1. FcGo(t, IF ok THEN Ensured(t) ELSE "failEnsure") /\ fcAt' = fcAt
    BY <1>3 DEF AfterCreate
  <2>2. (IF ok THEN Ensured(t) ELSE "failEnsure") \in FCPc
    BY DEF Ensured, FCPc
  <2>3. /\ fcPc' \in [Copies -> FCPc] /\ fcPc'[t] = IF ok THEN Ensured(t) ELSE "failEnsure"
        /\ \A x \in Copies : x # t => fcPc'[x] = fcPc[x]
    BY <2>1, <2>2, FcGoLemma
  <2>4. fcAt' \in [Copies -> Copies]
    BY <2>1 DEF FCTypeOK
  <2>5. CASE ok
    BY <1>3, <2>1, <2>3, <2>4, <2>5 DEF Ensured
  <2>6. CASE ~ok
    BY <2>1, <2>3, <2>4, <2>6
  <2>7. QED
    BY <2>5, <2>6
<1>4. QED
  BY <1>2, <1>3

-----------------------------------------------------------------------------
(* Each step keeps the invariant. *)

(* A new job.                                                              *)
LEMMA InitHolds == FCInit => FolderInd
<1> SUFFICES ASSUME FCInit PROVE FolderInd
  OBVIOUS
<1>1. FCTypeOK
  <2>1. runs \in 1..MaxRuns /\ scheduled \in 0..Len(Schedule)
    BY CopyAssumption DEF FCInit
  <2>2. /\ fcAt \in [Copies -> Copies] /\ fcStatus \in [Copies -> FCStatus]
        /\ fcPc \in [Copies -> FCPc]
    BY DEF FCInit, FCStatus, FCPc
  <2>3. QED
    BY <2>1, <2>2 DEF FCInit, FCTypeOK, FCStatus, FCPc
<1>2. PathInv
  BY DEF FCInit, PathInv, Place, Arrived
<1>3. TrackedInv
  <2>1. \A i \in DOMAIN Schedule : Schedule[i] \in Copies
    BY CopyAssumption
  <2>2. CopyFolders \subseteq Copies
    BY DEF Copies
  <2>3. QED
    BY <2>1, <2>2 DEF FCInit, TrackedInv, Locked
<1>4. AccountedInv /\ ForeignInv /\ OnlyForeignFoldersAreSkipped
  BY NeedsIsAFolder DEF FCInit, AccountedInv, ForeignInv, OnlyForeignFoldersAreSkipped, MarkedAt, Copies
<1>5. before \subseteq CopyFolders
  BY DEF FCInit
<1>6. QED
  BY <1>1, <1>2, <1>3, <1>4, <1>5 DEF FolderInd

(* The scheduler hands out a transfer, and the folder of one is registered. *)
LEMMA ScheduleTransferKeeps ==
    ASSUME FolderInd, ScheduleTransfer
    PROVE  FolderInd'
<1> DEFINE t == Schedule[scheduled + 1]
<1>1. /\ t \in Copies /\ fcPc[t] = "planned" /\ scheduled + 1 \in DOMAIN Schedule
      /\ scheduled' = scheduled + 1 /\ scheduled' \in 0..Len(Schedule) /\ mu = Top
  BY CopyAssumption DEF FolderInd, FCTypeOK, TrackedInv, ScheduleTransfer
<1>2. /\ UNCHANGED <<dest, overwrite, there, withProperties, runs, jobStopped, fcAt, mu, before,
                     forgotten>>
  BY DEF ScheduleTransfer, fcWorld, fcHistory
<1>3. /\ fcPc' \in [Copies -> FCPc] /\ fcPc'[t] \in {"start", "done"}
      /\ \A x \in Copies : x # t => fcPc'[x] = fcPc[x]
      /\ fcStatus[t] # "Success" => fcPc'[t] = "start"
      /\ fcStatus[t] = "Success" => fcPc'[t] = "done"
  <2>1. CASE fcStatus[t] = "Success"
    BY <1>1, <2>1, FcGoLemma DEF ScheduleTransfer, FolderInd, FCPc
  <2>2. CASE fcStatus[t] # "Success"
    BY <1>1, <2>2, FcGoLemma DEF ScheduleTransfer, FolderInd, FCPc
  <2>3. QED
    BY <2>1, <2>2
<1>4. /\ fcStatus' \in [Copies -> FCStatus]
      /\ \A x \in Copies : x # t => fcStatus'[x] = fcStatus[x]
      /\ fcStatus'[t] = IF fcStatus[t] # "Success" /\ t \in CopyFolders \cap unregisteredButCreated
                        THEN "FolderCreated" ELSE fcStatus[t]
      /\ IF fcStatus[t] # "Success" /\ t \in CopyFolders
         THEN contents' = contents \cup {t} /\ unregisteredButCreated' = unregisteredButCreated \ {t}
         ELSE UNCHANGED <<contents, unregisteredButCreated>>
  <2>0. FCTypeOK /\ fcStatus \in [Copies -> FCStatus] /\ "FolderCreated" \in FCStatus
    BY DEF FolderInd, FCTypeOK, FCStatus
  <2>1. CASE fcStatus[t] # "Success" /\ t \in CopyFolders
    <3>1. Register(t)
      BY <2>1 DEF ScheduleTransfer, IsRegistered
    <3>2. ~Locked(fcStatus[t])
      BY <1>1, <2>1 DEF FolderInd, TrackedInv
    <3>3. CASE t \in unregisteredButCreated
      <4>1. fcStatus' = WithStatus(t, "FolderCreated")
        BY <3>1, <3>3 DEF Register
      <4>2. QED
        BY <4>1, <3>1, <3>2, <3>3, <2>0, <2>1, <1>1, WithStatusLemma DEF Register
    <3>4. CASE t \notin unregisteredButCreated
      BY <3>1, <3>4, <2>0, <2>1 DEF Register
    <3>5. QED
      BY <3>3, <3>4
  <2>2. CASE ~(fcStatus[t] # "Success" /\ t \in CopyFolders)
    BY <2>0, <2>2 DEF ScheduleTransfer, IsRegistered
  <2>3. QED
    BY <2>1, <2>2
<1> HIDE DEF t
<1>5. FCTypeOK'
  BY <1>1, <1>2, <1>3, <1>4 DEF FolderInd, FCTypeOK, FCStatus, FCPc
<1>6. \A x \in Copies : fcPc'[x] \in FCPc \ {"start", "done"} => fcPc[x] = fcPc'[x] /\ x # t
  BY <1>3
<1>7. PathInv'
  <2>1. ASSUME NEW x \in Copies
        PROVE  Place(x)' /\ Arrived(x)'
    BY <1>1, <1>2, <1>3, <1>4 DEF FolderInd, PathInv, Place, Arrived
  <2>2. QED
    BY <2>1, <1>2 DEF FolderInd, PathInv, HasItsParents
<1>9. TrackedInv'
  <2>1. \A i \in DOMAIN Schedule : i > scheduled' => fcPc'[Schedule[i]] = "planned"
    <3>1. \A i \in DOMAIN Schedule : i > scheduled' => Schedule[i] # t /\ Schedule[i] \in Copies
      BY <1>1, CopyAssumption DEF t, FolderInd, FCTypeOK
    <3>2. QED
      BY <3>1, <1>1, <1>3, CopyAssumption DEF FolderInd, TrackedInv, FCTypeOK
  <2>2. \A x \in Copies : fcPc'[x] = "planned" => ~Locked(fcStatus'[x]) \/ fcStatus'[x] = "Success"
    BY <1>3, <1>4 DEF FolderInd, TrackedInv
  <2>3. \A d \in CopyFolders : fcPc'[d] \notin {"planned", "done"} => d \in contents'
    BY <1>1, <1>3, <1>4, NeedsIsAFolder DEF FolderInd, TrackedInv
  <2>4. QED
    BY <2>1, <2>2, <2>3 DEF TrackedInv
<1>10. \A d : MarkedAt(d)' <=> MarkedAt(d)
  BY <1>1, <1>2, <1>3 DEF MarkedAt
<1>11. AccountedInv'
  BY <1>1, <1>2, <1>4, <1>10 DEF FolderInd, AccountedInv, FCTypeOK, Copies
<1>12. ForeignInv'
  BY <1>1, <1>2, <1>4, <1>10, NeedsIsAFolder DEF FolderInd, ForeignInv
<1>13. OnlyForeignFoldersAreSkipped'
  BY <1>1, <1>2, <1>4, NeedsIsAFolder DEF FolderInd, OnlyForeignFoldersAreSkipped
<1>14. QED
  BY <1>2, <1>5, <1>7, <1>9, <1>11, <1>12, <1>13 DEF FolderInd

(* What the steps of a transfer have in common that do not touch folders:  *)
(* of the plan files, only the transfer's own status.                      *)
OwnStep(t) ==
    /\ UNCHANGED <<dest, overwrite, there, runs, scheduled, jobStopped, unregisteredButCreated, mu,
                   before>>
    /\ fcPc' \in [Copies -> FCPc] /\ fcAt' \in [Copies -> Copies]
    /\ fcStatus' \in [Copies -> FCStatus]
    /\ \A x \in Copies :
         x # t => fcPc'[x] = fcPc[x] /\ fcAt'[x] = fcAt[x] /\ fcStatus'[x] = fcStatus[x]
    /\ fcPc[t] \notin {"planned", "mark"} /\ fcPc'[t] \notin {"planned", "mark"}
    /\ fcPc[t] # "done" \/ fcPc'[t] = "done"
    /\ \/ fcStatus'[t] = fcStatus[t]
       \/ /\ ~Locked(fcStatus[t])
          /\ fcStatus'[t] \in {"Cancelled", "Failed", "Skipped", "Success"}
    /\ forgotten \subseteq forgotten'
    /\ fcStatus[t] = "FolderCreated" =>
           fcStatus'[t] \in {"FolderCreated", "Success"} \/ t \in forgotten'
    /\ fcStatus'[t] = "Skipped" /\ overwrite = "false" /\ t \in CopyFolders =>
           fcStatus[t] = "Skipped" \/ t \in before \cup forgotten
    /\ contents' = contents \/ (contents' = contents \ {t} /\ fcPc'[t] = "done")
    /\ withProperties' \subseteq there
    /\ overwrite = "false" => withProperties' \cap before = {}
    /\ Place(t)' /\ Arrived(t)'

(* A step that touches no folder keeps the invariant.                      *)
LEMMA OwnStepKeeps ==
    ASSUME FolderInd, NEW t \in Copies, OwnStep(t)
    PROVE  FolderInd'
<1>1. FCTypeOK'
  BY DEF FolderInd, FCTypeOK, OwnStep, FCStatus, FCPc
<1>2. PathInv'
  <2>1. ASSUME NEW x \in Copies, x # t
        PROVE  Place(x)' /\ Arrived(x)'
    BY <2>1 DEF FolderInd, PathInv, OwnStep, Place, Arrived
  <2>2. QED
    BY <2>1 DEF FolderInd, PathInv, OwnStep, HasItsParents
<1>3. TrackedInv'
  <2>1. \A i \in DOMAIN Schedule : i > scheduled' => fcPc'[Schedule[i]] = "planned"
    BY CopyAssumption DEF FolderInd, TrackedInv, OwnStep
  <2>2. \A x \in Copies : fcPc'[x] = "planned" => ~Locked(fcStatus'[x]) \/ fcStatus'[x] = "Success"
    BY DEF FolderInd, TrackedInv, OwnStep
  <2>3. \A d \in CopyFolders : fcPc'[d] \notin {"planned", "done"} => d \in contents'
    BY NeedsIsAFolder DEF FolderInd, TrackedInv, OwnStep
  <2>4. QED
    BY <2>1, <2>2, <2>3 DEF TrackedInv
<1>4. \A d : MarkedAt(d)' <=> MarkedAt(d)
  BY DEF OwnStep, MarkedAt
<1>5. AccountedInv'
  <2>1. ASSUME NEW d \in there
        PROVE  \/ d \in before \cup forgotten' \cup unregisteredButCreated
               \/ fcStatus'[d] \in {"FolderCreated", "Success"}
               \/ MarkedAt(d)
    <3>1. d \in Copies
      BY DEF FolderInd, FCTypeOK, Copies
    <3>2. CASE fcStatus[d] \in {"FolderCreated", "Success"}
      BY <3>1, <3>2 DEF OwnStep, Locked
    <3>3. CASE d \in before \cup forgotten \cup unregisteredButCreated \/ MarkedAt(d)
      BY <3>3 DEF OwnStep
    <3>4. QED
      BY <3>2, <3>3 DEF FolderInd, AccountedInv
  <2>2. QED
    BY <2>1, <1>4 DEF AccountedInv, OwnStep
<1>6. ForeignInv'
  BY <1>4, NeedsIsAFolder DEF FolderInd, ForeignInv, OwnStep
<1>7. OnlyForeignFoldersAreSkipped'
  BY NeedsIsAFolder DEF FolderInd, OnlyForeignFoldersAreSkipped, OwnStep
<1>8. before' \subseteq CopyFolders
  BY DEF FolderInd, OwnStep
<1>9. QED
  BY <1>1, <1>2, <1>3, <1>5, <1>6, <1>7, <1>8 DEF FolderInd

(* A transfer begins, or finds that the job has been cancelled. *)
LEMMA StartCopyKeeps ==
    ASSUME FolderInd, NEW t \in Copies, StartCopy(t)
    PROVE  FolderInd'
<1>1. FCTypeOK /\ fcStatus \in [Copies -> FCStatus] /\ fcPc[t] = "start"
  BY DEF FolderInd, FCTypeOK, FCStatus, StartCopy
<1>2. UNCHANGED <<dest, overwrite, there, withProperties, runs, scheduled, jobStopped, contents,
                  unregisteredButCreated, mu, before>>
  BY DEF StartCopy, fcWorld, trackerState
<1>3. /\ fcPc' \in [Copies -> FCPc] /\ fcAt' \in [Copies -> Copies]
      /\ \A x \in Copies : x # t => fcPc'[x] = fcPc[x] /\ fcAt'[x] = fcAt[x]
      /\ \/ fcPc'[t] = "done"
         \/ /\ fcPc'[t] = "complete" /\ ~jobStopped
            /\ Needs(t) = Top \/ dest = "blob"
         \/ fcPc'[t] = "stat" /\ dest = "local" /\ fcAt'[t] \in PathTo(Needs(t))
         \/ fcPc'[t] = "create" /\ dest = "share" /\ fcAt'[t] \in PathTo(Needs(t))
         \/ fcPc'[t] = "probe" /\ dest = "blob" /\ t \in CopyFolders /\ fcAt'[t] = t
  <2>1. CASE jobStopped \/ Needs(t) = Top \/ (dest = "blob" /\ t \in CopyFiles)
    <3>1. \/ FcGo(t, "done") /\ fcAt' = fcAt
          \/ /\ FcGo(t, "complete") /\ fcAt' = fcAt /\ ~jobStopped
             /\ Needs(t) = Top \/ dest = "blob"
      <4>1. CASE jobStopped
        BY <4>1 DEF StartCopy
      <4>2. CASE ~jobStopped
        <5>1. ~(dest = "blob" /\ t \in CopyFolders)
          BY <2>1, <4>2, NeedsIsAFolder, CopyAssumption
        <5>2. QED
          BY <5>1, <2>1, <4>2 DEF StartCopy
      <4>3. QED
        BY <4>1, <4>2
    <3>2. fcAt' = fcAt /\ fcAt' \in [Copies -> Copies]
      BY <3>1, <1>1 DEF FCTypeOK
    <3>3. CASE FcGo(t, "done")
      BY <3>2, <3>3, <1>1, FcGoLemma DEF FCPc
    <3>4. CASE /\ FcGo(t, "complete") /\ ~jobStopped
               /\ Needs(t) = Top \/ dest = "blob"
      BY <3>2, <3>4, <1>1, FcGoLemma DEF FCPc
    <3>5. QED
      BY <3>1, <3>3, <3>4
  <2>2. CASE ~jobStopped /\ Needs(t) # Top /\ dest = "local"
    <3>1. FcGo(t, "stat") /\ fcAt' = [fcAt EXCEPT ![t] = Needs(t)]
      BY <2>2 DEF StartCopy
    <3>2. Needs(t) \in Copies /\ Needs(t) \in PathTo(Needs(t))
      BY <2>2, NeedsIsAFolder, PathLemma
    <3>3. /\ fcAt' \in [Copies -> Copies] /\ fcAt'[t] = Needs(t)
          /\ \A x \in Copies : x # t => fcAt'[x] = fcAt[x]
      BY <3>1, <3>2, <1>1 DEF FCTypeOK
    <3>4. /\ fcPc' \in [Copies -> FCPc] /\ fcPc'[t] = "stat"
          /\ \A x \in Copies : x # t => fcPc'[x] = fcPc[x]
      BY <3>1, <1>1, FcGoLemma DEF FCPc
    <3>5. QED
      BY <2>2, <3>2, <3>3, <3>4
  <2>3. CASE ~jobStopped /\ Needs(t) # Top /\ dest = "share"
    <3>1. FcGo(t, "create") /\ fcAt' = [fcAt EXCEPT ![t] = FirstOf(Needs(t))]
      BY <2>3 DEF StartCopy
    <3>2. FirstOf(Needs(t)) \in Copies /\ FirstOf(Needs(t)) \in PathTo(Needs(t))
      BY <2>3, NeedsIsAFolder, PathLemma, FirstOfLemma
    <3>3. /\ fcAt' \in [Copies -> Copies] /\ fcAt'[t] = FirstOf(Needs(t))
          /\ \A x \in Copies : x # t => fcAt'[x] = fcAt[x]
      BY <3>1, <3>2, <1>1 DEF FCTypeOK
    <3>4. /\ fcPc' \in [Copies -> FCPc] /\ fcPc'[t] = "create"
          /\ \A x \in Copies : x # t => fcPc'[x] = fcPc[x]
      BY <3>1, <1>1, FcGoLemma DEF FCPc
    <3>5. QED
      BY <2>3, <3>2, <3>3, <3>4
  <2>4. CASE ~jobStopped /\ dest = "blob" /\ t \in CopyFolders
    <3>1. FcGo(t, "probe") /\ fcAt' = [fcAt EXCEPT ![t] = t]
      BY <2>4, NeedsIsAFolder, CopyAssumption DEF StartCopy
    <3>3. /\ fcAt' \in [Copies -> Copies] /\ fcAt'[t] = t
          /\ \A x \in Copies : x # t => fcAt'[x] = fcAt[x]
      BY <3>1, <1>1 DEF FCTypeOK
    <3>4. /\ fcPc' \in [Copies -> FCPc] /\ fcPc'[t] = "probe"
          /\ \A x \in Copies : x # t => fcPc'[x] = fcPc[x]
      BY <3>1, <1>1, FcGoLemma DEF FCPc
    <3>5. QED
      BY <2>4, <3>3, <3>4
  <2>5. dest \in {"local", "share", "blob"} /\ (t \in CopyFolders \/ t \in CopyFiles)
    BY <1>1, CopyAssumption DEF FCTypeOK, Copies
  <2>6. QED
    BY <2>1, <2>2, <2>3, <2>4, <2>5
<1>4. /\ fcStatus' \in [Copies -> FCStatus]
      /\ \A x \in Copies : x # t => fcStatus'[x] = fcStatus[x]
      /\ fcStatus'[t] = fcStatus[t] \/ fcStatus'[t] = "Cancelled"
      /\ Locked(fcStatus[t]) => fcStatus'[t] = fcStatus[t]
      /\ forgotten \subseteq forgotten'
      /\ fcStatus[t] = "FolderCreated" /\ fcStatus'[t] # "FolderCreated" => t \in forgotten'
  <2>1. CASE jobStopped
    <3>1. fcStatus' = WithStatus(t, "Cancelled") /\ forgotten' = forgotten \cup Forgets(t, "Cancelled")
      BY <2>1 DEF StartCopy
    <3>2. "Cancelled" \in FCStatus
      BY DEF FCStatus
    <3>3. /\ fcStatus' \in [Copies -> FCStatus]
          /\ \A x \in Copies : x # t => fcStatus'[x] = fcStatus[x]
          /\ fcStatus'[t] = IF Locked(fcStatus[t]) THEN fcStatus[t] ELSE "Cancelled"
      BY <3>1, <3>2, <1>1, WithStatusLemma
    <3>4. QED
      BY <3>1, <3>3 DEF Forgets
  <2>2. CASE ~jobStopped
    BY <2>2, <1>1 DEF StartCopy
  <2>3. QED
    BY <2>1, <2>2
<1>5. Place(t)' /\ Arrived(t)'
  <2>1. fcStatus'[t] = "Success" => fcStatus[t] = "Success"
    BY <1>4
  <2>2. PathInv /\ Place(t) /\ Arrived(t)
    BY DEF FolderInd, PathInv
  <2>3. Place(t)'
    BY <1>2, <1>3, <2>2 DEF Place
  <2>4. Arrived(t)'
    BY <1>2, <1>3, <2>1, <2>2 DEF Arrived
  <2>5. QED
    BY <2>3, <2>4
<1>6. withProperties' \subseteq there /\ (overwrite = "false" => withProperties' \cap before = {})
  BY <1>2 DEF FolderInd, FCTypeOK, ForeignInv
<1>7. OwnStep(t)
  BY <1>1, <1>2, <1>3, <1>4, <1>5, <1>6 DEF OwnStep, Locked
<1>8. QED
  BY <1>7, OwnStepKeeps

(* CreateDirectoryIfNotExist goes up, or begins to go down.                *)
LEMMA StatKeeps ==
    ASSUME FolderInd, NEW t \in Copies, Stat(t)
    PROVE  FolderInd'
<1>1. FCTypeOK /\ fcPc[t] = "stat" /\ PathInv /\ Place(t) /\ Arrived(t) /\ dest # "blob"
  BY DEF FolderInd, PathInv, Place, Stat
<1>2. UNCHANGED <<dest, overwrite, fcStatus, there, withProperties, runs, scheduled, jobStopped,
                  contents, unregisteredButCreated, mu, before, forgotten>>
  BY DEF Stat, fcPlan, fcWorld, trackerState, fcHistory
<1>3. fcAt[t] \in PathTo(Needs(t)) /\ Needs(t) \in CopyFolders
  BY <1>1, NeedsIsAFolder, NoPathToTop DEF Place
<1>4. /\ fcPc' \in [Copies -> FCPc] /\ fcAt' \in [Copies -> Copies]
      /\ \A x \in Copies : x # t => fcPc'[x] = fcPc[x] /\ fcAt'[x] = fcAt[x]
      /\ \/ fcPc'[t] \in {"stat", "create"} /\ fcAt'[t] \in PathTo(Needs(t))
         \/ fcPc'[t] = Ensured(t) /\ Needs(t) \in there
  <2>0. PathTo(Needs(t)) \subseteq Copies
    BY <1>3, PathLemma, NeedsIsAFolder
  <2>1. CASE fcAt[t] \in there /\ fcAt[t] = Needs(t)
    <3>1. FcGo(t, Ensured(t)) /\ fcAt' = fcAt
      BY <2>1 DEF Stat
    <3>2. Ensured(t) \in FCPc
      BY DEF Ensured, FCPc
    <3>3. /\ fcPc' \in [Copies -> FCPc] /\ fcPc'[t] = Ensured(t)
          /\ \A x \in Copies : x # t => fcPc'[x] = fcPc[x]
      BY <3>1, <3>2, <1>1, FcGoLemma
    <3>4. QED
      BY <2>1, <3>1, <3>3, <1>1 DEF FCTypeOK
  <2>2. CASE fcAt[t] \in there /\ fcAt[t] # Needs(t)
    <3>1. FcGo(t, "create") /\ fcAt' = [fcAt EXCEPT ![t] = Towards(fcAt[t], Needs(t))]
      BY <2>2 DEF Stat
    <3>2. Towards(fcAt[t], Needs(t)) \in PathTo(Needs(t))
      BY <1>3, <2>2, TowardsLemma
    <3>3. /\ fcPc' \in [Copies -> FCPc] /\ fcPc'[t] = "create"
          /\ \A x \in Copies : x # t => fcPc'[x] = fcPc[x]
      BY <3>1, <1>1, FcGoLemma DEF FCPc
    <3>4. /\ fcAt' \in [Copies -> Copies] /\ fcAt'[t] \in PathTo(Needs(t))
          /\ \A x \in Copies : x # t => fcAt'[x] = fcAt[x]
      BY <3>1, <3>2, <2>0, <1>1 DEF FCTypeOK
    <3>5. QED
      BY <3>3, <3>4
  <2>3. CASE fcAt[t] \notin there /\ FolderOf[fcAt[t]] = Top
    <3>1. FcGo(t, "create") /\ fcAt' = fcAt
      BY <2>3 DEF Stat
    <3>2. /\ fcPc' \in [Copies -> FCPc] /\ fcPc'[t] = "create"
          /\ \A x \in Copies : x # t => fcPc'[x] = fcPc[x]
      BY <3>1, <1>1, FcGoLemma DEF FCPc
    <3>3. QED
      BY <3>1, <3>2, <1>1, <1>3 DEF FCTypeOK
  <2>4. CASE fcAt[t] \notin there /\ FolderOf[fcAt[t]] # Top
    <3>1. fcPc' = fcPc /\ fcAt' = [fcAt EXCEPT ![t] = FolderOf[fcAt[t]]]
      BY <2>4 DEF Stat
    <3>2. FolderOf[fcAt[t]] \in PathTo(Needs(t))
      BY <2>4, <1>3, PathLemma DEF HasItsParents
    <3>3. fcPc' \in [Copies -> FCPc]
      BY <3>1, <1>1 DEF FCTypeOK, FCPc
    <3>4. /\ fcAt' \in [Copies -> Copies] /\ fcAt'[t] \in PathTo(Needs(t))
          /\ \A x \in Copies : x # t => fcAt'[x] = fcAt[x]
      BY <3>1, <3>2, <2>0, <1>1 DEF FCTypeOK
    <3>5. QED
      BY <3>1, <3>3, <3>4, <1>1
  <2>5. QED
    BY <2>1, <2>2, <2>3, <2>4
<1>5. Place(t)' /\ Arrived(t)'
  BY <1>1, <1>2, <1>4 DEF Place, Arrived, Ensured
<1>6. /\ fcStatus' \in [Copies -> FCStatus] /\ withProperties' \subseteq there
      /\ overwrite = "false" => withProperties' \cap before = {}
  BY <1>2, <1>1 DEF FolderInd, FCTypeOK, ForeignInv, FCStatus
<1>7. OwnStep(t)
  BY <1>1, <1>2, <1>4, <1>5, <1>6 DEF OwnStep, Ensured, FolderInd, OnlyForeignFoldersAreSkipped
<1>8. QED
  BY <1>7, OwnStepKeeps

(* CreateFolder for a folder that the tracker knows.                       *)
LEMMA AlreadyCreatedKeeps ==
    ASSUME FolderInd, NEW t \in Copies, AlreadyCreated(t)
    PROVE  FolderInd'
<1>1. FCTypeOK /\ fcPc[t] = "create" /\ PathInv /\ Place(t) /\ Arrived(t)
  BY DEF FolderInd, PathInv, AlreadyCreated
<1>2. UNCHANGED <<dest, overwrite, fcStatus, there, withProperties, runs, scheduled, jobStopped,
                  contents, unregisteredButCreated, mu, before, forgotten>>
  BY DEF AlreadyCreated, fcPlan, fcWorld, trackerState, fcHistory
<1> DEFINE ok == dest = "blob" \/ fcAt[t] \in there
<1>3. ok \in BOOLEAN /\ AfterCreate(t, ok)
  BY DEF AlreadyCreated
<1>4. /\ fcPc' \in [Copies -> FCPc] /\ fcAt' \in [Copies -> Copies]
      /\ \A x \in Copies : x # t => fcPc'[x] = fcPc[x] /\ fcAt'[x] = fcAt[x]
      /\ \/ fcPc'[t] = "create" /\ fcAt'[t] \in PathTo(Needs(t)) /\ dest # "blob"
         \/ fcPc'[t] = "properties" /\ ok /\ t \in CopyFolders /\ fcAt[t] = Needs(t)
         \/ fcPc'[t] = "complete" /\ ok /\ t \notin CopyFolders /\ fcAt[t] = Needs(t)
         \/ fcPc'[t] = "failEnsure"
  <2> HIDE DEF ok
  <2>1. QED
    BY <1>1, <1>3, AfterCreateLemma
<1>9. dest = "blob" => fcStatus[t] = "FolderCreated"
  <2>1. dest = "blob" => fcAt[t] = t /\ t \in CopyFolders
    BY <1>1 DEF Place
  <2>2. dest = "blob" => t \in contents /\ t \notin unregisteredButCreated
    BY <2>1, <1>1 DEF FolderInd, TrackedInv, FCTypeOK
  <2>3. QED
    BY <2>1, <2>2 DEF AlreadyCreated, IsCreatedByUs
<1>5. Place(t)' /\ Arrived(t)'
  BY <1>1, <1>2, <1>4, <1>9 DEF Place, Arrived
<1>6. /\ fcStatus' \in [Copies -> FCStatus] /\ withProperties' \subseteq there
      /\ overwrite = "false" => withProperties' \cap before = {}
  BY <1>2, <1>1 DEF FolderInd, FCTypeOK, ForeignInv, FCStatus
<1>7. OwnStep(t)
  BY <1>1, <1>2, <1>4, <1>5, <1>6 DEF OwnStep, FolderInd, OnlyForeignFoldersAreSkipped
<1>8. QED
  BY <1>7, OwnStepKeeps

(* A failure is written down, unless the job is cancelled.                 *)
LEMMA FailCopyKeeps ==
    ASSUME FolderInd, NEW t \in Copies, FailCopy(t)
    PROVE  FolderInd'
<1>1. FCTypeOK /\ fcPc[t] \in {"fail", "failEnsure"} /\ PathInv /\ Place(t) /\ Arrived(t)
  BY DEF FolderInd, PathInv, FailCopy
<1>2. UNCHANGED <<dest, overwrite, there, withProperties, runs, scheduled, jobStopped, fcAt,
                  contents, unregisteredButCreated, mu, before>>
  BY DEF FailCopy, fcWorld, trackerState
<1>3. /\ fcPc' \in [Copies -> FCPc] /\ fcPc'[t] \in {"finish", "complete"}
      /\ \A x \in Copies : x # t => fcPc'[x] = fcPc[x]
  <2>1. CASE FcGo(t, "finish")
    BY <2>1, <1>1, FcGoLemma DEF FCPc
  <2>2. CASE FcGo(t, "complete")
    BY <2>2, <1>1, FcGoLemma DEF FCPc
  <2>3. QED
    BY <2>1, <2>2 DEF FailCopy
<1>4. /\ fcStatus' \in [Copies -> FCStatus]
      /\ \A x \in Copies : x # t => fcStatus'[x] = fcStatus[x]
      /\ \/ fcStatus'[t] = fcStatus[t] /\ (jobStopped \/ Locked(fcStatus[t]))
         \/ ~Locked(fcStatus[t]) /\ fcStatus'[t] = "Failed"
      /\ forgotten \subseteq forgotten'
      /\ fcStatus[t] = "FolderCreated" => fcStatus'[t] = "FolderCreated" \/ t \in forgotten'
  <2>1. CASE jobStopped
    BY <2>1, <1>1 DEF FailCopy, FCTypeOK, FCStatus
  <2>2. CASE ~jobStopped
    <3>1. fcStatus' = WithStatus(t, "Failed") /\ forgotten' = forgotten \cup Forgets(t, "Failed")
      BY <2>2 DEF FailCopy, Settle
    <3>2. "Failed" \in FCStatus
      BY DEF FCStatus
    <3>3. /\ fcStatus' \in [Copies -> FCStatus]
          /\ \A x \in Copies : x # t => fcStatus'[x] = fcStatus[x]
          /\ fcStatus'[t] = IF Locked(fcStatus[t]) THEN fcStatus[t] ELSE "Failed"
      BY <3>1, <3>2, <1>1, WithStatusLemma
    <3>4. QED
      BY <3>1, <3>3 DEF Forgets
  <2>3. QED
    BY <2>1, <2>2
<1>5. Place(t)' /\ Arrived(t)'
  <2>1. Place(t)'
    BY <1>1, <1>2, <1>3 DEF Place
  <2>2. Arrived(t)'
    BY <1>1, <1>2, <1>3, <1>4 DEF Arrived, Locked
  <2>3. QED
    BY <2>1, <2>2
<1>6. /\ withProperties' \subseteq there
      /\ overwrite = "false" => withProperties' \cap before = {}
      /\ fcAt' \in [Copies -> Copies]
  BY <1>2, <1>1 DEF FolderInd, FCTypeOK, ForeignInv
<1>7. OwnStep(t)
  BY <1>1, <1>2, <1>3, <1>4, <1>5, <1>6 DEF OwnStep
<1>8. QED
  BY <1>7, OwnStepKeeps

(* The end of a transfer, and StopTracking.                                *)
LEMMA CompleteCopyKeeps ==
    ASSUME FolderInd, NEW t \in Copies, CompleteCopy(t)
    PROVE  FolderInd'
<1>1. FCTypeOK /\ fcPc[t] \in {"complete", "finish"} /\ PathInv /\ Place(t) /\ Arrived(t)
  BY DEF FolderInd, PathInv, CompleteCopy
<1>2. UNCHANGED <<dest, overwrite, there, withProperties, runs, scheduled, jobStopped, fcAt,
                  unregisteredButCreated, mu, before, forgotten>>
  BY DEF CompleteCopy, fcWorld, fcHistory
<1>3. /\ fcPc' \in [Copies -> FCPc] /\ fcPc'[t] = "done"
      /\ \A x \in Copies : x # t => fcPc'[x] = fcPc[x]
  BY <1>1, FcGoLemma DEF FCPc, CompleteCopy
<1>4. /\ fcStatus' \in [Copies -> FCStatus]
      /\ \A x \in Copies : x # t => fcStatus'[x] = fcStatus[x]
      /\ \/ fcStatus'[t] = fcStatus[t]
         \/ ~Locked(fcStatus[t]) /\ fcStatus'[t] = "Success" /\ ~jobStopped
  <2>1. CASE jobStopped
    BY <2>1, <1>1 DEF CompleteCopy, FCTypeOK, FCStatus
  <2>2. CASE ~jobStopped
    <3>1. fcStatus' = WithStatus(t, "Success")
      BY <2>2 DEF CompleteCopy
    <3>2. "Success" \in FCStatus
      BY DEF FCStatus
    <3>3. /\ fcStatus' \in [Copies -> FCStatus]
          /\ \A x \in Copies : x # t => fcStatus'[x] = fcStatus[x]
          /\ fcStatus'[t] = IF Locked(fcStatus[t]) THEN fcStatus[t] ELSE "Success"
      BY <3>1, <3>2, <1>1, WithStatusLemma
    <3>4. QED
      BY <3>3, <2>2
  <2>3. QED
    BY <2>1, <2>2
<1>5. Place(t)' /\ Arrived(t)'
  <2>1. Place(t)'
    BY <1>1, <1>2, <1>3 DEF Place
  <2>2. Arrived(t)'
    BY <1>1, <1>2, <1>3, <1>4 DEF Arrived
  <2>3. QED
    BY <2>1, <2>2
<1>6. /\ withProperties' \subseteq there
      /\ overwrite = "false" => withProperties' \cap before = {}
      /\ fcAt' \in [Copies -> Copies]
      /\ contents' = contents \/ contents' = contents \ {t}
  BY <1>2, <1>1 DEF FolderInd, FCTypeOK, ForeignInv, CompleteCopy
<1>7. OwnStep(t)
  BY <1>1, <1>2, <1>3, <1>4, <1>5, <1>6 DEF OwnStep
<1>8. QED
  BY <1>7, OwnStepKeeps

(* A folder that is there, that the tracker knows, and that nobody is      *)
(* about to mark, has the mark or was somebody else's.                     *)
LEMMA WhoseFolder ==
    ASSUME FolderInd, NEW t \in CopyFolders, t \in there, t \in contents, mu = Top,
           ~IsCreatedByUs(t), ~Locked(fcStatus[t])
    PROVE  t \in before \cup forgotten
<1>1. ~MarkedAt(t)
  BY CopyAssumption DEF MarkedAt, FolderInd, PathInv, Place
<1>2. QED
  BY <1>1 DEF FolderInd, FCTypeOK, AccountedInv, IsCreatedByUs, Locked

(* A settled status is written once, and the mark is not lost unnoticed.   *)
LEMMA SettleLemma ==
    ASSUME FCTypeOK, NEW t \in Copies, NEW status \in {"Failed", "Skipped"}, Settle(t, status)
    PROVE  /\ fcStatus' \in [Copies -> FCStatus]
           /\ \A x \in Copies : x # t => fcStatus'[x] = fcStatus[x]
           /\ fcStatus'[t] = IF Locked(fcStatus[t]) THEN fcStatus[t] ELSE status
           /\ forgotten \subseteq forgotten'
           /\ fcStatus[t] = "FolderCreated" => t \in forgotten'
<1>1. status \in FCStatus /\ fcStatus' = WithStatus(t, status)
  BY DEF FCStatus, Settle
<1>2. QED
  BY <1>1, WithStatusLemma DEF Settle, Forgets

(* The properties of a folder are set, or passed over.                     *)
LEMMA SetPropertiesKeeps ==
    ASSUME FolderInd, NEW t \in CopyFolders, SetProperties(t)
    PROVE  FolderInd'
<1>0. t \in Copies /\ Needs(t) = t
  BY NeedsIsAFolder DEF Copies
<1>1. /\ FCTypeOK /\ fcPc[t] = "properties" /\ mu = Top
      /\ PathInv /\ Place(t) /\ Arrived(t) /\ t \in contents
  BY <1>0 DEF FolderInd, PathInv, TrackedInv, SetProperties
<1>2. UNCHANGED <<dest, overwrite, there, runs, scheduled, jobStopped, fcAt,
                  unregisteredButCreated, mu, before>>
  BY DEF SetProperties
<1>3. PICK answer \in Answerable, ok \in BOOLEAN :
        IF ~ShouldSet(t, answer)
        THEN /\ Settle(t, "Skipped")
             /\ contents' = contents \ {t}
             /\ FcGo(t, "done") /\ UNCHANGED withProperties
        ELSE /\ ok => dest \in {"local", "blob"} \/ ~jobStopped
             /\ dest = "blob" => ok
             /\ withProperties' = IF ok /\ dest # "blob"
                                  THEN withProperties \cup {t} ELSE withProperties
             /\ FcGo(t, IF ok THEN "complete" ELSE "fail")
             /\ UNCHANGED <<fcStatus, forgotten, contents>>
  BY DEF SetProperties
<1>4. overwrite = "false" => (ShouldSet(t, answer) <=> IsCreatedByUs(t))
  BY DEF ShouldSet
<1>5. CASE ~ShouldSet(t, answer)
  <2>1. /\ Settle(t, "Skipped") /\ contents' = contents \ {t}
        /\ FcGo(t, "done") /\ UNCHANGED withProperties
    BY <1>3, <1>5
  <2>2. /\ fcStatus' \in [Copies -> FCStatus]
        /\ \A x \in Copies : x # t => fcStatus'[x] = fcStatus[x]
        /\ fcStatus'[t] = IF Locked(fcStatus[t]) THEN fcStatus[t] ELSE "Skipped"
        /\ forgotten \subseteq forgotten'
        /\ fcStatus[t] = "FolderCreated" => t \in forgotten'
    BY <2>1, <1>0, <1>1, SettleLemma
  <2>3. /\ fcPc' \in [Copies -> FCPc] /\ fcPc'[t] = "done"
        /\ \A x \in Copies : x # t => fcPc'[x] = fcPc[x]
    BY <2>1, <1>0, <1>1, FcGoLemma DEF FCPc
  <2>4. fcStatus'[t] = "Skipped" /\ overwrite = "false" =>
            fcStatus[t] = "Skipped" \/ t \in before \cup forgotten
    <3>1. SUFFICES ASSUME ~Locked(fcStatus[t]), overwrite = "false"
                   PROVE  t \in before \cup forgotten
      BY <2>2
    <3>2. ~IsCreatedByUs(t)
      BY <3>1, <1>4, <1>5
    <3>3. dest # "blob"
      BY <3>1, <3>2, <1>1 DEF Place, IsCreatedByUs
    <3>4. t \in there
      BY <3>3, <1>0, <1>1 DEF Arrived
    <3>5. QED
      BY <3>1, <3>2, <3>4, <1>1, WhoseFolder
  <2>5. Place(t)' /\ Arrived(t)'
    BY <2>2, <2>3, <1>1, <1>2 DEF Place, Arrived, Locked
  <2>6. /\ withProperties' \subseteq there
        /\ overwrite = "false" => withProperties' \cap before = {}
        /\ fcAt' \in [Copies -> Copies]
    BY <2>1, <1>2, <1>1 DEF FolderInd, FCTypeOK, ForeignInv
  <2>7. OwnStep(t)
    BY <2>1, <2>2, <2>3, <2>4, <2>5, <2>6, <1>1, <1>2 DEF OwnStep
  <2>8. QED
    BY <2>7, <1>0, OwnStepKeeps
<1>6. CASE ShouldSet(t, answer)
  <2>1. /\ withProperties' = IF ok /\ dest # "blob"
                             THEN withProperties \cup {t} ELSE withProperties
        /\ FcGo(t, IF ok THEN "complete" ELSE "fail")
        /\ UNCHANGED <<fcStatus, forgotten, contents>>
    BY <1>3, <1>6
  <2>2. /\ fcPc' \in [Copies -> FCPc] /\ fcPc'[t] \in {"complete", "fail"}
        /\ \A x \in Copies : x # t => fcPc'[x] = fcPc[x]
    <3>1. (IF ok THEN "complete" ELSE "fail") \in FCPc
      BY DEF FCPc
    <3>2. QED
      BY <3>1, <2>1, <1>0, <1>1, FcGoLemma
  <2>3. Place(t)' /\ Arrived(t)'
    BY <2>1, <2>2, <1>1, <1>2 DEF Place, Arrived
  <2>4. /\ fcAt' \in [Copies -> Copies] /\ fcStatus' \in [Copies -> FCStatus]
    BY <2>1, <1>2, <1>1 DEF FCTypeOK, FCStatus
  <2>5. withProperties' \subseteq there
    BY <2>1, <1>0, <1>1 DEF FCTypeOK, Arrived
  <2>6. overwrite = "false" => withProperties' \cap before = {}
    BY <2>1, <1>4, <1>6 DEF FolderInd, ForeignInv, IsCreatedByUs
  <2>7. OwnStep(t)
    BY <2>1, <2>2, <2>3, <2>4, <2>5, <2>6, <1>1, <1>2
       DEF OwnStep, FolderInd, OnlyForeignFoldersAreSkipped
  <2>8. QED
    BY <2>7, <1>0, OwnStepKeeps
<1>7. QED
  BY <1>5, <1>6

(* A folder of a transfer at work stays registered.                        *)
LEMMA StillTracked ==
    ASSUME FolderInd, NEW t \in Copies, UNCHANGED <<scheduled, contents>>,
           fcPc[t] \notin {"planned", "done"}, fcPc'[t] # "planned",
           \A x \in Copies : x # t => fcPc'[x] = fcPc[x],
           \A x \in Copies :
               fcPc[x] = "planned" /\ Locked(fcStatus'[x]) => fcStatus'[x] = fcStatus[x]
    PROVE  TrackedInv'
<1>1. \A i \in DOMAIN Schedule : i > scheduled' => fcPc'[Schedule[i]] = "planned"
  BY CopyAssumption DEF FolderInd, TrackedInv
<1>2. \A x \in Copies : fcPc'[x] = "planned" => ~Locked(fcStatus'[x]) \/ fcStatus'[x] = "Success"
  BY DEF FolderInd, TrackedInv
<1>3. \A d \in CopyFolders : fcPc'[d] \notin {"planned", "done"} => d \in contents'
  BY NeedsIsAFolder DEF FolderInd, TrackedInv
<1>4. QED
  BY <1>1, <1>2, <1>3 DEF TrackedInv

(* EnsureFolderExists of a blob that stands for a folder.                  *)
LEMMA ProbeBlobFolderKeeps ==
    ASSUME FolderInd, NEW t \in CopyFolders, ProbeBlobFolder(t)
    PROVE  FolderInd'
<1>0. t \in Copies /\ Needs(t) = t
  BY NeedsIsAFolder DEF Copies
<1>1. /\ FCTypeOK /\ fcPc[t] = "probe" /\ mu = Top /\ fcAt[t] = t /\ dest = "blob"
      /\ PathInv /\ Place(t) /\ Arrived(t) /\ t \in contents
  BY <1>0 DEF FolderInd, PathInv, Place, TrackedInv, ProbeBlobFolder
<1>2. /\ UNCHANGED <<dest, overwrite, runs, scheduled, jobStopped, fcAt, contents,
                     unregisteredButCreated, mu, before>>
      /\ t \in PathTo(t)
  BY PathLemma DEF ProbeBlobFolder, trackerState
<1>3. PICK answer \in Answerable :
         \/ /\ t \notin there /\ ~jobStopped
            /\ FcGo(t, "create") /\ UNCHANGED <<there, withProperties, fcStatus, forgotten>>
         \/ /\ t \in there /\ ~jobStopped /\ ShouldSet(t, answer)
            /\ there' = there \ {t} /\ withProperties' = withProperties \ {t}
            /\ FcGo(t, "create") /\ UNCHANGED <<fcStatus, forgotten>>
         \/ /\ t \in there /\ ~jobStopped /\ ~ShouldSet(t, answer)
            /\ Settle(t, "Skipped")
            /\ FcGo(t, "done") /\ UNCHANGED <<there, withProperties>>
         \/ FcGo(t, "failEnsure") /\ UNCHANGED <<there, withProperties, fcStatus, forgotten>>
  BY DEF ProbeBlobFolder
<1>4. overwrite = "false" => (ShouldSet(t, answer) <=> IsCreatedByUs(t))
  BY DEF ShouldSet
<1>5. /\ fcAt' \in [Copies -> Copies]
      /\ \A pc \in {"create", "done", "failEnsure"} : FcGo(t, pc) =>
           /\ fcPc' \in [Copies -> FCPc] /\ fcPc'[t] = pc
           /\ \A x \in Copies : x # t => fcPc'[x] = fcPc[x]
  <2>1. fcAt' \in [Copies -> Copies]
    BY <1>1, <1>2 DEF FCTypeOK
  <2>2. {"create", "done", "failEnsure"} \subseteq FCPc
    BY DEF FCPc
  <2>3. QED
    BY <2>1, <2>2, <1>0, <1>1, FcGoLemma
<1>6. /\ fcStatus \in [Copies -> FCStatus] /\ withProperties \subseteq there
      /\ overwrite = "false" => withProperties \cap before = {}
  BY <1>1 DEF FolderInd, FCTypeOK, FCStatus, ForeignInv
<1>7. CASE /\ FcGo(t, "create") /\ t \notin there
           /\ UNCHANGED <<there, withProperties, fcStatus, forgotten>>
  <2>1. fcPc'[t] = "create"
    BY <1>5, <1>7
  <2>2. Place(t)' /\ Arrived(t)'
    BY <2>1, <1>0, <1>1, <1>2, <1>7 DEF Place, Arrived
  <2>3. OwnStep(t)
    BY <2>1, <2>2, <1>1, <1>2, <1>5, <1>6, <1>7
       DEF OwnStep, FolderInd, OnlyForeignFoldersAreSkipped
  <2>4. QED
    BY <2>3, <1>0, OwnStepKeeps
<1>8. CASE /\ t \in there /\ ~ShouldSet(t, answer) /\ Settle(t, "Skipped")
           /\ FcGo(t, "done") /\ UNCHANGED <<there, withProperties>>
  <2>1. fcPc'[t] = "done"
    BY <1>5, <1>8
  <2>2. /\ fcStatus' \in [Copies -> FCStatus]
        /\ \A x \in Copies : x # t => fcStatus'[x] = fcStatus[x]
        /\ fcStatus'[t] = IF Locked(fcStatus[t]) THEN fcStatus[t] ELSE "Skipped"
        /\ forgotten \subseteq forgotten'
        /\ fcStatus[t] = "FolderCreated" => t \in forgotten'
    BY <1>8, <1>0, <1>1, SettleLemma
  <2>3. fcStatus'[t] = "Skipped" /\ overwrite = "false" =>
            fcStatus[t] = "Skipped" \/ t \in before \cup forgotten
    <3>1. SUFFICES ASSUME ~Locked(fcStatus[t]), overwrite = "false"
                   PROVE  t \in before \cup forgotten
      BY <2>2
    <3>2. ~IsCreatedByUs(t)
      BY <3>1, <1>4, <1>8
    <3>3. QED
      BY <3>1, <3>2, <1>1, <1>8, WhoseFolder
  <2>4. Place(t)' /\ Arrived(t)'
    BY <2>1, <1>1, <1>2 DEF Place, Arrived
  <2>5. OwnStep(t)
    BY <2>1, <2>2, <2>3, <2>4, <1>1, <1>2, <1>5, <1>6, <1>8 DEF OwnStep
  <2>6. QED
    BY <2>5, <1>0, OwnStepKeeps
<1>9. CASE FcGo(t, "failEnsure") /\ UNCHANGED <<there, withProperties, fcStatus, forgotten>>
  <2>1. fcPc'[t] = "failEnsure"
    BY <1>5, <1>9
  <2>2. Place(t)' /\ Arrived(t)'
    BY <2>1, <1>0, <1>1, <1>2, <1>9 DEF Place, Arrived
  <2>3. OwnStep(t)
    BY <2>1, <2>2, <1>1, <1>2, <1>5, <1>6, <1>9
       DEF OwnStep, FolderInd, OnlyForeignFoldersAreSkipped
  <2>4. QED
    BY <2>3, <1>0, OwnStepKeeps
<1>10. CASE /\ t \in there /\ ShouldSet(t, answer)
            /\ there' = there \ {t} /\ withProperties' = withProperties \ {t}
            /\ FcGo(t, "create") /\ UNCHANGED <<fcStatus, forgotten>>
  <2>1. /\ fcPc' \in [Copies -> FCPc] /\ fcPc'[t] = "create"
        /\ \A x \in Copies : x # t => fcPc'[x] = fcPc[x]
    BY <1>5, <1>10
  <2>2. FCTypeOK'
    BY <2>1, <1>1, <1>2, <1>5, <1>10 DEF FCTypeOK, FCPc
  <2>3. PathInv'
    <3>1. ASSUME NEW x \in Copies PROVE Place(x)' /\ Arrived(x)'
      BY <2>1, <1>0, <1>1, <1>2, <1>10 DEF PathInv, Place, Arrived
    <3>2. QED
      BY <3>1, <1>1, <1>2 DEF PathInv
  <2>4. TrackedInv'
    BY <2>1, <1>0, <1>1, <1>2, <1>10, StillTracked
  <2>5. \A d : MarkedAt(d)' <=> MarkedAt(d)
    BY <2>1, <1>1, <1>2 DEF MarkedAt
  <2>6. AccountedInv'
    BY <2>5, <1>2, <1>10 DEF FolderInd, AccountedInv
  <2>7. ForeignInv'
    BY <2>5, <1>2, <1>4, <1>10 DEF FolderInd, ForeignInv, IsCreatedByUs
  <2>8. OnlyForeignFoldersAreSkipped' /\ before' \subseteq CopyFolders
    BY <1>2, <1>10 DEF FolderInd, OnlyForeignFoldersAreSkipped
  <2>9. QED
    BY <2>2, <2>3, <2>4, <2>6, <2>7, <2>8 DEF FolderInd
<1>11. QED
  BY <1>3, <1>7, <1>8, <1>9, <1>10

(* While the lock is free nobody has a mark to write down.                 *)
LEMMA NobodyMarks ==
    ASSUME FolderInd, mu = Top
    PROVE  \A x \in Copies : fcPc[x] # "mark"
  BY CopyAssumption DEF FolderInd, PathInv, Place

(* The folder is made; until that is written down the lock is held.        *)
LEMMA DoCreationKeeps ==
    ASSUME FolderInd, NEW t \in Copies, DoCreation(t)
    PROVE  FolderInd'
<1> DEFINE d == fcAt[t]
<1>1. /\ FCTypeOK /\ fcPc[t] = "create" /\ mu = Top
      /\ PathInv /\ Place(t) /\ Arrived(t)
  BY DEF FolderInd, PathInv, DoCreation
<1>2. /\ UNCHANGED <<dest, overwrite, fcStatus, runs, scheduled, jobStopped, fcAt, contents,
                     unregisteredButCreated, before, forgotten>>
      /\ there' = there \cup {d} /\ mu' = t /\ d \notin there
      /\ withProperties' \subseteq withProperties \cup {d}
      /\ dest = "blob" \/ FolderOf[d] \in there \cup {Top}
  BY DEF DoCreation, fcPlan, fcHistory
<1>3. /\ fcPc' \in [Copies -> FCPc] /\ fcPc'[t] = "mark"
      /\ \A x \in Copies : x # t => fcPc'[x] = fcPc[x]
  BY <1>1, FcGoLemma DEF FCPc, DoCreation
<1>4. d \in CopyFolders /\ d \in PathTo(Needs(t))
  BY <1>1, NeedsIsAFolder, NoPathToTop, PathLemma DEF Place
<1>5. dest = "blob" => d = t
  BY <1>1 DEF Place
<1>6. \A x \in Copies : fcPc[x] # "mark"
  BY <1>1, NobodyMarks
<1>7. \A x : ~MarkedAt(x) /\ (MarkedAt(x)' <=> x = d)
  BY <1>2, <1>3, <1>6 DEF MarkedAt
<1> HIDE DEF d
<1>8. FCTypeOK'
  BY <1>1, <1>2, <1>3, <1>4 DEF FCTypeOK, FCPc
<1>9. PathInv'
  <2>1. ASSUME NEW x \in Copies, x # t PROVE Place(x)' /\ Arrived(x)'
    <3>1. Place(x) /\ Arrived(x)
      BY <1>1 DEF PathInv
    <3>2. Place(x)'
      BY <2>1, <3>1, <1>2, <1>3, <1>5, <1>6 DEF Place
    <3>3. Arrived(x)'
      BY <2>1, <3>1, <1>2, <1>3 DEF Arrived
    <3>4. QED
      BY <3>2, <3>3
  <2>2. Place(t)' /\ Arrived(t)'
    BY <1>1, <1>2, <1>3, <1>4 DEF Place, Arrived, d
  <2>3. dest # "blob" => HasItsParents(there)'
    BY <1>1, <1>2 DEF PathInv, HasItsParents
  <2>4. QED
    BY <2>1, <2>2, <2>3, <1>2 DEF PathInv
<1>10. TrackedInv'
  BY <1>1, <1>2, <1>3, StillTracked
<1>11. AccountedInv'
  BY <1>2, <1>7 DEF FolderInd, AccountedInv
<1>12. ForeignInv'
  BY <1>2, <1>7 DEF FolderInd, ForeignInv
<1>13. OnlyForeignFoldersAreSkipped' /\ before' \subseteq CopyFolders
  BY <1>2 DEF FolderInd, OnlyForeignFoldersAreSkipped
<1>14. QED
  BY <1>8, <1>9, <1>10, <1>11, <1>12, <1>13 DEF FolderInd

(* The request fails, or the folder exists.                                *)
LEMMA CreationFailsKeeps ==
    ASSUME FolderInd, NEW t \in Copies, CreationFails(t)
    PROVE  FolderInd'
<1>1. /\ FCTypeOK /\ fcPc[t] = "create" /\ mu = Top
      /\ PathInv /\ Place(t) /\ Arrived(t)
  BY DEF FolderInd, PathInv, CreationFails
<1>2. UNCHANGED <<dest, overwrite, there, withProperties, runs, scheduled, jobStopped, contents,
                  unregisteredButCreated, before, forgotten>>
  BY DEF CreationFails, fcWorld, fcHistory
<1>3. CASE dest # "blob"
  <2> DEFINE ok == fcAt[t] \in there
  <2>1. ok \in BOOLEAN /\ AfterCreate(t, ok) /\ UNCHANGED <<fcStatus, mu>>
    BY <1>3 DEF CreationFails
  <2>2. /\ fcPc' \in [Copies -> FCPc] /\ fcAt' \in [Copies -> Copies]
        /\ \A x \in Copies : x # t => fcPc'[x] = fcPc[x] /\ fcAt'[x] = fcAt[x]
        /\ \/ fcPc'[t] = "create" /\ fcAt'[t] \in PathTo(Needs(t)) /\ dest # "blob"
           \/ fcPc'[t] = "properties" /\ ok /\ t \in CopyFolders /\ fcAt[t] = Needs(t)
           \/ fcPc'[t] = "complete" /\ ok /\ t \notin CopyFolders /\ fcAt[t] = Needs(t)
           \/ fcPc'[t] = "failEnsure"
    <3> HIDE DEF ok
    <3>1. QED
      BY <1>1, <2>1, AfterCreateLemma
  <2>3. Place(t)' /\ Arrived(t)'
    BY <1>1, <1>2, <1>3, <2>1, <2>2 DEF Place, Arrived
  <2>4. /\ fcStatus' \in [Copies -> FCStatus] /\ withProperties' \subseteq there
        /\ overwrite = "false" => withProperties' \cap before = {}
    BY <1>1, <1>2, <2>1 DEF FolderInd, FCTypeOK, ForeignInv, FCStatus
  <2>5. OwnStep(t)
    BY <1>1, <1>2, <2>1, <2>2, <2>3, <2>4 DEF OwnStep, FolderInd, OnlyForeignFoldersAreSkipped
  <2>6. QED
    BY <2>5, OwnStepKeeps
<1>4. CASE dest = "blob"
  <2>1. /\ fcStatus' = IF jobStopped THEN fcStatus ELSE WithStatus(t, "Failed")
        /\ mu' = t /\ FcGo(t, "mark") /\ UNCHANGED fcAt
    BY <1>4 DEF CreationFails
  <2>2. /\ fcPc' \in [Copies -> FCPc] /\ fcPc'[t] = "mark"
        /\ \A x \in Copies : x # t => fcPc'[x] = fcPc[x]
    BY <2>1, <1>1, FcGoLemma DEF FCPc
  <2>3. t \in CopyFolders /\ fcAt[t] = t /\ t \notin there
    BY <1>1, <1>4 DEF Place
  <2>4. /\ fcStatus' \in [Copies -> FCStatus]
        /\ \A x \in Copies : x # t => fcStatus'[x] = fcStatus[x]
        /\ fcStatus'[t] = fcStatus[t] \/ fcStatus'[t] = "Failed"
    <3>1. "Failed" \in FCStatus
      BY DEF FCStatus
    <3>2. CASE jobStopped
      BY <3>2, <2>1, <1>1 DEF FCTypeOK, FCStatus
    <3>3. CASE ~jobStopped
      BY <3>1, <3>3, <2>1, <1>1, WithStatusLemma
    <3>4. QED
      BY <3>2, <3>3
  <2>5. \A x \in Copies : fcPc[x] # "mark"
    BY <1>1, NobodyMarks
  <2>6. \A x : ~MarkedAt(x) /\ (MarkedAt(x)' <=> x = t)
    BY <2>1, <2>2, <2>3, <2>5 DEF MarkedAt
  <2>7. FCTypeOK'
    BY <1>1, <1>2, <2>1, <2>2, <2>4 DEF FCTypeOK, FCPc, FCStatus
  <2>8. PathInv'
    <3>1. ASSUME NEW x \in Copies, x # t PROVE Place(x)' /\ Arrived(x)'
      BY <3>1, <1>1, <1>2, <1>4, <2>1, <2>2, <2>4, <2>5 DEF PathInv, Place, Arrived
    <3>2. Place(t)' /\ Arrived(t)'
      BY <1>1, <1>2, <1>4, <2>1, <2>2, <2>3 DEF Place, Arrived
    <3>3. QED
      BY <3>1, <3>2, <1>2, <1>4 DEF PathInv
  <2>9. TrackedInv'
    BY <1>1, <1>2, <2>2, <2>4, StillTracked
  <2>10. AccountedInv'
    <3>1. \A x \in there : x # t /\ x \in Copies
      BY <2>3, <1>1 DEF FCTypeOK, Copies
    <3>2. QED
      BY <3>1, <1>2, <2>4, <2>6 DEF FolderInd, AccountedInv
  <2>11. ForeignInv'
    BY <1>2, <2>3, <2>4, <2>6, NeedsIsAFolder DEF FolderInd, ForeignInv
  <2>12. OnlyForeignFoldersAreSkipped' /\ before' \subseteq CopyFolders
    BY <1>2, <2>4, NeedsIsAFolder DEF FolderInd, OnlyForeignFoldersAreSkipped
  <2>13. QED
    BY <2>7, <2>8, <2>9, <2>10, <2>11, <2>12 DEF FolderInd
<1>5. QED
  BY <1>3, <1>4

(* The rest of CreateFolder writes the mark down, or remembers it.         *)
LEMMA MarkCreatedKeeps ==
    ASSUME FolderInd, NEW t \in Copies, MarkCreated(t)
    PROVE  FolderInd'
<1> DEFINE d == fcAt[t]
<1>1. /\ FCTypeOK /\ fcPc[t] = "mark" /\ mu = t
      /\ PathInv /\ Place(t) /\ Arrived(t)
  BY DEF FolderInd, PathInv, MarkCreated, Place
<1>2. /\ UNCHANGED <<dest, overwrite, there, withProperties, runs, scheduled, jobStopped, contents,
                     before>>
      /\ mu' = Top
  BY DEF MarkCreated, fcWorld
<1>3. AfterCreate(t, TRUE) /\ TRUE \in BOOLEAN
  BY DEF MarkCreated
<1>4. /\ fcPc' \in [Copies -> FCPc] /\ fcAt' \in [Copies -> Copies]
      /\ \A x \in Copies : x # t => fcPc'[x] = fcPc[x] /\ fcAt'[x] = fcAt[x]
      /\ \/ fcPc'[t] = "create" /\ fcAt'[t] \in PathTo(Needs(t)) /\ dest # "blob"
         \/ fcPc'[t] = "properties" /\ t \in CopyFolders /\ d = Needs(t)
         \/ fcPc'[t] = "complete" /\ t \notin CopyFolders /\ d = Needs(t)
  BY <1>1, <1>3, AfterCreateLemma
<1>5. d \in CopyFolders /\ d \in Copies /\ (dest = "blob" => d = t /\ d \in contents)
  <2>1. d \in CopyFolders
    BY <1>1, NeedsIsAFolder, NoPathToTop, PathLemma DEF Place
  <2>2. dest = "blob" => d = t
    BY <1>1 DEF Place
  <2>3. QED
    BY <2>1, <2>2, <1>1, NeedsIsAFolder DEF FolderInd, TrackedInv
<1>6. /\ fcStatus' \in [Copies -> FCStatus]
      /\ \A x \in Copies : x # d => fcStatus'[x] = fcStatus[x]
      /\ fcStatus'[d] = IF d \in contents /\ ~Locked(fcStatus[d])
                        THEN "FolderCreated" ELSE fcStatus[d]
  <2>1. "FolderCreated" \in FCStatus
    BY DEF FCStatus
  <2>2. CASE d \in contents
    BY <2>1, <2>2, <1>1, <1>5, WithStatusLemma DEF MarkCreated
  <2>3. CASE d \notin contents
    BY <2>3, <1>1 DEF MarkCreated, FCTypeOK, FCStatus
  <2>4. QED
    BY <2>2, <2>3
<1>7. /\ unregisteredButCreated' =
            IF d \in contents THEN unregisteredButCreated ELSE unregisteredButCreated \cup {d}
      /\ forgotten \subseteq forgotten'
      /\ d \in contents /\ Locked(fcStatus[d]) /\ d \in there => d \in forgotten'
  BY DEF MarkCreated
<1>8. \A x \in Copies : fcPc[x] = "mark" => x = t
  BY <1>1 DEF PathInv, Place
<1>9. \A x : (MarkedAt(x) <=> x = d) /\ ~MarkedAt(x)'
  BY <1>1, <1>4, <1>8 DEF MarkedAt
<1> HIDE DEF d
<1>10. FCTypeOK'
  BY <1>1, <1>2, <1>4, <1>5, <1>6, <1>7 DEF FCTypeOK, FCPc, FCStatus
<1>11. PathInv'
  <2>1. ASSUME NEW x \in Copies, x # t PROVE Place(x)' /\ Arrived(x)'
    <3>1. Place(x) /\ Arrived(x)
      BY <1>1 DEF PathInv
    <3>2. Place(x)'
      BY <2>1, <3>1, <1>2, <1>4, <1>5, <1>6, <1>8 DEF Place
    <3>3. Arrived(x)'
      BY <2>1, <3>1, <1>2, <1>4, <1>6 DEF Arrived
    <3>4. QED
      BY <3>2, <3>3
  <2>2. Place(t)'
    BY <1>1, <1>2, <1>4, <1>5, <1>6 DEF Place
  <2>3. Arrived(t)'
    <3>1. dest # "blob" => d \in there
      BY <1>1 DEF Place, d
    <3>2. fcStatus'[t] = "Success" => fcStatus[t] = "Success"
      BY <1>6
    <3>3. QED
      BY <3>1, <3>2, <1>1, <1>2, <1>4 DEF Arrived
  <2>4. QED
    BY <2>1, <2>2, <2>3, <1>1, <1>2 DEF PathInv, HasItsParents
<1>12. TrackedInv'
  <2>1. \A x \in Copies : Locked(fcStatus'[x]) => fcStatus'[x] = fcStatus[x]
    BY <1>6 DEF Locked
  <2>2. QED
    BY <2>1, <1>1, <1>2, <1>4, StillTracked
<1>13. AccountedInv'
  <2>1. ASSUME NEW x \in there
        PROVE  \/ x \in before \cup forgotten' \cup unregisteredButCreated'
               \/ fcStatus'[x] \in {"FolderCreated", "Success"}
    <3>1. x \in Copies
      BY <1>1 DEF FCTypeOK, Copies
    <3>2. CASE x = d
      BY <3>2, <1>6, <1>7
    <3>3. CASE x # d
      BY <3>1, <3>3, <1>6, <1>7, <1>9 DEF FolderInd, AccountedInv
    <3>4. QED
      BY <3>2, <3>3
  <2>2. QED
    BY <2>1, <1>2 DEF AccountedInv
<1>14. ForeignInv'
  <2>1. overwrite = "false" => d \notin before
    BY <1>9 DEF FolderInd, ForeignInv
  <2>2. before \subseteq Copies
    BY NeedsIsAFolder DEF FolderInd
  <2>3. QED
    BY <2>1, <2>2, <1>2, <1>6, <1>7, <1>9 DEF FolderInd, ForeignInv
<1>15. OnlyForeignFoldersAreSkipped' /\ before' \subseteq CopyFolders
  BY <1>2, <1>5, <1>6, <1>7, NeedsIsAFolder DEF FolderInd, OnlyForeignFoldersAreSkipped
<1>16. QED
  BY <1>10, <1>11, <1>12, <1>13, <1>14, <1>15 DEF FolderInd

-----------------------------------------------------------------------------
(* The job.                                                                *)

(* The job is cancelled.                                                   *)
LEMMA StopJobKeeps ==
    ASSUME FolderInd, StopJob
    PROVE  FolderInd'
<1>1. /\ UNCHANGED <<dest, overwrite, fcStatus, there, withProperties, runs, scheduled, fcPc, fcAt,
                     contents, unregisteredButCreated, mu, before, forgotten>>
      /\ jobStopped' = TRUE
  BY DEF StopJob, fcPlan, fcWorld, trackerState, fcHistory
<1>2. FCTypeOK' /\ PathInv' /\ TrackedInv'
  BY <1>1 DEF FolderInd, FCTypeOK, PathInv, TrackedInv, Place, Arrived
<1>3. AccountedInv' /\ ForeignInv' /\ OnlyForeignFoldersAreSkipped' /\ before' \subseteq CopyFolders
  BY <1>1 DEF FolderInd, AccountedInv, ForeignInv, OnlyForeignFoldersAreSkipped, MarkedAt
<1>4. QED
  BY <1>2, <1>3 DEF FolderInd

(* The next process starts from the plan files.                            *)
LEMMA ResumeCopyKeeps ==
    ASSUME FolderInd, ResumeCopy
    PROVE  FolderInd'
<1>1. FCTypeOK /\ fcStatus \in [Copies -> FCStatus]
  BY DEF FolderInd, FCTypeOK, FCStatus
<1>2. /\ UNCHANGED <<dest, overwrite, there, withProperties, before>>
      /\ runs' \in 1..MaxRuns /\ scheduled' = 0 /\ jobStopped' = FALSE
      /\ contents' = {} /\ unregisteredButCreated' = {} /\ mu' = Top
  BY <1>1, CopyAssumption DEF ResumeCopy, fcWorld, FCTypeOK
<1>3. /\ fcPc' = [t \in Copies |-> "planned"] /\ fcAt' = [t \in Copies |-> t]
      /\ fcPc' \in [Copies -> FCPc] /\ fcAt' \in [Copies -> Copies]
  BY DEF ResumeCopy, FCPc
<1>4. /\ fcStatus' \in [Copies -> FCStatus]
      /\ \A x \in Copies :
           /\ fcStatus'[x] = IF fcStatus[x] \in {"Failed", "Skipped", "Cancelled"}
                             THEN "Restarted" ELSE fcStatus[x]
           /\ ~Locked(fcStatus'[x]) \/ fcStatus'[x] = "Success"
           /\ fcStatus'[x] = "Success" <=> fcStatus[x] = "Success"
           /\ fcStatus'[x] = "FolderCreated" <=> fcStatus[x] = "FolderCreated"
  BY <1>1 DEF ResumeCopy, FCStatus, Locked
<1>5. /\ forgotten \cup unregisteredButCreated \subseteq forgotten'
      /\ \A x : MarkedAt(x) => x \in forgotten'
  BY DEF ResumeCopy, MarkedAt
<1>6. FCTypeOK'
  <2>1. 0 \in 0..Len(Schedule) /\ FALSE \in BOOLEAN
    BY CopyAssumption
  <2>2. scheduled' \in 0..Len(Schedule) /\ jobStopped' \in BOOLEAN
    BY <2>1, <1>2
  <2>3. QED
    BY <2>2, <1>1, <1>2, <1>3, <1>4 DEF FCTypeOK, FCPc, FCStatus
<1>7. PathInv'
  <2>1. ASSUME NEW x \in Copies PROVE Place(x)' /\ Arrived(x)'
    BY <1>2, <1>3, <1>4 DEF FolderInd, PathInv, Place, Arrived
  <2>2. QED
    BY <2>1, <1>2 DEF FolderInd, PathInv, HasItsParents
<1>8. TrackedInv'
  <2>1. \A i \in DOMAIN Schedule : Schedule[i] \in Copies
    BY CopyAssumption
  <2>2. QED
    BY <2>1, <1>3, <1>4 DEF TrackedInv, Copies
<1>9. \A x : ~MarkedAt(x)'
  BY <1>3 DEF MarkedAt
<1>10. there \subseteq Copies /\ before \subseteq Copies
  BY <1>1 DEF FolderInd, FCTypeOK, Copies
<1>11. AccountedInv'
  BY <1>2, <1>4, <1>5, <1>10 DEF FolderInd, AccountedInv
<1>12. ForeignInv'
  BY <1>2, <1>4, <1>9, <1>10 DEF FolderInd, ForeignInv
<1>13. OnlyForeignFoldersAreSkipped' /\ before' \subseteq CopyFolders
  <2>1. \A x \in CopyFolders : fcStatus'[x] # "Skipped"
    BY <1>4 DEF Copies, Locked
  <2>2. QED
    BY <2>1, <1>2 DEF FolderInd, OnlyForeignFoldersAreSkipped
<1>14. QED
  BY <1>6, <1>7, <1>8, <1>11, <1>12, <1>13 DEF FolderInd

(* Any step.                                                               *)
LEMMA NextKeeps ==
    ASSUME FolderInd, [FCNext]_fcVars
    PROVE  FolderInd'
<1>1. ASSUME NEW t \in Copies, CopyStep(t)
      PROVE  FolderInd'
  BY <1>1, StartCopyKeeps, StatKeeps, AlreadyCreatedKeeps, DoCreationKeeps, CreationFailsKeeps,
     MarkCreatedKeeps, ProbeBlobFolderKeeps, SetPropertiesKeeps, FailCopyKeeps, CompleteCopyKeeps
     DEF CopyStep
<1>2. CASE UNCHANGED fcVars
  <2>1. UNCHANGED <<dest, overwrite, fcStatus, there, withProperties, runs, scheduled, jobStopped,
                    fcPc, fcAt, contents, unregisteredButCreated, mu, before, forgotten>>
    BY <1>2 DEF fcVars, fcPlan, fcWorld, trackerState, fcHistory
  <2>2. FCTypeOK' /\ PathInv' /\ TrackedInv'
    BY <2>1 DEF FolderInd, FCTypeOK, PathInv, TrackedInv, Place, Arrived
  <2>3. AccountedInv' /\ ForeignInv' /\ OnlyForeignFoldersAreSkipped' /\ before' \subseteq CopyFolders
    BY <2>1 DEF FolderInd, AccountedInv, ForeignInv, OnlyForeignFoldersAreSkipped, MarkedAt
  <2>4. QED
    BY <2>2, <2>3 DEF FolderInd
<1>3. QED
  BY <1>1, <1>2, ScheduleTransferKeeps, StopJobKeeps, ResumeCopyKeeps DEF FCNext

(* The invariant says what the run checks.                                 *)
LEMMA FolderIndImplies ==
    ASSUME FolderInd
    PROVE  FolderInv
<1>1. ForeignFoldersKeepTheirs
  BY DEF FolderInd, ForeignInv, ForeignFoldersKeepTheirs
<1>2. SuccessMeansCreated
  <2>1. SUFFICES ASSUME dest # "blob", NEW t \in Copies, fcStatus[t] = "Success"
                 PROVE  PathTo(Needs(t)) \subseteq there
    BY DEF SuccessMeansCreated
  <2>2. Needs(t) \in there \cup {Top} /\ HasItsParents(there)
    BY <2>1 DEF FolderInd, PathInv, Arrived
  <2>3. there \in SUBSET CopyFolders /\ Needs(t) \in CopyFolders \cup {Top}
    BY NeedsIsAFolder DEF FolderInd, FCTypeOK
  <2>4. QED
    BY <2>2, <2>3, PathIsLeast
<1>3. EveryFolderIsTracked
  BY DEF FolderInd, TrackedInv, EveryFolderIsTracked
<1>4. QED
  BY <1>1, <1>2, <1>3 DEF FolderInd, FolderInv

(* In every job, however its transfers overlap and however often it is     *)
(* cancelled, killed and resumed, the inductive invariant holds.           *)
THEOREM FolderInvariant == FCSpec => []FolderInd
  BY InitHolds, NextKeeps, PTL DEF FCSpec

(* So a succeeded transfer has its folders, folders of others keep their   *)
(* properties, folders of the job are passed over only when the job has    *)
(* forgotten them, and the tracker never panics (folderCreationTracker.go).*)
THEOREM FolderInvHolds == FCSpec => []FolderInv
  BY FolderInvariant, FolderIndImplies, PTL

-----------------------------------------------------------------------------
(* InPlaceSend.                                                            *)

(* The types that IPTypeOK leaves out. *)
FileType ==
    /\ IPTypeOK
    /\ kind \in {"page", "disk", "append", "share", "adls"} /\ (kind = "adls" => isUpload)
    /\ isUpload \in BOOLEAN /\ withData \subseteq Cell
    /\ destBefore \in Seq(Data)
    /\ ctxOver \in BOOLEAN /\ destIsModified \in BOOLEAN
    /\ created \in BOOLEAN /\ unknown \in BOOLEAN
    /\ timeoutFromCtx \in [Cell -> BOOLEAN]
    /\ kind \notin {"page", "disk"} => sourcePages = NoPages

(* The scheduler's place, and what it tells about the chunks. *)
ChunkPlaceInv ==
    /\ sendPc = "prologue" => scheduledCells = 0 /\ flushed = 0
    /\ sendPc = "schedule" => scheduledCells < SendChunks
    /\ sendPc \notin {"prologue", "schedule"} => scheduledCells = SendChunks
    /\ \A c \in Cell : cell[c] = "none" <=> c > scheduledCells
    /\ sendPc \notin {"prologue", "schedule", "chunks"} => \A c \in Cell : cell[c] = "done"

(* The context of a transfer that has not ended is done when its status    *)
(* says that something went wrong.                                         *)
StatusInv ==
    /\ sendStatus \in {"Failed", "Cancelled"} => ctxOver
    /\ sendStatus = "Success" => sendPc = "done"

(* Chunks after one that could not be read have not been read either.      *)
UnreadInv ==
    /\ \A c \in Cell : cell[c] = "unread" => prefetchErr
    /\ ~ctxOver =>
           \A c, d \in Cell :
               cell[c] = "unread" /\ c < d => cell[d] \in {"none", "unread"}

(* A destination that a live transfer works on has been made by it, and    *)
(* destIsModified says so.                                                 *)
ModifiedInv ==
    /\ ~ctxOver /\ sendPc # "prologue" /\ kind # "disk" => created /\ destIsModified
    /\ \A c \in Cell : cell[c] = "sending" => destIsModified
    /\ kind \in {"share", "adls"} /\ sendPc # "prologue" => destIsModified
    /\ kind \in {"page", "append"} /\ destIsModified => created
    /\ \A c \in Cell : cell[c] = "noop" => ctxOver

ControlInv == ChunkPlaceInv /\ StatusInv /\ UnreadInv /\ ModifiedInv

(* A page blob, a disk or a share's file: what is done is right, what is   *)
(* not sent may be left as it is.                                          *)
RangesInv ==
    /\ DOMAIN destFile = Cell
    /\ \A c \in Cell : cell[c] = "done" => destFile[c] = Source[c]
    /\ kind # "disk" => \A c \in Cell : destFile[c] \in {Zeros, Source[c]}
    /\ kind = "disk" /\ destPages # NoPages =>
           \A c \in Cell \ destPages : destFile[c] \in {Zeros, Source[c]}
    /\ sourcePages # NoPages => \A c \in Cell \ sourcePages : Source[c] = Zeros

(* An append blob has grown up to the chunk that may be sent. *)
AppendInv ==
    /\ Len(destFile) <= SendChunks
    /\ \A i \in 1 .. Len(destFile) : destFile[i] = Source[i]
    /\ \A c \in Cell :
         /\ cell[c] = "done" => c <= Len(destFile)
         /\ cell[c] \in {"none", "queued", "unread"} => Len(destFile) < c
         /\ cell[c] = "sending" => Len(destFile) \in {c - 1, c}
         /\ cell[c] = "sending" /\ attempts[c] = 0 => Len(destFile) = c - 1
         /\ cell[c] \in {"queued", "sending"} =>
                soleChunk = c /\ \A d \in Cell : d < c => cell[d] = "done"

(* An ADLS file shows what has been flushed, and that was appended.        *)
FlushInv ==
    /\ destFile = [c \in 1 .. flushed |-> Source[c]]
    /\ \A c \in Cell : cell[c] = "done" => c \in appended
    /\ sendPc \in {"length", "cleanup", "complete", "done"} => flushed = SendChunks

DataInv ==
    /\ sendPc = "prologue" /\ kind = "disk" => DOMAIN destFile = Cell
    /\ ~ctxOver /\ sendPc # "prologue" =>
         /\ kind \in {"page", "disk", "share"} => RangesInv
         /\ kind = "append" => AppendInv
         /\ kind = "adls" => FlushInv
    /\ SuccessMeansSame

(* What is left when the transfer has ended, and before the clean-up. *)
KeptInv ==
    /\ UntouchedIsKept
    /\ sendPc = "prologue" => destFile = destBefore /\ ~destIsModified
    /\ sendPc \notin {"complete", "done"} /\ ~destIsModified /\ ~unknown /\ kind # "disk" =>
           destFile = destBefore
    /\ sendPc \in {"complete", "done"} /\ ~unknown /\ kind # "disk" =>
           destFile \in {destBefore, Absent, Source}

SendInv == FileType /\ ControlInv /\ DataInv /\ KeptInv

-----------------------------------------------------------------------------
(* The source is a file, and so is all that a destination can become.      *)
LEMMA FileShapes ==
    ASSUME withData \subseteq Cell
    PROVE  /\ Source \in [Cell -> Data]
           /\ Source \in Seq(Data)
           /\ NewFile \in Seq(Data)
           /\ Absent \in Seq(Data)
<1>1. Source \in [Cell -> Data]
  BY InPlaceAssumption DEF Source, Data, Cell, Zeros
<1>2. Source \in Seq(Data)
  BY <1>1, InPlaceAssumption DEF Cell
<1>3. NewFile \in Seq(Data)
  BY InPlaceAssumption DEF NewFile, Data, Cell, Zeros
<1>4. Absent \in Seq(Data)
  BY DEF Absent, Data
<1> QED BY <1>1, <1>2, <1>3, <1>4

(* At first nothing has been done. *)
LEMMA InitSend == IPInit => SendInv
<1> SUFFICES ASSUME IPInit PROVE SendInv
  OBVIOUS
<1> USE InPlaceAssumption DEF IPInit
<1>1. destBefore \in Seq(Data)
  BY FileShapes DEF Cell, Data, Zeros, Foreign
<1>2. FileType
  <2>1. appended = {} /\ flushed \in 0 .. SendChunks /\ scheduledCells \in 0 .. SendChunks
    BY DEF Cell
  <2>2. /\ cell \in [Cell -> {"none", "queued", "noop", "unread", "sending", "done"}]
        /\ attempts \in [Cell -> 0 .. MaxAttempts - 1]
        /\ timeoutFromCtx \in [Cell -> BOOLEAN]
    OBVIOUS
  <2>3. /\ kind \in {"page", "disk", "append", "share", "adls"} /\ (kind = "adls" => isUpload)
        /\ isUpload \in BOOLEAN /\ withData \subseteq Cell /\ sourcePages = NoPages
    OBVIOUS
  <2> QED BY <1>1, <2>1, <2>2, <2>3 DEF FileType, IPTypeOK
<1>3. ControlInv
  BY DEF ControlInv, ChunkPlaceInv, StatusInv, UnreadInv, ModifiedInv, Cell
<1>4. DataInv
  <2>1. kind = "disk" => DOMAIN destFile = Cell
    BY DEF Absent
  <2> QED BY <2>1 DEF DataInv, SuccessMeansSame
<1>5. KeptInv
  BY DEF KeptInv, UntouchedIsKept
<1> QED BY <1>2, <1>3, <1>4, <1>5 DEF SendInv

(* What carrying out a request does to the file. *)
LEMMA CarriedOut ==
    ASSUME FileType, NEW c \in Cell, CarryOut(c)
    PROVE  /\ destFile' \in Seq(Data)
            /\ appended' \subseteq Cell
<1>1. Source \in [Cell -> Data] /\ Source[c] \in Data
  BY FileShapes DEF FileType
<1>2. destFile \in Seq(Data)
  BY DEF FileType, IPTypeOK
<1>3. Append(destFile, Source[c]) \in Seq(Data)
  BY <1>1, <1>2
<1>4. [destFile EXCEPT ![c] = Source[c]] \in Seq(Data)
  <2>1. PICK n \in Nat : destFile \in [1 .. n -> Data]
    BY <1>2
  <2>2. [destFile EXCEPT ![c] = Source[c]] \in [1 .. n -> Data]
    BY <1>1, <2>1
  <2> QED BY <2>1, <2>2
<1> QED BY <1>2, <1>3, <1>4 DEF FileType, IPTypeOK, CarryOut

(* Every step keeps the types. *)
LEMMA FileTypeStep ==
    ASSUME FileType, ControlInv, IPNext
    PROVE  FileType'
<1> USE InPlaceAssumption DEF FileType, IPTypeOK, FailActive
<1>1. CASE Prologue
  <2>1. destFile' \in Seq(Data)
    BY <1>1, FileShapes DEF Prologue, CreateSucceeds, CreateFails, CheckDisk
  <2>2. destIsModified' \in BOOLEAN
    <3>1. ModifiesFromTheStart \in BOOLEAN
      BY DEF ModifiesFromTheStart
    <3> QED BY <1>1, <3>1 DEF Prologue, CreateSucceeds, CreateFails, CheckDisk
  <2>3. /\ ctxOver' \in BOOLEAN /\ created' \in BOOLEAN /\ unknown' \in BOOLEAN
        /\ sendStatus' \in {"Started", "Failed", "Cancelled", "Success"}
    BY <1>1 DEF Prologue, CreateSucceeds, CreateFails, CheckDisk
  <2> QED BY <1>1, <2>1, <2>2, <2>3 DEF Prologue, fixedVars, chunkVars
<1>2. CASE ScheduleCell
  BY <1>2 DEF ScheduleCell, fixedVars, pageVars, traceVars, ControlInv, ChunkPlaceInv, Cell
<1>3. ASSUME NEW c \in Cell, StartChunk(c) PROVE FileType'
  <2>1. /\ cell' \in [Cell -> {"none", "queued", "noop", "unread", "sending", "done"}]
        /\ soleChunk' \in {0} \cup Cell /\ (kind # "append" => soleChunk' = 0)
    BY <1>3 DEF StartChunk, Ends
  <2>2. /\ ctxOver' \in BOOLEAN /\ destIsModified' \in BOOLEAN
        /\ sendStatus' \in {"Started", "Failed", "Cancelled", "Success"}
    BY <1>3 DEF StartChunk
  <2> QED BY <1>3, <2>1, <2>2 DEF StartChunk, fixedVars, pageVars, traceVars
<1>4. ASSUME NEW c \in Cell, SendSucceeds(c) PROVE FileType'
  BY <1>4, CarriedOut DEF SendSucceeds, Ends, sendFrame, fixedVars, pageVars, traceVars
<1>5. ASSUME NEW c \in Cell, SendIsRepeated(c) PROVE FileType'
  BY <1>5, CarriedOut DEF SendIsRepeated, sendFrame, fixedVars, pageVars, traceVars
<1>6. ASSUME NEW c \in Cell, SendFails(c) PROVE FileType'
  BY <1>6, CarriedOut DEF SendFails, Ends, sendFrame, fixedVars, pageVars, traceVars
<1>7. ASSUME NEW c \in Cell, PositionIsNotMet(c) PROVE FileType'
  <2>1. /\ cell' \in [Cell -> {"none", "queued", "noop", "unread", "sending", "done"}]
        /\ soleChunk' \in {0} \cup Cell /\ (kind # "append" => soleChunk' = 0)
    BY <1>7 DEF PositionIsNotMet, Ends
  <2>2. /\ ctxOver' \in BOOLEAN
        /\ sendStatus' \in {"Started", "Failed", "Cancelled", "Success"}
    BY <1>7 DEF PositionIsNotMet
  <2> QED BY <1>7, <2>1, <2>2
          DEF PositionIsNotMet, sendFrame, fixedVars, pageVars, traceVars
<1>8. CASE EnterEpilogue
  BY ZenonT(30), <1>8 DEF EnterEpilogue, epilogueFrame, fixedVars, pageVars, chunkVars
<1>9. CASE SetHash
  BY ZenonT(30), <1>9 DEF SetHash, epilogueFrame, fixedVars, pageVars, chunkVars
<1>10. CASE Flush
  <2>1. FlushEnd \in 0 .. SendChunks
    BY <1>10 DEF Flush, FlushEnd
  <2>2. Source \in [Cell -> Data]
    BY FileShapes
  <2>3. Flushed \in [1 .. FlushEnd -> Data]
    BY <2>1, <2>2 DEF Flushed, Cell
  <2>4. Flushed \in Seq(Data)
    BY <2>1, <2>3
  <2>5. destFile' \in Seq(Data) /\ flushed' \in 0 .. SendChunks
    BY <1>10, <2>1, <2>4 DEF Flush
  <2> QED BY <1>10, <2>5 DEF Flush, epilogueFrame, fixedVars, pageVars, chunkVars
<1>11. CASE CheckLength
  BY ZenonT(30), <1>11 DEF CheckLength, epilogueFrame, fixedVars, pageVars, chunkVars
<1>12. CASE Cleanup
  BY ZenonT(30), <1>12, FileShapes DEF Cleanup, epilogueFrame, fixedVars, pageVars, chunkVars
<1>13. CASE CompleteSend
  BY <1>13 DEF CompleteSend, epilogueFrame, fixedVars, pageVars, chunkVars
<1>14. CASE CancelSend
  BY <1>14 DEF CancelSend, epilogueFrame, fixedVars, pageVars, chunkVars
<1> QED BY <1>1, <1>2, <1>3, <1>4, <1>5, <1>6, <1>7, <1>8, <1>9, <1>10, <1>11, <1>12, <1>13, <1>14
        DEF IPNext, SendStep, EpilogueStep, CellStep

(* Every step keeps the scheduler's place. *)
LEMMA ChunkPlaceStep ==
    ASSUME FileType, ChunkPlaceInv, IPNext
    PROVE  ChunkPlaceInv'
<1> USE InPlaceAssumption DEF FileType, IPTypeOK, ChunkPlaceInv
<1>1. CASE Prologue
  BY <1>1 DEF Prologue, chunkVars
<1>2. CASE ScheduleCell
  BY <1>2 DEF ScheduleCell, Cell
<1>3. ASSUME NEW c \in Cell, StartChunk(c) PROVE ChunkPlaceInv'
  BY <1>3 DEF StartChunk, Ends
<1>4. ASSUME NEW c \in Cell, SendSucceeds(c) PROVE ChunkPlaceInv'
  BY <1>4 DEF SendSucceeds, Ends, sendFrame
<1>5. ASSUME NEW c \in Cell, SendIsRepeated(c) PROVE ChunkPlaceInv'
  BY <1>5 DEF SendIsRepeated, sendFrame
<1>6. ASSUME NEW c \in Cell, SendFails(c) PROVE ChunkPlaceInv'
  BY <1>6 DEF SendFails, Ends, sendFrame
<1>7. ASSUME NEW c \in Cell, PositionIsNotMet(c) PROVE ChunkPlaceInv'
  BY <1>7 DEF PositionIsNotMet, Ends, sendFrame
<1>8. CASE EnterEpilogue
  BY <1>8 DEF EnterEpilogue, epilogueFrame, chunkVars
<1>9. CASE SetHash
  BY <1>9 DEF SetHash, epilogueFrame, chunkVars
<1>10. CASE Flush
  BY <1>10 DEF Flush, epilogueFrame, chunkVars
<1>11. CASE CheckLength
  BY <1>11 DEF CheckLength, epilogueFrame, chunkVars
<1>12. CASE Cleanup
  BY <1>12 DEF Cleanup, epilogueFrame, chunkVars
<1>13. CASE CompleteSend
  BY <1>13 DEF CompleteSend, epilogueFrame, chunkVars
<1>14. CASE CancelSend
  BY <1>14 DEF CancelSend, epilogueFrame, chunkVars
<1> QED BY <1>1, <1>2, <1>3, <1>4, <1>5, <1>6, <1>7, <1>8, <1>9, <1>10, <1>11, <1>12, <1>13, <1>14
        DEF IPNext, SendStep, EpilogueStep, CellStep

(* ... and what the status and the context say. *)
LEMMA StatusStep ==
    ASSUME FileType, StatusInv, IPNext
    PROVE  StatusInv'
<1> USE DEF FileType, IPTypeOK, StatusInv, FailActive
<1>1. CASE Prologue
  BY <1>1 DEF Prologue, CreateSucceeds, CreateFails, CheckDisk
<1>2. CASE ScheduleCell
  BY <1>2 DEF ScheduleCell
<1>3. ASSUME NEW c \in Cell, CellStep(c) PROVE StatusInv'
  BY <1>3 DEF CellStep, StartChunk, SendSucceeds, SendIsRepeated, SendFails, PositionIsNotMet,
              sendFrame
<1>4. CASE EpilogueStep
  BY <1>4 DEF EpilogueStep, EnterEpilogue, SetHash, Flush, CheckLength, Cleanup, CompleteSend,
              IsLive
<1>5. CASE CancelSend
  BY <1>5 DEF CancelSend
<1> QED BY <1>1, <1>2, <1>3, <1>4, <1>5 DEF IPNext, SendStep

(* ... and the order of the chunks that could not be read. *)
LEMMA UnreadStep ==
    ASSUME FileType, ChunkPlaceInv, UnreadInv, IPNext
    PROVE  UnreadInv'
<1> USE DEF FileType, IPTypeOK, UnreadInv, FailActive
<1>1. CASE Prologue
  BY <1>1 DEF Prologue, CreateSucceeds, CreateFails, CheckDisk, chunkVars
<1>2. CASE ScheduleCell
  BY <1>2, InPlaceAssumption DEF ScheduleCell, ChunkPlaceInv, Cell
<1>3. ASSUME NEW c \in Cell, StartChunk(c) PROVE UnreadInv'
  BY <1>3 DEF StartChunk, Ends
<1>4. ASSUME NEW c \in Cell, SendSucceeds(c) PROVE UnreadInv'
  BY <1>4 DEF SendSucceeds, Ends, sendFrame
<1>5. ASSUME NEW c \in Cell, SendIsRepeated(c) PROVE UnreadInv'
  BY <1>5 DEF SendIsRepeated, sendFrame
<1>6. ASSUME NEW c \in Cell, SendFails(c) PROVE UnreadInv'
  BY <1>6 DEF SendFails, Ends, sendFrame
<1>7. ASSUME NEW c \in Cell, PositionIsNotMet(c) PROVE UnreadInv'
  BY <1>7 DEF PositionIsNotMet, Ends, sendFrame
<1>8. CASE EpilogueStep
  BY <1>8 DEF EpilogueStep, EnterEpilogue, SetHash, Flush, CheckLength, Cleanup, CompleteSend,
              epilogueFrame, chunkVars
<1>9. CASE CancelSend
  BY <1>9 DEF CancelSend, epilogueFrame, chunkVars
<1> QED BY <1>1, <1>2, <1>3, <1>4, <1>5, <1>6, <1>7, <1>8, <1>9
        DEF IPNext, SendStep, CellStep

(* ... and what is known of the destination. *)
LEMMA ModifiedStep ==
    ASSUME FileType, ChunkPlaceInv, ModifiedInv, IPNext
    PROVE  ModifiedInv'
<1> USE DEF FileType, IPTypeOK, ModifiedInv, FailActive
<1>1. CASE Prologue
  <2>1. \A c \in Cell : cell'[c] = "none"
    BY <1>1 DEF Prologue, chunkVars, ChunkPlaceInv, Cell
  <2>2. CASE kind = "disk"
    BY <1>1, <2>1, <2>2 DEF Prologue, CheckDisk, fixedVars
  <2>3. CASE kind # "disk" /\ CreateSucceeds
    BY <1>1, <2>1, <2>3 DEF Prologue, CreateSucceeds, fixedVars
  <2>4. CASE kind # "disk" /\ CreateFails
    <3>1. ctxOver' /\ kind' = kind
      BY <1>1, <2>4 DEF Prologue, CreateFails, fixedVars
    <3>2. destIsModified' \/ kind \notin {"share", "adls"}
      BY <2>4 DEF CreateFails, ModifiesFromTheStart
    <3>3. created' \/ ~destIsModified' \/ kind \notin {"page", "append"}
      BY <2>4 DEF CreateFails, ModifiesFromTheStart
    <3> QED BY <2>1, <3>1, <3>2, <3>3
  <2> QED BY <1>1, <2>2, <2>3, <2>4 DEF Prologue
<1>2. CASE ScheduleCell
  BY <1>2 DEF ScheduleCell, fixedVars, traceVars
<1>3. ASSUME NEW c \in Cell, StartChunk(c) PROVE ModifiedInv'
  <2>1. sendPc # "prologue"
    BY <1>3 DEF StartChunk, ChunkPlaceInv, Cell
  <2> QED BY <1>3, <2>1 DEF StartChunk, Ends, fixedVars, traceVars
<1>4. ASSUME NEW c \in Cell, SendSucceeds(c) PROVE ModifiedInv'
  BY <1>4 DEF SendSucceeds, Ends, sendFrame, fixedVars, traceVars
<1>5. ASSUME NEW c \in Cell, SendIsRepeated(c) PROVE ModifiedInv'
  BY <1>5 DEF SendIsRepeated, sendFrame, fixedVars, traceVars
<1>6. ASSUME NEW c \in Cell, SendFails(c) PROVE ModifiedInv'
  BY <1>6 DEF SendFails, Ends, sendFrame, fixedVars, traceVars
<1>7. ASSUME NEW c \in Cell, PositionIsNotMet(c) PROVE ModifiedInv'
  BY <1>7 DEF PositionIsNotMet, Ends, sendFrame, fixedVars, traceVars
<1>8. CASE EpilogueStep
  BY <1>8 DEF EpilogueStep, EnterEpilogue, SetHash, Flush, CheckLength, Cleanup, CompleteSend,
              epilogueFrame, chunkVars, fixedVars
<1>9. CASE CancelSend
  BY <1>9 DEF CancelSend, epilogueFrame, chunkVars, fixedVars
<1> QED BY <1>1, <1>2, <1>3, <1>4, <1>5, <1>6, <1>7, <1>8, <1>9
        DEF IPNext, SendStep, CellStep

-----------------------------------------------------------------------------
(* The data.                                                               *)

(* A request for a chunk puts the source's data in its place, and leaves   *)
(* the rest.                                                               *)
LEMMA RangeSent ==
    ASSUME kind \in {"page", "disk", "share"}, DOMAIN destFile = Cell,
           NEW c \in Cell, CarryOut(c)
    PROVE  /\ DOMAIN destFile' = Cell
           /\ destFile'[c] = Source[c]
           /\ \A d \in Cell \ {c} : destFile'[d] = destFile[d]
BY DEF CarryOut

(* A cell that is skipped holds what it should. *)
LEMMA SkippedIsRight ==
    ASSUME FileType, kind \in {"page", "disk", "share"}, RangesInv,
           NEW c \in Cell, IsSkipped(c)
    PROVE  destFile[c] = Source[c]
<1>1. Source[c] = Zeros
  BY DEF IsSkipped, RangesInv, Source
<1>2. destFile[c] \in {Zeros, Source[c]}
  BY DEF IsSkipped, DestContainsData, RangesInv, FileType
<1> QED BY <1>1, <1>2

(* The pages that are fetched leave out only zeros. *)
LEMMA FetchedLeavesZeros ==
    ASSUME NEW file, NEW pages \in FetchedPages(file), pages # NoPages, NEW c \in Cell \ pages
    PROVE  file[c] = Zeros
BY DEF FetchedPages, HasData

(* The source does not change. *)
LEMMA SourceIsFixed == ASSUME UNCHANGED fixedVars PROVE Source' = Source
BY DEF fixedVars, Source

(* The prologue makes the file that the chunks start from. *)
LEMMA PrologueMakesFile ==
    ASSUME FileType, ChunkPlaceInv, Prologue, ~ctxOver',
           kind = "disk" => DOMAIN destFile = Cell
    PROVE  /\ kind \in {"page", "disk", "share"} => RangesInv'
           /\ kind = "append" => AppendInv'
           /\ kind = "adls" => FlushInv'
<1>1. ~ctxOver /\ \A c \in Cell : cell'[c] = "none"
  BY DEF Prologue, CreateSucceeds, CreateFails, CheckDisk, FailActive, FileType, ChunkPlaceInv, Cell,
         chunkVars
<1>2. UNCHANGED fixedVars /\ Source' = Source
  BY SourceIsFixed DEF Prologue
<1>3. destFile' = IF kind = "disk" THEN destFile ELSE NewFile
  BY DEF Prologue, CreateSucceeds, CreateFails, CheckDisk, FailActive
<1>4. ASSUME kind \in {"page", "disk", "share"} PROVE RangesInv'
  <2>1. DOMAIN destFile' = Cell
    BY <1>3, <1>4 DEF NewFile
  <2>2. kind' # "disk" => \A c \in Cell : destFile'[c] \in {Zeros, Source'[c]}
    BY <1>2, <1>3, <1>4 DEF NewFile, fixedVars
  <2>3. kind' = "disk" /\ destPages' # NoPages =>
            \A c \in Cell \ destPages' : destFile'[c] \in {Zeros, Source'[c]}
    BY <1>2, <1>3, FetchedLeavesZeros DEF Prologue, fixedVars
  <2>4. sourcePages' # NoPages => \A c \in Cell \ sourcePages' : Source'[c] = Zeros
    BY <1>2, FetchedLeavesZeros DEF Prologue
  <2> QED BY <1>1, <2>1, <2>2, <2>3, <2>4 DEF RangesInv
<1>5. ASSUME kind = "append" PROVE AppendInv'
  <2>1. destFile' = <<>>
    BY <1>3, <1>5 DEF NewFile
  <2> QED BY <1>1, <2>1, InPlaceAssumption DEF AppendInv, Cell
<1>6. ASSUME kind = "adls" PROVE FlushInv'
  <2>1. destFile' = <<>> /\ flushed' = 0
    BY <1>3, <1>6 DEF NewFile, Prologue, ChunkPlaceInv
  <2>2. destFile' = [c \in 1 .. flushed' |-> Source'[c]]
    BY <2>1
  <2> QED BY <1>1, <2>2 DEF FlushInv, Prologue
<1> QED BY <1>4, <1>5, <1>6

(* A step of a live transfer keeps the ranges right. *)
LEMMA RangesStep ==
    ASSUME FileType, ChunkPlaceInv, StatusInv, ModifiedInv, RangesInv,
           kind \in {"page", "disk", "share"}, sendPc # "prologue",
           ~ctxOver, ~ctxOver', IPNext
    PROVE  RangesInv'
<1> USE DEF FailActive, RangesInv, pageVars
<1>1. CASE ScheduleCell
  <2>1. Source' = Source
    BY <1>1, SourceIsFixed DEF ScheduleCell
  <2> QED BY <1>1, <2>1 DEF ScheduleCell, fixedVars, FileType, IPTypeOK, ChunkPlaceInv
<1>2. ASSUME NEW c \in Cell, StartChunk(c) PROVE RangesInv'
  <2>1. Source' = Source
    BY <1>2, SourceIsFixed DEF StartChunk
  <2>2. cell'[c] = "done" => IsSkipped(c)
    BY <1>2 DEF StartChunk, Ends, FileType, IPTypeOK, ModifiedInv
  <2>3. \A d \in Cell \ {c} : cell'[d] = cell[d]
    BY <1>2 DEF StartChunk, Ends, FileType, IPTypeOK
  <2>4. cell'[c] = "done" => destFile[c] = Source[c]
    BY <2>2, SkippedIsRight
  <2> QED BY <1>2, <2>1, <2>3, <2>4 DEF StartChunk, fixedVars
<1>3. ASSUME NEW c \in Cell, SendSucceeds(c) PROVE RangesInv'
  <2>1. Source' = Source
    BY <1>3, SourceIsFixed DEF SendSucceeds, sendFrame
  <2>2. /\ DOMAIN destFile' = Cell /\ destFile'[c] = Source[c]
        /\ \A d \in Cell \ {c} : destFile'[d] = destFile[d]
    BY <1>3, RangeSent DEF SendSucceeds
  <2>3. \A d \in Cell \ {c} : cell'[d] = cell[d]
    BY <1>3 DEF SendSucceeds, Ends, FileType, IPTypeOK
  <2> QED BY <1>3, <2>1, <2>2, <2>3 DEF SendSucceeds, sendFrame, fixedVars
<1>4. ASSUME NEW c \in Cell, SendIsRepeated(c) PROVE RangesInv'
  <2>1. Source' = Source
    BY <1>4, SourceIsFixed DEF SendIsRepeated, sendFrame
  <2>2. CASE CarryOut(c)
    <3>1. /\ DOMAIN destFile' = Cell /\ destFile'[c] = Source[c]
          /\ \A d \in Cell \ {c} : destFile'[d] = destFile[d]
      BY <2>2, RangeSent
    <3> QED BY <1>4, <2>1, <3>1 DEF SendIsRepeated, sendFrame, fixedVars
  <2>3. CASE UNCHANGED destFile
    BY <1>4, <2>1, <2>3 DEF SendIsRepeated, sendFrame, fixedVars
  <2> QED BY <1>4, <2>2, <2>3 DEF SendIsRepeated
<1>5. ASSUME NEW c \in Cell, PositionIsNotMet(c) PROVE FALSE
  BY <1>5 DEF PositionIsNotMet, IsInPosition
<1>6. CASE EpilogueStep
  <2>1. Source' = Source
    BY <1>6, SourceIsFixed DEF EpilogueStep, EnterEpilogue, SetHash, Flush, CheckLength,
                               Cleanup, CompleteSend, epilogueFrame
  <2>2. UNCHANGED destFile
    BY <1>6 DEF EpilogueStep, EnterEpilogue, SetHash, Flush, CheckLength, Cleanup, CompleteSend,
                IsLive, StatusInv, FileType, IPTypeOK
  <2> QED BY <1>6, <2>1, <2>2
          DEF EpilogueStep, EnterEpilogue, SetHash, Flush, CheckLength, Cleanup, CompleteSend,
              epilogueFrame, chunkVars, fixedVars
<1> QED BY <1>1, <1>2, <1>3, <1>4, <1>5, <1>6
        DEF IPNext, SendStep, CellStep, Prologue, SendFails, CancelSend

(* A block that fits the blob's length lengthens it by its chunk. *)
LEMMA BlockAppended ==
    ASSUME FileType, kind = "append", NEW c \in Cell, CarryOut(c),
           \A i \in 1 .. Len(destFile) : destFile[i] = Source[i]
    PROVE  /\ Len(destFile) = c - 1 /\ Len(destFile') = c
           /\ \A i \in 1 .. Len(destFile') : destFile'[i] = Source[i]
<1>1. Len(destFile) = c - 1 /\ destFile' = Append(destFile, Source[c])
  BY DEF CarryOut, IsInPosition
<1>2. destFile \in Seq(Data) /\ Source[c] \in Data
  BY FileShapes DEF FileType, IPTypeOK
<1>3. c \in Int /\ c >= 1
  BY InPlaceAssumption DEF Cell
<1>4. /\ Len(destFile') = c
      /\ \A i \in 1 .. c - 1 : destFile'[i] = destFile[i]
      /\ destFile'[c] = Source[c]
  BY <1>1, <1>2, <1>3
<1> QED BY <1>1, <1>3, <1>4

(* Only one chunk of an append blob is on its way. *)
LEMMA SoleChunk ==
    ASSUME AppendInv, NEW c \in Cell, NEW d \in Cell,
           cell[c] \in {"queued", "sending"}, cell[d] \in {"queued", "sending"}
    PROVE  c = d
BY DEF AppendInv

(* A step of a live transfer keeps an append blob in order. *)
LEMMA AppendStep ==
    ASSUME FileType, ChunkPlaceInv, StatusInv, UnreadInv, ModifiedInv, AppendInv,
           kind = "append", sendPc # "prologue", ~ctxOver, ~ctxOver', IPNext
    PROVE  AppendInv'
<1> USE InPlaceAssumption DEF FailActive
<1> /\ Len(destFile) \in Nat /\ Cell = 1 .. SendChunks /\ SendChunks \in Nat
  BY DEF FileType, IPTypeOK, Cell
<1>1. CASE ScheduleCell
  <2>1. UNCHANGED <<destFile, attempts>> /\ Source' = Source
    BY <1>1, SourceIsFixed DEF ScheduleCell
  <2> DEFINE new == scheduledCells + 1
  <2>2. new \in Cell /\ cell[new] = "none" /\ \A d \in Cell : d < new => cell[d] # "none"
    BY <1>1 DEF ScheduleCell, ChunkPlaceInv, FileType, IPTypeOK
  <2>3. /\ cell'[new] \in {"queued", "unread"}
        /\ \A d \in Cell \ {new} : cell'[d] = cell[d]
    BY <1>1, <2>2 DEF ScheduleCell, FileType, IPTypeOK
  <2>4. CASE cell'[new] = "queued"
    <3>1. soleChunk = 0 /\ soleChunk' = new /\ ~prefetchErr
      BY <1>1, <2>2, <2>4 DEF ScheduleCell, FileType, IPTypeOK
    <3>2. \A d \in Cell : cell[d] \notin {"queued", "sending"}
      BY <3>1 DEF AppendInv
    <3>3. \A d \in Cell : d < new => cell[d] = "done"
      BY <2>2, <3>1, <3>2 DEF UnreadInv, ModifiedInv, FileType, IPTypeOK
    <3> QED BY <2>1, <2>2, <2>3, <2>4, <3>1, <3>2, <3>3 DEF AppendInv
  <2>5. CASE cell'[new] = "unread"
    <3>1. soleChunk' = soleChunk
      BY <1>1, <2>2, <2>5 DEF ScheduleCell, FileType, IPTypeOK
    <3> QED BY <2>1, <2>2, <2>3, <2>5, <3>1 DEF AppendInv
  <2> QED BY <2>3, <2>4, <2>5
<1>2. ASSUME NEW c \in Cell, StartChunk(c) PROVE AppendInv'
  <2>1. UNCHANGED <<destFile, attempts>> /\ Source' = Source
    BY <1>2, SourceIsFixed DEF StartChunk
  <2>2. ~IsSkipped(c)
    BY DEF IsSkipped, FileType
  <2>3. cell[c] = "queued"
    BY <1>2 DEF StartChunk, ModifiedInv
  <2>4. cell' = [cell EXCEPT ![c] = "sending"] /\ UNCHANGED soleChunk
    BY <1>2, <2>2, <2>3 DEF StartChunk
  <2>5. Len(destFile) = c - 1
    <3>1. c > 1 => cell[c - 1] = "done"
      BY <2>3 DEF AppendInv
    <3>2. c > 1 => c - 1 <= Len(destFile)
      BY <3>1 DEF AppendInv
    <3>3. Len(destFile) < c
      BY <2>3 DEF AppendInv
    <3> QED BY <3>2, <3>3
  <2> QED BY <2>1, <2>3, <2>4, <2>5 DEF AppendInv, FileType, IPTypeOK
<1>3. ASSUME NEW c \in Cell, SendSucceeds(c) PROVE AppendInv'
  <2>1. Source' = Source /\ UNCHANGED attempts
    BY <1>3, SourceIsFixed DEF SendSucceeds, sendFrame
  <2>2. /\ Len(destFile) = c - 1 /\ Len(destFile') = c
        /\ \A i \in 1 .. Len(destFile') : destFile'[i] = Source[i]
    BY <1>3, BlockAppended DEF SendSucceeds, AppendInv
  <2>3. cell[c] = "sending" /\ cell' = [cell EXCEPT ![c] = "done"]
    BY <1>3 DEF SendSucceeds, Ends
  <2>4. \A d \in Cell \ {c} : cell[d] \notin {"queued", "sending"}
    BY <2>3, SoleChunk
  <2>5. \A d \in Cell : cell[d] \in {"none", "queued", "unread"} => c < d
    <3>1. \A d \in Cell : d < c => cell[d] = "done"
      BY <2>3 DEF AppendInv
    <3> QED BY <2>3, <3>1
  <2> QED BY <2>1, <2>2, <2>3, <2>4, <2>5 DEF AppendInv, FileType, IPTypeOK
<1>4. ASSUME NEW c \in Cell, SendIsRepeated(c) PROVE AppendInv'
  <2>1. Source' = Source /\ UNCHANGED <<cell, soleChunk>>
    BY <1>4, SourceIsFixed DEF SendIsRepeated, sendFrame
  <2>2. /\ cell[c] = "sending" /\ attempts'[c] > 0
        /\ \A d \in Cell \ {c} : attempts'[d] = attempts[d]
    BY <1>4 DEF SendIsRepeated, FileType, IPTypeOK
  <2>3. \A d \in Cell \ {c} : cell[d] \notin {"queued", "sending"}
    BY <2>2, SoleChunk
  <2>4. CASE UNCHANGED destFile
    BY <2>1, <2>2, <2>3, <2>4 DEF AppendInv
  <2>5. CASE CarryOut(c)
    <3>1. /\ Len(destFile) = c - 1 /\ Len(destFile') = c
          /\ \A i \in 1 .. Len(destFile') : destFile'[i] = Source[i]
      BY <2>5, BlockAppended DEF AppendInv
    <3>2. \A d \in Cell : cell[d] \in {"none", "queued", "unread"} => c < d
      <4>1. \A d \in Cell : d < c => cell[d] = "done"
        BY <2>2 DEF AppendInv
      <4> QED BY <2>2, <4>1
    <3> QED BY <2>1, <2>2, <2>3, <3>1, <3>2 DEF AppendInv
  <2> QED BY <1>4, <2>4, <2>5 DEF SendIsRepeated
<1>5. ASSUME NEW c \in Cell, PositionIsNotMet(c) PROVE AppendInv'
  <2>1. Source' = Source /\ UNCHANGED <<destFile, attempts>>
    BY <1>5, SourceIsFixed DEF PositionIsNotMet, sendFrame
  <2>2. /\ cell[c] = "sending" /\ cell' = [cell EXCEPT ![c] = "done"]
        /\ Len(destFile) >= c
    BY <1>5 DEF PositionIsNotMet, Ends, FileType, IPTypeOK
  <2>3. \A d \in Cell \ {c} : cell[d] \notin {"queued", "sending"}
    BY <2>2, SoleChunk
  <2> QED BY <2>1, <2>2, <2>3 DEF AppendInv, FileType, IPTypeOK
<1>6. CASE EpilogueStep
  <2>1. Source' = Source
    BY <1>6, SourceIsFixed DEF EpilogueStep, EnterEpilogue, SetHash, Flush, CheckLength,
                               Cleanup, CompleteSend, epilogueFrame
  <2>2. UNCHANGED <<destFile, cell, attempts, soleChunk>>
    BY <1>6 DEF EpilogueStep, EnterEpilogue, SetHash, Flush, CheckLength, Cleanup, CompleteSend,
                IsLive, StatusInv, FileType, IPTypeOK, epilogueFrame, chunkVars
  <2> QED BY <2>1, <2>2 DEF AppendInv
<1> QED BY <1>1, <1>2, <1>3, <1>4, <1>5, <1>6
        DEF IPNext, SendStep, CellStep, Prologue, SendFails, CancelSend

(* A step of a live transfer keeps an ADLS file as far as it was flushed. *)
LEMMA FlushStep ==
    ASSUME FileType, ChunkPlaceInv, StatusInv, ModifiedInv, FlushInv,
           kind = "adls", sendPc # "prologue", ~ctxOver, ~ctxOver', IPNext
    PROVE  FlushInv'
<1> USE DEF FailActive
<1>1. CASE ScheduleCell
  <2>1. UNCHANGED <<destFile, appended, flushed>> /\ Source' = Source
    BY <1>1, SourceIsFixed DEF ScheduleCell
  <2>2. \A c \in Cell : cell'[c] = "done" => cell[c] = "done"
    BY <1>1 DEF ScheduleCell, FileType, IPTypeOK
  <2>3. sendPc' \in {"schedule", "chunks"}
    BY <1>1 DEF ScheduleCell
  <2> QED BY <2>1, <2>2, <2>3 DEF FlushInv
<1>2. ASSUME NEW c \in Cell, StartChunk(c) PROVE FlushInv'
  <2>1. UNCHANGED <<destFile, appended, flushed, sendPc>> /\ Source' = Source
    BY <1>2, SourceIsFixed DEF StartChunk
  <2>2. ~IsSkipped(c)
    BY DEF IsSkipped, FileType
  <2>3. cell' = [cell EXCEPT ![c] = "sending"]
    BY <1>2, <2>2 DEF StartChunk, ModifiedInv
  <2> QED BY <2>1, <2>3 DEF FlushInv, FileType, IPTypeOK
<1>3. ASSUME NEW c \in Cell, SendSucceeds(c) PROVE FlushInv'
  <2>1. UNCHANGED <<destFile, flushed, sendPc>> /\ Source' = Source
    BY <1>3, SourceIsFixed DEF SendSucceeds, sendFrame, CarryOut
  <2>2. appended' = appended \cup {c} /\ cell' = [cell EXCEPT ![c] = "done"]
    BY <1>3 DEF SendSucceeds, CarryOut, Ends
  <2> QED BY <2>1, <2>2 DEF FlushInv, FileType, IPTypeOK
<1>4. ASSUME NEW c \in Cell, SendIsRepeated(c) PROVE FlushInv'
  <2>1. UNCHANGED <<destFile, flushed, sendPc, cell>> /\ Source' = Source
    BY <1>4, SourceIsFixed DEF SendIsRepeated, sendFrame, CarryOut
  <2>2. appended \subseteq appended'
    BY <1>4 DEF SendIsRepeated, CarryOut
  <2> QED BY <2>1, <2>2 DEF FlushInv
<1>5. ASSUME NEW c \in Cell, PositionIsNotMet(c) PROVE FALSE
  BY <1>5 DEF PositionIsNotMet, IsInPosition
<1>6. CASE Flush
  <2>1. Source' = Source /\ UNCHANGED <<appended, cell>>
    BY <1>6, SourceIsFixed DEF Flush, epilogueFrame, chunkVars
  <2>2. destFile' = [c \in 1 .. flushed' |-> Source[c]] /\ sendPc' = sendPc
    BY <1>6 DEF Flush, Flushed
  <2> QED BY <1>6, <2>1, <2>2 DEF FlushInv, Flush
<1>7. CASE EpilogueStep /\ ~Flush
  <2>1. Source' = Source /\ UNCHANGED <<destFile, appended, cell, flushed>>
    BY <1>7, SourceIsFixed
       DEF EpilogueStep, EnterEpilogue, SetHash, CheckLength, Cleanup, CompleteSend,
           epilogueFrame, chunkVars, IsLive, StatusInv, FileType, IPTypeOK
  <2>2. sendPc' \in {"length", "cleanup", "complete", "done"} => flushed = SendChunks
    BY <1>7 DEF EpilogueStep, EnterEpilogue, SetHash, CheckLength, Cleanup, CompleteSend,
                IsLive, StatusInv, FileType, IPTypeOK, FlushInv
  <2> QED BY <2>1, <2>2 DEF FlushInv
<1> QED BY <1>1, <1>2, <1>3, <1>4, <1>5, <1>6, <1>7
        DEF IPNext, SendStep, CellStep, Prologue, SendFails, CancelSend

(* When every chunk of a live transfer is done, the file is the source's.  *)
LEMMA LiveEndIsSource ==
    ASSUME FileType, ChunkPlaceInv, DataInv, ~ctxOver, sendPc \in {"cleanup", "complete"}
    PROVE  destFile = Source
<1>1. \A c \in Cell : cell[c] = "done"
  BY DEF ChunkPlaceInv
<1>2. CASE kind \in {"page", "disk", "share"}
  <2>1. DOMAIN destFile = Cell /\ \A c \in Cell : destFile[c] = Source[c]
    BY <1>1, <1>2 DEF DataInv, RangesInv
  <2>2. destFile \in Seq(Data)
    BY DEF FileType, IPTypeOK
  <2>3. destFile = [c \in Cell |-> destFile[c]]
    BY <2>1, <2>2
  <2> QED BY <2>1, <2>3 DEF Source
<1>3. CASE kind = "append"
  <2>1. destFile \in Seq(Data) /\ SendChunks \in Nat /\ SendChunks >= 1
    BY InPlaceAssumption DEF FileType, IPTypeOK
  <2>2. AppendInv
    BY <1>3 DEF DataInv
  <2>3. cell[SendChunks] = "done" /\ SendChunks \in Cell
    BY <1>1, <2>1 DEF Cell
  <2>4. Len(destFile) = SendChunks /\ \A c \in Cell : destFile[c] = Source[c]
    BY <2>1, <2>2, <2>3 DEF AppendInv, Cell
  <2>5. destFile = [c \in Cell |-> destFile[c]]
    BY <2>1, <2>4 DEF Cell
  <2> QED BY <2>4, <2>5 DEF Source
<1>4. CASE kind = "adls"
  <2>1. destFile = [c \in 1 .. SendChunks |-> Source[c]]
    BY <1>4 DEF DataInv, FlushInv
  <2> QED BY <2>1 DEF Source, Cell
<1> QED BY <1>2, <1>3, <1>4 DEF FileType

(* Chunks run between the prologue and the epilogue. *)
LEMMA CellStepIsLater ==
    ASSUME FileType, ChunkPlaceInv, NEW c \in Cell, CellStep(c)
    PROVE  sendPc \in {"schedule", "chunks"}
<1>1. cell[c] \notin {"none", "done"}
  BY DEF CellStep, StartChunk, SendSucceeds, SendIsRepeated, SendFails, PositionIsNotMet
<1>2. sendPc # "prologue"
  BY <1>1 DEF ChunkPlaceInv, Cell
<1> QED BY <1>1, <1>2 DEF ChunkPlaceInv, FileType, IPTypeOK

(* Every step keeps the data right. *)
LEMMA DataStep ==
    ASSUME FileType, ControlInv, DataInv, IPNext
    PROVE  DataInv'
<1> USE DEF ControlInv
<1>1. UNCHANGED fixedVars /\ Source' = Source
  BY SourceIsFixed
     DEF IPNext, SendStep, Prologue, ScheduleCell, CellStep, StartChunk, SendSucceeds,
         SendIsRepeated, SendFails, PositionIsNotMet, sendFrame, EpilogueStep, EnterEpilogue,
         SetHash, Flush, CheckLength, Cleanup, CompleteSend, CancelSend, epilogueFrame
<1>2. sendPc' = "prologue" => sendPc = "prologue" /\ UNCHANGED destFile
  <2>1. \A c \in Cell : CellStep(c) => sendPc # "prologue" /\ UNCHANGED sendPc
    BY CellStepIsLater
       DEF CellStep, StartChunk, SendSucceeds, SendIsRepeated, SendFails, PositionIsNotMet,
           sendFrame
  <2> QED BY <2>1 DEF IPNext, SendStep, Prologue, ScheduleCell, EpilogueStep, EnterEpilogue,
                      SetHash, Flush, CheckLength, Cleanup, CompleteSend, CancelSend
<1>3. sendPc' = "prologue" /\ kind' = "disk" => DOMAIN destFile' = Cell
  BY <1>1, <1>2 DEF DataInv, fixedVars
<1>4. ASSUME ~ctxOver', sendPc' # "prologue"
      PROVE  /\ kind' \in {"page", "disk", "share"} => RangesInv'
             /\ kind' = "append" => AppendInv'
             /\ kind' = "adls" => FlushInv'
  <2>1. ~ctxOver
    BY <1>4 DEF IPNext, SendStep, Prologue, ScheduleCell, CellStep, StartChunk, SendSucceeds,
         SendIsRepeated, SendFails, PositionIsNotMet, EpilogueStep, EnterEpilogue, CreateFails,
         CreateSucceeds, CheckDisk,
         SetHash, Flush, CheckLength, Cleanup, CompleteSend, CancelSend, FailActive
  <2>2. CASE Prologue
    BY <1>1, <1>4, <2>2, PrologueMakesFile DEF DataInv, fixedVars, Prologue
  <2>3. CASE sendPc # "prologue"
    BY <1>1, <1>4, <2>1, <2>3, RangesStep, AppendStep, FlushStep DEF DataInv, fixedVars
  <2>4. sendPc # "prologue" \/ Prologue
    BY <1>4 DEF IPNext, SendStep, ScheduleCell, CellStep, StartChunk, SendSucceeds,
         SendIsRepeated, SendFails, PositionIsNotMet, sendFrame, EpilogueStep, EnterEpilogue,
         SetHash, Flush, CheckLength, Cleanup, CompleteSend, CancelSend
  <2> QED BY <2>2, <2>3, <2>4
<1>5. ASSUME sendStatus' = "Success" PROVE destFile' = Source'
  <2>1. \A c \in Cell : CellStep(c) => UNCHANGED sendStatus \/ sendStatus' = "Failed"
    BY DEF CellStep, StartChunk, SendSucceeds, SendIsRepeated, SendFails, PositionIsNotMet,
           sendFrame, FailActive
  <2>2. sendPc # "done"
    BY CellStepIsLater
       DEF IPNext, SendStep, Prologue, ScheduleCell, EpilogueStep, EnterEpilogue,
           SetHash, Flush, CheckLength, Cleanup, CompleteSend, CancelSend
  <2>3. sendStatus # "Success"
    BY <2>2 DEF StatusInv
  <2>4. CompleteSend /\ IsLive
    BY <1>5, <2>1, <2>3
       DEF IPNext, SendStep, Prologue, CreateSucceeds, CreateFails, CheckDisk, ScheduleCell,
           EpilogueStep, EnterEpilogue, SetHash, Flush, CheckLength, Cleanup, CompleteSend,
           CancelSend, FailActive
  <2>5. destFile = Source
    BY <2>4, LiveEndIsSource DEF CompleteSend, IsLive
  <2> QED BY <1>1, <2>4, <2>5 DEF CompleteSend
<1>6. SuccessMeansSame'
  BY <1>5 DEF SuccessMeansSame
<1> QED BY <1>3, <1>4, <1>6 DEF DataInv

(* Every step keeps what is to be left at the end. *)
LEMMA KeptStep ==
    ASSUME FileType, ControlInv, DataInv, KeptInv, IPNext
    PROVE  KeptInv'
<1> USE DEF ControlInv, KeptInv, UntouchedIsKept, FailActive
<1>1. CASE Prologue
  <2>1. kind' = kind /\ destBefore' = destBefore
    BY <1>1 DEF Prologue, fixedVars
  <2>2. CASE kind = "disk"
    BY <1>1, <2>1, <2>2 DEF Prologue, CheckDisk
  <2>3. CASE kind # "disk" /\ CreateSucceeds
    BY <1>1, <2>1, <2>3 DEF Prologue, CreateSucceeds
  <2>4. CASE kind # "disk" /\ CreateFails
    <3>1. created' \/ destFile' = destFile \/ kind = "share"
      BY <2>4 DEF CreateFails
    <3>2. destIsModified' \/ unknown' \/ destFile' = destFile
      <4>1. kind = "share" => ModifiesFromTheStart
        BY DEF ModifiesFromTheStart
      <4> QED BY <2>4, <4>1 DEF CreateFails
    <3> QED BY <1>1, <2>1, <2>4, <3>1, <3>2 DEF Prologue
  <2> QED BY <1>1, <2>2, <2>3, <2>4 DEF Prologue
<1>2. CASE ScheduleCell
  BY <1>2 DEF ScheduleCell, fixedVars, traceVars
<1>3. ASSUME NEW c \in Cell, CellStep(c) PROVE KeptInv'
  <2>1. sendPc \in {"schedule", "chunks"} /\ UNCHANGED <<sendPc, created, unknown>>
    BY <1>3, CellStepIsLater
       DEF CellStep, StartChunk, SendSucceeds, SendIsRepeated, SendFails, PositionIsNotMet,
           sendFrame, traceVars
  <2>2. kind' = kind /\ destBefore' = destBefore
    BY <1>3 DEF CellStep, StartChunk, SendSucceeds, SendIsRepeated, SendFails,
                PositionIsNotMet, sendFrame, fixedVars
  <2>3. CASE StartChunk(c)
    BY <2>1, <2>2, <2>3 DEF StartChunk
  <2>4. CASE cell[c] = "sending" /\ UNCHANGED destIsModified
    BY <2>1, <2>2, <2>4 DEF ModifiedInv
  <2>5. StartChunk(c) \/ (cell[c] = "sending" /\ UNCHANGED destIsModified)
    BY <1>3 DEF CellStep, SendSucceeds, SendIsRepeated, SendFails, PositionIsNotMet, sendFrame
  <2> QED BY <2>3, <2>4, <2>5
<1>4. CASE EpilogueStep /\ ~Flush /\ ~Cleanup
  <2>1. UNCHANGED fixedVars /\ Source' = Source
    BY <1>4, SourceIsFixed DEF EpilogueStep, EnterEpilogue, SetHash, CheckLength, CompleteSend,
                               epilogueFrame
  <2> QED BY <1>4, <2>1 DEF EpilogueStep, EnterEpilogue, SetHash, CheckLength, CompleteSend,
                            epilogueFrame, fixedVars
<1>5. CASE Flush
  BY <1>5 DEF Flush, epilogueFrame, fixedVars, ModifiedInv
<1>6. CASE Cleanup
  <2>1. CASE IsLive
    <3>1. destFile = Source
      BY <1>6, <2>1, LiveEndIsSource DEF Cleanup, IsLive
    <3>2. UNCHANGED <<destFile, kind, destBefore, created, unknown>> /\ Source' = Source
      BY <1>6, <2>1, SourceIsFixed DEF Cleanup, epilogueFrame, fixedVars
    <3> QED BY <1>6, <3>1, <3>2 DEF Cleanup
  <2>2. CASE ~IsLive
    BY <1>6, <2>2 DEF Cleanup, epilogueFrame, fixedVars, ModifiedInv
  <2> QED BY <2>1, <2>2
<1>7. CASE CancelSend
  <2>1. UNCHANGED fixedVars /\ Source' = Source
    BY <1>7, SourceIsFixed DEF CancelSend, epilogueFrame
  <2> QED BY <1>7, <2>1 DEF CancelSend, epilogueFrame, fixedVars
<1> QED BY <1>1, <1>2, <1>3, <1>4, <1>5, <1>6, <1>7 DEF IPNext, SendStep, EpilogueStep

-----------------------------------------------------------------------------
(* The theorem.                                                            *)

(* The invariant gives what the property says. *)
LEMMA SendInvGives == SendInv => InPlaceInv
<1> SUFFICES ASSUME SendInv PROVE InPlaceInv
  OBVIOUS
<1> USE DEF SendInv, ControlInv
<1>1. NothingIncompleteIsLeft
  BY DEF KeptInv, NothingIncompleteIsLeft
<1>2. AppendsComeInTurn
  <2> SUFFICES ASSUME kind = "append", NEW c \in Cell, cell[c] = "sending", attempts[c] = 0,
                      ~ctxOver
               PROVE  IsInPosition(c)
    BY DEF AppendsComeInTurn
  <2>1. sendPc # "prologue"
    BY DEF ChunkPlaceInv, Cell
  <2> QED BY <2>1 DEF DataInv, AppendInv, IsInPosition
<1>3. FlushFindsItsChunks
  <2> SUFFICES ASSUME kind = "adls", sendPc = "service", IsLive
               PROVE  appended = Cell
    BY DEF FlushFindsItsChunks
  <2>1. \A c \in Cell : c \in appended
    BY DEF DataInv, FlushInv, ChunkPlaceInv, IsLive
  <2> QED BY <2>1 DEF FileType, IPTypeOK
<1> QED BY <1>1, <1>2, <1>3 DEF InPlaceInv, FileType, DataInv, KeptInv

(* Steps that change nothing keep everything. *)
LEMMA SendStutters == SendInv /\ UNCHANGED ipVars => SendInv'
<1> SUFFICES ASSUME SendInv, UNCHANGED ipVars PROVE SendInv'
  OBVIOUS
<1> USE DEF ipVars, SendInv
<1>1. Source' = Source
  BY SourceIsFixed DEF fixedVars
<1>2. FileType'
  BY DEF FileType, IPTypeOK
<1>3. ControlInv'
  BY DEF ControlInv, ChunkPlaceInv, StatusInv, UnreadInv, ModifiedInv
<1>4. RangesInv' = RangesInv /\ AppendInv' = AppendInv /\ FlushInv' = FlushInv
  BY <1>1 DEF RangesInv, AppendInv, FlushInv
<1>5. DataInv'
  BY <1>1, <1>4 DEF DataInv, SuccessMeansSame
<1>6. KeptInv'
  BY <1>1 DEF KeptInv, UntouchedIsKept
<1> QED BY <1>2, <1>3, <1>5, <1>6

(* A file that is written in place, in page, append or ADLS blobs, managed *)
(* disks or shares, holds the source's data when its transfer has          *)
(* succeeded, and is the old one, the source's or gone when it has not     *)
(* (Prologue, the chunk functions, Epilogue and Cleanup of the senders).   *)
THEOREM InPlaceInvHolds == IPSpec => []InPlaceInv
<1>1. SendInv /\ [IPNext]_ipVars => SendInv'
  <2> SUFFICES ASSUME SendInv, IPNext PROVE SendInv'
    BY SendStutters
  <2>1. ControlInv'
    BY ChunkPlaceStep, StatusStep, UnreadStep, ModifiedStep DEF SendInv, ControlInv
  <2> QED BY <2>1, FileTypeStep, DataStep, KeptStep DEF SendInv
<1> QED BY <1>1, InitSend, SendInvGives, PTL DEF IPSpec
=============================================================================
