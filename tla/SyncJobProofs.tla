---------------------------- MODULE SyncJobProofs ----------------------------
(***************************************************************************)
(* Proofs about SyncJob: for any objects on the two sides, any size of a   *)
(* part, both orders of listing and every option, what a sync orders and   *)
(* deletes is the difference of the two sides, and its parts are proper.   *)
(*                                                                         *)
(* The argument is the same for both orders.  Primary is the side that is  *)
(* indexed, Secondary the other one. The index holds what Primary has of   *)
(* the paths that Secondary's listing has not come to, and what has been   *)
(* ordered or dealt with is the difference of the two sides on the paths   *)
(* that are past.                                                          *)
(***************************************************************************)
EXTENDS SyncJob, FiniteSetTheorems, TLAPS

Primary   == IF uploads THEN SourcePaths ELSE TargetPaths
Secondary == IF uploads THEN TargetPaths ELSE SourcePaths
Plain(objects) == {Name(o, FALSE) : o \in objects}

(* The difference of the two sides. *)
ToOrder  == {o \in SourcePaths : o \in TargetPaths => NeedsCopy(o)}
ToDelete == TargetPaths \ SourcePaths

SettledFor(past) ==
    /\ Ordered = ToOrder \cap past
    /\ attempted \cup kept = ToDelete \cap past

(* No path is spelt in capitals where the case matters, and the source     *)
(* never is.                                                               *)
OptionsInv ==
    /\ uploads \in BOOLEAN /\ ignoresCase \in BOOLEAN /\ pair \in [Objects -> Pairs]
    /\ uploads => ~ignoresCase
    /\ \A o \in Objects : ignoresCase \/ ~pair[o].capitals

ListingInv ==
    /\ phase \in {"primary", "secondary", "rest", "dispatched", "ended"}
    /\ leftToList \subseteq Objects /\ indexMap \subseteq Objects \X BOOLEAN
    /\ toFinish \subseteq indexMap
    /\ phase \in {"primary", "secondary"} => toFinish = {}
    /\ phase = "primary" =>
         leftToList \subseteq Primary /\ indexMap = Plain(Primary \ leftToList)
    /\ phase = "secondary" =>
         leftToList \subseteq Secondary /\ indexMap = Plain(Primary \ (Secondary \ leftToList))
    /\ phase = "rest" => indexMap = Plain(Primary \ Secondary)

SettledInv ==
    /\ phase = "primary" => SettledFor({})
    /\ phase = "secondary" => SettledFor(Secondary \ leftToList)
    /\ phase = "rest" => SettledFor({o \in Objects : Name(o, FALSE) \notin toFinish})
    /\ phase = "dispatched" => SettledFor(Objects)
    /\ phase = "ended" => /\ attempted \subseteq ToDelete
                          /\ message # "failed" => SettledFor(Objects)

(* A part that is filled is never empty once one was sent, so that the job *)
(* gets its last one.                                                      *)
PartsInv ==
    /\ sentParts \in Seq(SUBSET Objects) /\ transfers \subseteq Objects /\ toCopy \subseteq Objects
    /\ IsFiniteSet(transfers) /\ Cardinality(transfers) <= PartCapacity
    /\ \A i, j \in DOMAIN sentParts : i # j => sentParts[i] \cap sentParts[j] = {}
    /\ \A i \in DOMAIN sentParts :
         /\ sentParts[i] \cap transfers = {} /\ sentParts[i] # {}
         /\ i < Len(sentParts) \/ ~finalSent => Cardinality(sentParts[i]) = PartCapacity
    /\ finalSent \in BOOLEAN
    /\ ~finalSent /\ sentParts # <<>> => transfers # {}

DeletionInv ==
    /\ deleted \subseteq attempted /\ attempted \cap kept = {}
    /\ IsFiniteSet(attempted) /\ deletionCount = Cardinality(attempted)

EndInv ==
    /\ message \in {"none", "failed", "summary", "now in sync", "already in sync"}
    /\ message # "none" <=> phase = "ended"
    /\ finalSent <=> phase = "dispatched" \/ message = "summary"
    /\ message \in {"now in sync", "already in sync"} => transfers = {}

SyncIInv == OptionsInv /\ ListingInv /\ SettledInv /\ PartsInv /\ DeletionInv /\ EndInv

-----------------------------------------------------------------------------
(* The two sides.                                                          *)
SameSides == UNCHANGED <<options, pair>>

(* While neither side changes, nor do the sets that depend on them.        *)
LEMMA SidesStay ==
    ASSUME SameSides
    PROVE  /\ SourcePaths' = SourcePaths /\ TargetPaths' = TargetPaths
           /\ Primary' = Primary /\ Secondary' = Secondary
           /\ ToOrder' = ToOrder /\ ToDelete' = ToDelete
           /\ OptionsInv => OptionsInv'
           /\ uploads' = uploads
<1> USE DEF SameSides, options
<1>1. SourcePaths' = SourcePaths /\ TargetPaths' = TargetPaths
  BY DEF SourcePaths, TargetPaths
<1>2. \A o : NeedsCopy(o)' = NeedsCopy(o)
  BY DEF NeedsCopy
<1>3. Primary' = Primary /\ Secondary' = Secondary
  BY <1>1 DEF Primary, Secondary
<1>4. ToOrder' = ToOrder /\ ToDelete' = ToDelete
  BY <1>1, <1>2 DEF ToOrder, ToDelete
<1>5. OptionsInv => OptionsInv'
  BY DEF OptionsInv
<1> QED BY <1>1, <1>3, <1>4, <1>5

(* The sets of paths consist of objects, and no path is copied and deleted. *)
LEMMA SidesAreObjects ==
    /\ SourcePaths \subseteq Objects /\ TargetPaths \subseteq Objects
    /\ Primary \subseteq Objects /\ Secondary \subseteq Objects
    /\ ToOrder \subseteq SourcePaths /\ ToDelete \subseteq TargetPaths
    /\ ToOrder \cap ToDelete = {}
    /\ ToOrder \cup ToDelete \subseteq Primary \cup Secondary
BY DEF SourcePaths, TargetPaths, Primary, Secondary, ToOrder, ToDelete

(* Plain puts each path in the index under its own name.                   *)
LEMMA PlainNames ==
    ASSUME NEW S, NEW o
    PROVE  /\ Name(o, FALSE) \in Plain(S) <=> o \in S
           /\ Plain(S \cup {o}) = Plain(S) \cup {Name(o, FALSE)}
           /\ Plain(S \ {o}) = Plain(S) \ {Name(o, FALSE)}
           /\ Name(o, FALSE)[1] = o
<1>1. Name(o, FALSE) \in Plain(S) <=> o \in S
  BY DEF Plain, Name
<1>2. Plain(S \cup {o}) = Plain(S) \cup {Name(o, FALSE)}
  BY Zenon DEF Plain
<1>3. \A p : Name(p, FALSE) = Name(o, FALSE) => p = o
  BY DEF Name
<1>4. Plain(S \ {o}) = Plain(S) \ {Name(o, FALSE)}
  BY <1>3, Zenon DEF Plain
<1>5. Name(o, FALSE)[1] = o
  BY DEF Name
<1> QED BY <1>1, <1>2, <1>4, <1>5

(* And only paths have names in it.                                        *)
LEMMA PlainIsOfPaths ==
    ASSUME NEW S, NEW name \in Plain(S)
    PROVE  name = Name(name[1], FALSE) /\ name[1] \in S
<1> PICK o \in S : name = Name(o, FALSE)
  BY DEF Plain
<1> QED BY DEF Name

(* Which are names of objects.                                             *)
LEMMA PlainsAreNames ==
    ASSUME NEW S, S \subseteq Objects
    PROVE  Plain(S) \subseteq Objects \X BOOLEAN
<1>1. \A o \in S : Name(o, FALSE) \in Objects \X BOOLEAN
  BY DEF Name
<1> QED BY <1>1, Zenon DEF Plain

(* The names that are looked up are plain, in both orders.                 *)
LEMMA KeysArePlain ==
    ASSUME OptionsInv, NEW o \in Objects
    PROVE  /\ Key(SourceName(o)) = Name(o, FALSE)
           /\ Key(TargetName(o)) = Name(o, FALSE)
           /\ uploads => TargetName(o) = Name(o, FALSE)
           /\ uploads => Key(SourceName(o)) = SourceName(o)
<1>1. pair[o].capitals \in BOOLEAN
  BY DEF OptionsInv, Pairs
<1>2. ignoresCase \/ pair[o].capitals = FALSE
  BY <1>1 DEF OptionsInv
<1> QED BY <1>2 DEF OptionsInv, Key, SourceName, TargetName, Name

-----------------------------------------------------------------------------
(* scheduleCopyTransfer.                                                   *)
LEMMA AppendedPart ==
    ASSUME sentParts \in Seq(SUBSET Objects), transfers \subseteq Objects,
           sentParts' = Append(sentParts, transfers)
    PROVE  /\ sentParts' \in Seq(SUBSET Objects)
           /\ Len(sentParts) \in Nat /\ Len(sentParts') = Len(sentParts) + 1
           /\ DOMAIN sentParts = 1..Len(sentParts)
           /\ DOMAIN sentParts' = 1..(Len(sentParts) + 1)
           /\ \A i \in 1..Len(sentParts) : sentParts'[i] = sentParts[i]
           /\ sentParts'[Len(sentParts) + 1] = transfers
OBVIOUS

(* What is ordered is in the part being filled or in one that was sent.    *)
LEMMA OrderedAre ==
    /\ \A o : o \in Ordered <=> o \in transfers \/ \E i \in DOMAIN sentParts : o \in sentParts[i]
    /\ \A o : o \in Ordered' <=>
                o \in transfers' \/ \E i \in DOMAIN sentParts' : o \in sentParts'[i]
<1>1. ASSUME NEW o
      PROVE  o \in Ordered <=> o \in transfers \/ \E i \in DOMAIN sentParts : o \in sentParts[i]
  BY DEF Ordered
<1>2. ASSUME NEW o
      PROVE  o \in Ordered' <=>
                 o \in transfers' \/ \E i \in DOMAIN sentParts' : o \in sentParts'[i]
  BY DEF Ordered
<1> QED BY <1>1, <1>2

(* What is ordered is the same once the part that was filled is sent.      *)
LEMMA SentIsOrdered ==
    ASSUME PartsInv, sentParts' = Append(sentParts, transfers)
    PROVE  \A o : (\E i \in DOMAIN sentParts' : o \in sentParts'[i]) <=> o \in Ordered
<1> DEFINE n == Len(sentParts)
<1>1. sentParts \in Seq(SUBSET Objects) /\ transfers \subseteq Objects
  BY DEF PartsInv
<1>2. /\ n \in Nat /\ DOMAIN sentParts = 1..n /\ DOMAIN sentParts' = 1..(n + 1)
      /\ \A i \in 1..n : sentParts'[i] = sentParts[i]
      /\ sentParts'[n + 1] = transfers
  BY <1>1, AppendedPart
<1> HIDE DEF n
<1>3. \A i : i \in 1..(n + 1) <=> i \in 1..n \/ i = n + 1
  BY <1>2
<1> QED BY <1>2, <1>3, OrderedAre

(* A copy that is scheduled is ordered.                                    *)
LEMMA CopyIsOrdered ==
    ASSUME PartsInv, NEW o \in Objects, ScheduleCopy(o)
    PROVE  Ordered' = Ordered \cup {o}
<1>1. CASE Cardinality(transfers) = PartCapacity
  <2>1. sentParts' = Append(sentParts, transfers) /\ transfers' = {o}
    BY <1>1 DEF ScheduleCopy
  <2>2. \A x : x \in Ordered' <=> x \in {o} \/ x \in Ordered
    BY <2>1, SentIsOrdered, OrderedAre
  <2> QED BY <2>2
<1>2. CASE Cardinality(transfers) # PartCapacity
  <2>1. sentParts' = sentParts /\ transfers' = transfers \cup {o}
    BY <1>2 DEF ScheduleCopy
  <2>2. \A x : x \in Ordered' <=> x = o \/ x \in Ordered
    BY <2>1, OrderedAre
  <2> QED BY <2>2
<1> QED BY <1>1, <1>2

(* It fills the parts properly.                                            *)
LEMMA CopyKeepsParts ==
    ASSUME PartsInv, NEW o \in Objects, ScheduleCopy(o), o \notin Ordered, ~finalSent
    PROVE  PartsInv' /\ finalSent' = finalSent
<1>1. PartCapacity \in Nat \ {0}
  BY SyncAssumption
<1>2. finalSent' = finalSent
  BY DEF ScheduleCopy
<1>3. \A i \in DOMAIN sentParts : o \notin sentParts[i]
  BY OrderedAre
<1>4. o \notin transfers
  BY OrderedAre
<1>5. IsFiniteSet({o}) /\ Cardinality({o}) = 1
  BY FS_Singleton
<1>6. CASE Cardinality(transfers) = PartCapacity
  <2> DEFINE n == Len(sentParts)
  <2>1. /\ sentParts' = Append(sentParts, transfers) /\ transfers' = {o}
        /\ toCopy' = toCopy \cup transfers
    BY <1>6 DEF ScheduleCopy
  <2>2. sentParts \in Seq(SUBSET Objects) /\ transfers \subseteq Objects /\ toCopy \subseteq Objects
    BY DEF PartsInv
  <2>3. /\ sentParts' \in Seq(SUBSET Objects) /\ Len(sentParts') = n + 1
        /\ n \in Nat /\ DOMAIN sentParts = 1..n /\ DOMAIN sentParts' = 1..(n + 1)
        /\ \A i \in 1..n : sentParts'[i] = sentParts[i]
        /\ sentParts'[n + 1] = transfers
    BY <2>1, <2>2, AppendedPart
  <2> HIDE DEF n
  <2>4. \A i \in 1..(n + 1) : i \in 1..n \/ i = n + 1
    BY <2>3
  <2>5. transfers # {}
    BY <1>1, <1>6, FS_EmptySet
  <2>6. \A i \in 1..n : /\ sentParts[i] \cap transfers = {} /\ sentParts[i] # {}
                        /\ Cardinality(sentParts[i]) = PartCapacity
    BY <2>3 DEF PartsInv
  <2>7. \A i, j \in 1..n : i # j => sentParts[i] \cap sentParts[j] = {}
    BY <2>3 DEF PartsInv
  <2>8. \A i, j \in DOMAIN sentParts' : i # j => sentParts'[i] \cap sentParts'[j] = {}
    BY <2>3, <2>4, <2>6, <2>7
  <2>9. \A i \in DOMAIN sentParts' :
          /\ sentParts'[i] \cap transfers' = {} /\ sentParts'[i] # {}
          /\ Cardinality(sentParts'[i]) = PartCapacity
    BY <1>3, <1>4, <1>6, <2>1, <2>3, <2>4, <2>5, <2>6
  <2>10. /\ transfers' \subseteq Objects /\ toCopy' \subseteq Objects /\ transfers' # {}
         /\ IsFiniteSet(transfers') /\ Cardinality(transfers') <= PartCapacity
    BY <1>1, <1>5, <2>1, <2>2
  <2> QED BY <1>2, <2>3, <2>8, <2>9, <2>10 DEF PartsInv
<1>7. CASE Cardinality(transfers) # PartCapacity
  <2>1. UNCHANGED <<sentParts, toCopy>> /\ transfers' = transfers \cup {o}
    BY <1>7 DEF ScheduleCopy
  <2>2. IsFiniteSet(transfers) /\ Cardinality(transfers) <= PartCapacity
    BY DEF PartsInv
  <2>3. /\ IsFiniteSet(transfers \cup {o})
        /\ Cardinality(transfers \cup {o}) = Cardinality(transfers) + 1
    BY <1>4, <2>2, FS_AddElement
  <2>4. Cardinality(transfers) \in Nat
    BY <2>2, FS_CardinalityType
  <2>5. Cardinality(transfers') <= PartCapacity
    BY <1>1, <1>7, <2>1, <2>2, <2>3, <2>4
  <2>6. \A i \in DOMAIN sentParts : sentParts[i] \cap (transfers \cup {o}) = {}
    BY <1>3 DEF PartsInv
  <2> QED BY <1>2, <2>1, <2>3, <2>5, <2>6 DEF PartsInv
<1> QED BY <1>6, <1>7

(* removeImmediately.                                                      *)
LEMMA RemovalIsCounted ==
    ASSUME DeletionInv, NEW o, RemoveExtra(o), o \notin attempted \cup kept
    PROVE  /\ DeletionInv'
           /\ attempted' \cup kept' = attempted \cup kept \cup {o}
<1>1. \/ /\ deletionCount' = deletionCount + 1 /\ attempted' = attempted \cup {o}
         /\ deleted' \in {deleted, deleted \cup {o}} /\ kept' = kept
      \/ kept' = kept \cup {o} /\ UNCHANGED <<deletionCount, attempted, deleted>>
  BY DEF RemoveExtra
<1>2. CASE /\ deletionCount' = deletionCount + 1 /\ attempted' = attempted \cup {o}
           /\ deleted' \in {deleted, deleted \cup {o}} /\ kept' = kept
  <2>1. IsFiniteSet(attempted)
    BY DEF DeletionInv
  <2>2. IsFiniteSet(attempted') /\ Cardinality(attempted') = Cardinality(attempted) + 1
    BY <1>2, <2>1, FS_AddElement
  <2> QED BY <1>2, <2>2 DEF DeletionInv
<1>3. CASE kept' = kept \cup {o} /\ UNCHANGED <<deletionCount, attempted, deleted>>
  BY <1>3 DEF DeletionInv
<1> QED BY <1>1, <1>2, <1>3

-----------------------------------------------------------------------------
(* One path more is past: it has to be copied, or deleted, or neither.     *)
SettledNext(past) ==
    /\ Ordered' = ToOrder \cap past
    /\ attempted' \cup kept' = ToDelete \cap past

(* And settles the difference that it is for.                              *)
LEMMA CopySettles ==
    ASSUME PartsInv, DeletionInv, ~finalSent, NEW past, SettledFor(past),
           NEW o \in ToOrder, o \notin past, ScheduleCopy(o), UNCHANGED deleting
    PROVE  SettledNext(past \cup {o}) /\ PartsInv' /\ DeletionInv' /\ finalSent' = finalSent
<1>1. o \in Objects /\ o \notin ToDelete
  BY SidesAreObjects
<1>2. o \notin Ordered
  BY DEF SettledFor
<1>3. Ordered' = Ordered \cup {o}
  BY <1>1, CopyIsOrdered
<1>4. PartsInv' /\ finalSent' = finalSent
  BY <1>1, <1>2, CopyKeepsParts
<1>5. attempted' \cup kept' = attempted \cup kept
  BY DEF deleting
<1>6. DeletionInv'
  BY DEF deleting, DeletionInv
<1> QED BY <1>1, <1>3, <1>4, <1>5, <1>6 DEF SettledFor, SettledNext

(* A removal that is attempted settles the extra that it is for.           *)
LEMMA RemovalSettles ==
    ASSUME PartsInv, DeletionInv, NEW past, SettledFor(past),
           NEW o \in ToDelete, o \notin past, RemoveExtra(o), UNCHANGED copying
    PROVE  SettledNext(past \cup {o}) /\ PartsInv' /\ DeletionInv' /\ finalSent' = finalSent
<1>1. o \notin ToOrder
  BY SidesAreObjects
<1>2. o \notin attempted \cup kept
  BY DEF SettledFor
<1>3. DeletionInv' /\ attempted' \cup kept' = attempted \cup kept \cup {o}
  BY <1>2, RemovalIsCounted
<1>4. PartsInv' /\ Ordered' = Ordered /\ finalSent' = finalSent
  BY DEF copying, PartsInv, Ordered
<1> QED BY <1>1, <1>3, <1>4 DEF SettledFor, SettledNext

(* What needs neither is settled by doing nothing.                         *)
LEMMA NothingSettles ==
    ASSUME PartsInv, DeletionInv, NEW past, SettledFor(past),
           NEW o, o \notin ToOrder \cup ToDelete, UNCHANGED <<copying, deleting>>
    PROVE  SettledNext(past \cup {o}) /\ PartsInv' /\ DeletionInv' /\ finalSent' = finalSent
<1>1. PartsInv' /\ Ordered' = Ordered /\ finalSent' = finalSent
  BY DEF copying, PartsInv, Ordered
<1>2. DeletionInv' /\ attempted' \cup kept' = attempted \cup kept
  BY DEF deleting, DeletionInv
<1> QED BY <1>1, <1>2 DEF SettledFor, SettledNext

(* A step that neither copies nor deletes leaves everything settled as it was. *)
LEMMA NothingMoves ==
    ASSUME UNCHANGED <<copying, deleting>>
    PROVE  /\ PartsInv => PartsInv' /\ transfers' = transfers
           /\ DeletionInv => DeletionInv'
           /\ \A past : SettledFor(past) => SettledNext(past)
           /\ finalSent' = finalSent /\ attempted' = attempted
<1>1. PartsInv => PartsInv'
  BY DEF copying, PartsInv
<1>2. DeletionInv => DeletionInv'
  BY DEF deleting, DeletionInv
<1>3. Ordered' = Ordered /\ UNCHANGED <<attempted, kept, finalSent, transfers>>
  BY DEF copying, deleting, Ordered
<1> QED BY <1>1, <1>2, <1>3 DEF SettledFor, SettledNext

-----------------------------------------------------------------------------
(* The inductive invariant holds initially.                                *)
LEMMA SyncInitIInv == SYInit => SyncIInv
<1> SUFFICES ASSUME SYInit PROVE SyncIInv
  OBVIOUS
<1>1. OptionsInv
  BY SyncAssumption DEF SYInit, OptionsInv
<1>2. /\ phase = "primary" /\ leftToList = Primary /\ indexMap = {} /\ toFinish = {}
      /\ transfers = {} /\ sentParts = <<>> /\ finalSent = FALSE /\ toCopy = {}
      /\ deletionCount = 0 /\ attempted = {} /\ deleted = {} /\ kept = {} /\ message = "none"
  BY DEF SYInit, NothingCompared, Primary
<1>3. ListingInv
  <2>1. Plain(Primary \ leftToList) = {}
    BY <1>2 DEF Plain
  <2> QED BY <1>2, <2>1, SidesAreObjects DEF ListingInv
<1>4. SettledInv
  <2>1. Ordered = {}
    BY <1>2, OrderedAre
  <2> QED BY <1>2, <2>1 DEF SettledInv, SettledFor
<1>5. PartsInv /\ DeletionInv
  <2>1. IsFiniteSet({}) /\ Cardinality({}) = 0 /\ PartCapacity \in Nat
    BY SyncAssumption, FS_EmptySet
  <2>2. sentParts \in Seq(SUBSET Objects) /\ DOMAIN sentParts = {}
    <3>1. <<>> \in Seq(SUBSET Objects) /\ DOMAIN <<>> = {}
      OBVIOUS
    <3> QED BY <1>2, <3>1, Zenon
  <2>3. DeletionInv
    <3>1. deleted = {} /\ attempted = {} /\ kept = {} /\ deletionCount = 0
      BY <1>2
    <3> QED BY <2>1, <3>1 DEF DeletionInv
  <2>4. /\ transfers \subseteq Objects /\ toCopy \subseteq Objects /\ finalSent \in BOOLEAN
        /\ IsFiniteSet(transfers) /\ Cardinality(transfers) <= PartCapacity
    <3>1. transfers = {} /\ toCopy = {} /\ finalSent \in BOOLEAN
      BY <1>2
    <3>2. IsFiniteSet(transfers) /\ Cardinality(transfers) = 0
      BY <2>1, <3>1, Zenon
    <3> QED BY <2>1, <3>1, <3>2
  <2>5. PartsInv
    BY <1>2, <2>2, <2>4, Zenon DEF PartsInv
  <2> QED BY <2>3, <2>5
<1>6. EndInv
  BY <1>2 DEF EndInv
<1> QED BY <1>1, <1>3, <1>4, <1>5, <1>6 DEF SyncIInv

(* Listing an object of the primary side keeps it.                         *)
LEMMA ListPrimaryStep ==
    ASSUME SyncIInv, NEW o \in Objects, ListPrimary(o)
    PROVE  SyncIInv'
<1>1. SameSides /\ UNCHANGED <<phase, toFinish, copying, deleting, message>>
  BY DEF ListPrimary, SameSides
<1>2. /\ Primary' = Primary /\ Secondary' = Secondary /\ ToOrder' = ToOrder /\ ToDelete' = ToDelete
      /\ OptionsInv'
  BY <1>1, SidesStay DEF SyncIInv
<1>3. /\ PartsInv' /\ DeletionInv' /\ finalSent' = finalSent /\ transfers' = transfers
      /\ \A past : SettledFor(past) => SettledNext(past)
  BY <1>1, NothingMoves DEF SyncIInv
<1>4. phase = "primary" /\ o \in leftToList /\ leftToList' = leftToList \ {o}
  BY DEF ListPrimary
<1>5. indexMap' = indexMap \cup {Name(o, FALSE)}
  BY KeysArePlain DEF ListPrimary, SyncIInv
<1>6. ListingInv'
  <2>1. leftToList \subseteq Primary /\ indexMap = Plain(Primary \ leftToList)
    BY <1>4 DEF SyncIInv, ListingInv
  <2>2. Primary \ (leftToList \ {o}) = (Primary \ leftToList) \cup {o}
    BY <1>4, <2>1
  <2>3. Plain((Primary \ leftToList) \cup {o}) = Plain(Primary \ leftToList) \cup {Name(o, FALSE)}
    BY PlainNames
  <2>4. indexMap' = Plain(Primary' \ leftToList')
    BY <1>2, <1>4, <1>5, <2>1, <2>2, <2>3, Zenon
  <2>5. Name(o, FALSE) \in Objects \X BOOLEAN
    BY DEF Name
  <2>6. /\ leftToList' \subseteq Objects /\ indexMap' \subseteq Objects \X BOOLEAN
        /\ toFinish' \subseteq indexMap' /\ leftToList' \subseteq Primary' /\ toFinish' = {}
    BY <1>1, <1>2, <1>4, <1>5, <2>1, <2>5 DEF SyncIInv, ListingInv
  <2> QED BY <1>1, <1>4, <2>4, <2>6 DEF ListingInv
<1>7. SettledInv'
  BY <1>1, <1>2, <1>3, <1>4 DEF SyncIInv, SettledInv, SettledFor, SettledNext
<1>8. EndInv'
  BY <1>1, <1>3 DEF SyncIInv, EndInv
<1> QED BY <1>2, <1>3, <1>6, <1>7, <1>8 DEF SyncIInv

(* So does the end of that listing.                                        *)
LEMMA PrimaryListedStep ==
    ASSUME SyncIInv, PrimaryListed
    PROVE  SyncIInv'
<1>1. SameSides /\ UNCHANGED <<indexMap, toFinish, copying, deleting, message>>
  BY DEF PrimaryListed, SameSides
<1>2. /\ Primary' = Primary /\ Secondary' = Secondary /\ ToOrder' = ToOrder /\ ToDelete' = ToDelete
      /\ OptionsInv'
  BY <1>1, SidesStay DEF SyncIInv
<1>3. /\ PartsInv' /\ DeletionInv' /\ finalSent' = finalSent /\ transfers' = transfers
      /\ \A past : SettledFor(past) => SettledNext(past)
  BY <1>1, NothingMoves DEF SyncIInv
<1>4. phase = "primary" /\ leftToList = {} /\ phase' = "secondary" /\ leftToList' = Secondary
  BY DEF PrimaryListed, Secondary
<1>5. ListingInv'
  <2>1. Primary' \ (Secondary' \ leftToList') = Primary \ leftToList
    BY <1>2, <1>4
  <2>2. indexMap' = Plain(Primary \ leftToList)
    BY <1>1, <1>4 DEF SyncIInv, ListingInv
  <2>3. indexMap' = Plain(Primary' \ (Secondary' \ leftToList'))
    BY <2>1, <2>2
  <2> QED BY <1>1, <1>2, <1>4, <2>3, SidesAreObjects DEF SyncIInv, ListingInv
<1>6. SettledInv'
  <2>1. SettledNext({})
    BY <1>3, <1>4 DEF SyncIInv, SettledInv
  <2>2. Secondary' \ leftToList' = {}
    BY <1>2, <1>4
  <2> QED BY <1>2, <1>4, <2>1, <2>2 DEF SettledInv, SettledFor, SettledNext
<1>7. EndInv'
  BY <1>1, <1>3, <1>4 DEF SyncIInv, EndInv
<1> QED BY <1>2, <1>3, <1>5, <1>6, <1>7 DEF SyncIInv

(* Both comparators take the name of what they were given off the index.   *)
LEMMA ComparedStep ==
    ASSUME SyncIInv, NEW o \in leftToList, phase = "secondary", leftToList' = leftToList \ {o},
           indexMap' = indexMap \ {Name(o, FALSE)}, UNCHANGED <<phase, toFinish, message>>,
           SameSides, SettledNext((Secondary \ leftToList) \cup {o}),
           PartsInv', DeletionInv', finalSent' = finalSent
    PROVE  SyncIInv'
<1>1. /\ Primary' = Primary /\ Secondary' = Secondary /\ ToOrder' = ToOrder /\ ToDelete' = ToDelete
      /\ OptionsInv'
  BY SidesStay DEF SyncIInv
<1>2. leftToList \subseteq Secondary /\ indexMap = Plain(Primary \ (Secondary \ leftToList))
  BY DEF SyncIInv, ListingInv
<1>3. Secondary' \ leftToList' = (Secondary \ leftToList) \cup {o}
  BY <1>1, <1>2
<1>4. indexMap' = Plain(Primary' \ (Secondary' \ leftToList'))
  <2>1. Primary' \ (Secondary' \ leftToList') = (Primary \ (Secondary \ leftToList)) \ {o}
    BY <1>1, <1>3
  <2>2. Plain((Primary \ (Secondary \ leftToList)) \ {o})
          = Plain(Primary \ (Secondary \ leftToList)) \ {Name(o, FALSE)}
    BY PlainNames
  <2> QED BY <1>2, <2>1, <2>2, Zenon
<1>5. ListingInv'
  <2>1. leftToList' \subseteq Secondary'
    BY <1>1, <1>2
  <2> QED BY <1>4, <2>1 DEF SyncIInv, ListingInv
<1>6. SettledInv'
  BY <1>1, <1>3 DEF SettledInv, SettledFor, SettledNext
<1>7. EndInv'
  BY DEF SyncIInv, EndInv
<1> QED BY <1>1, <1>5, <1>6, <1>7 DEF SyncIInv

(* What is still to be listed of the secondary side is indexed if it has a pair. *)
LEMMA InIndex ==
    ASSUME SyncIInv, phase = "secondary", NEW o \in leftToList
    PROVE  /\ o \in Objects /\ o \in Secondary /\ o \notin Secondary \ leftToList
           /\ Name(o, FALSE) \in indexMap <=> o \in Primary
           /\ ~finalSent
           /\ SettledFor(Secondary \ leftToList)
<1>1. /\ leftToList \subseteq Secondary /\ leftToList \subseteq Objects
      /\ indexMap = Plain(Primary \ (Secondary \ leftToList))
  BY DEF SyncIInv, ListingInv
<1>2. Name(o, FALSE) \in indexMap <=> o \in Primary \ (Secondary \ leftToList)
  BY <1>1, PlainNames
<1>3. ~finalSent /\ SettledFor(Secondary \ leftToList)
  BY DEF SyncIInv, EndInv, SettledInv
<1> QED BY <1>1, <1>2, <1>3

(* Comparing an object of the destination keeps it: an extra is removed.   *)
LEMMA CompareDestinationStep ==
    ASSUME SyncIInv, NEW o \in Objects, CompareDestination(o)
    PROVE  SyncIInv'
<1>1. /\ SameSides /\ UNCHANGED <<phase, toFinish, message>>
      /\ phase = "secondary" /\ o \in leftToList /\ leftToList' = leftToList \ {o} /\ uploads
  BY DEF CompareDestination, SameSides
<1>2. /\ o \in TargetPaths /\ o \notin Secondary \ leftToList
      /\ Name(o, FALSE) \in indexMap <=> o \in SourcePaths
      /\ ~finalSent /\ SettledFor(Secondary \ leftToList) /\ PartsInv /\ DeletionInv
  BY <1>1, InIndex DEF SyncIInv, Primary, Secondary
<1>3. TargetName(o) = Name(o, FALSE)
  BY <1>1, KeysArePlain DEF SyncIInv
<1>4. CASE o \in SourcePaths /\ NeedsCopy(o)
  <2>1. /\ indexMap' = indexMap \ {Name(o, FALSE)} /\ ScheduleCopy(o) /\ UNCHANGED deleting
    BY <1>2, <1>3, <1>4 DEF CompareDestination
  <2>2. o \in ToOrder
    BY <1>4 DEF ToOrder
  <2>3. /\ SettledNext((Secondary \ leftToList) \cup {o}) /\ PartsInv' /\ DeletionInv'
        /\ finalSent' = finalSent
    BY <1>2, <2>1, <2>2, CopySettles
  <2> QED BY <1>1, <2>1, <2>3, ComparedStep
<1>5. CASE o \in SourcePaths /\ ~NeedsCopy(o)
  <2>1. indexMap' = indexMap \ {Name(o, FALSE)} /\ UNCHANGED <<copying, deleting>>
    BY <1>2, <1>3, <1>5 DEF CompareDestination
  <2>2. o \notin ToOrder \cup ToDelete
    BY <1>2, <1>5 DEF ToOrder, ToDelete
  <2>3. /\ SettledNext((Secondary \ leftToList) \cup {o}) /\ PartsInv' /\ DeletionInv'
        /\ finalSent' = finalSent
    BY <1>2, <2>1, <2>2, NothingSettles
  <2> QED BY <1>1, <2>1, <2>3, ComparedStep
<1>6. CASE o \notin SourcePaths
  <2>1. indexMap' = indexMap /\ RemoveExtra(o) /\ UNCHANGED copying
    BY <1>2, <1>3, <1>6 DEF CompareDestination
  <2>2. indexMap' = indexMap \ {Name(o, FALSE)}
    BY <1>2, <1>6, <2>1
  <2>3. o \in ToDelete
    BY <1>2, <1>6 DEF ToDelete
  <2>4. /\ SettledNext((Secondary \ leftToList) \cup {o}) /\ PartsInv' /\ DeletionInv'
        /\ finalSent' = finalSent
    BY <1>2, <2>1, <2>3, RemovalSettles
  <2> QED BY <1>1, <2>2, <2>4, ComparedStep
<1> QED BY <1>4, <1>5, <1>6

(* Comparing an object of the source keeps it: a newer one is copied.      *)
LEMMA CompareSourceStep ==
    ASSUME SyncIInv, NEW o \in Objects, CompareSource(o)
    PROVE  SyncIInv'
<1>1. /\ SameSides /\ UNCHANGED <<phase, toFinish, message>> /\ UNCHANGED deleting
      /\ phase = "secondary" /\ o \in leftToList /\ leftToList' = leftToList \ {o} /\ ~uploads
  BY DEF CompareSource, SameSides
<1>2. /\ o \in SourcePaths /\ o \notin Secondary \ leftToList
      /\ Name(o, FALSE) \in indexMap <=> o \in TargetPaths
      /\ ~finalSent /\ SettledFor(Secondary \ leftToList) /\ PartsInv /\ DeletionInv
  BY <1>1, InIndex DEF SyncIInv, Primary, Secondary
<1>3. Key(SourceName(o)) = Name(o, FALSE)
  BY KeysArePlain DEF SyncIInv
<1>4. indexMap' = indexMap \ {Name(o, FALSE)}
  BY <1>3 DEF CompareSource
<1>5. CASE o \in TargetPaths => NeedsCopy(o)
  <2>1. ScheduleCopy(o)
    BY <1>2, <1>3, <1>5 DEF CompareSource
  <2>2. o \in ToOrder
    BY <1>2, <1>5 DEF ToOrder
  <2>3. /\ SettledNext((Secondary \ leftToList) \cup {o}) /\ PartsInv' /\ DeletionInv'
        /\ finalSent' = finalSent
    BY <1>1, <1>2, <2>1, <2>2, CopySettles
  <2> QED BY <1>1, <1>4, <2>3, ComparedStep
<1>6. CASE ~(o \in TargetPaths => NeedsCopy(o))
  <2>1. UNCHANGED copying
    BY <1>2, <1>3, <1>6 DEF CompareSource
  <2>2. o \notin ToOrder \cup ToDelete
    BY <1>2, <1>6 DEF ToOrder, ToDelete
  <2>3. /\ SettledNext((Secondary \ leftToList) \cup {o}) /\ PartsInv' /\ DeletionInv'
        /\ finalSent' = finalSent
    BY <1>1, <1>2, <2>1, <2>2, NothingSettles
  <2> QED BY <1>1, <1>4, <2>3, ComparedStep
<1> QED BY <1>5, <1>6

(* The end of the comparison keeps it: what is left in the index is finalised. *)
LEMMA SecondaryListedStep ==
    ASSUME SyncIInv, SecondaryListed
    PROVE  SyncIInv'
<1>1. SameSides /\ UNCHANGED <<leftToList, indexMap, copying, deleting, message>>
  BY DEF SecondaryListed, SameSides
<1>2. /\ Primary' = Primary /\ Secondary' = Secondary /\ ToOrder' = ToOrder /\ ToDelete' = ToDelete
      /\ OptionsInv'
  BY <1>1, SidesStay DEF SyncIInv
<1>3. /\ PartsInv' /\ DeletionInv' /\ finalSent' = finalSent /\ transfers' = transfers
      /\ \A past : SettledFor(past) => SettledNext(past)
  BY <1>1, NothingMoves DEF SyncIInv
<1>4. phase = "secondary" /\ leftToList = {} /\ phase' = "rest" /\ toFinish' = indexMap
  BY DEF SecondaryListed
<1>5. indexMap = Plain(Primary \ Secondary)
  <2>1. Primary \ (Secondary \ leftToList) = Primary \ Secondary
    BY <1>4
  <2>2. indexMap = Plain(Primary \ (Secondary \ leftToList))
    BY <1>4 DEF SyncIInv, ListingInv
  <2> QED BY <2>1, <2>2, Zenon
<1>6. ListingInv'
  BY <1>1, <1>2, <1>4, <1>5 DEF SyncIInv, ListingInv
<1>7. SettledInv'
  <2>1. SettledNext(Secondary)
    <3>1. Secondary \ leftToList = Secondary
      BY <1>4
    <3>2. SettledFor(Secondary \ leftToList)
      BY <1>4 DEF SyncIInv, SettledInv
    <3> QED BY <1>3, <3>1, <3>2
  <2>2. \A o : Name(o, FALSE) \notin toFinish' <=> o \notin Primary \ Secondary
    BY <1>4, <1>5, PlainNames
  <2>3. {o \in Objects : Name(o, FALSE) \notin toFinish'} = Objects \ (Primary \ Secondary)
    BY <2>2
  <2>4. /\ ToOrder \cap (Objects \ (Primary \ Secondary)) = ToOrder \cap Secondary
        /\ ToDelete \cap (Objects \ (Primary \ Secondary)) = ToDelete \cap Secondary
    BY SidesAreObjects
  <2>5. SettledNext(Objects \ (Primary \ Secondary))
    BY <2>1, <2>4 DEF SettledNext
  <2>6. SettledFor({o \in Objects : Name(o, FALSE) \notin toFinish})'
    BY <1>2, <2>3, <2>5 DEF SettledFor, SettledNext
  <2> QED BY <1>4, <2>6 DEF SettledInv
<1>8. EndInv'
  BY <1>1, <1>3, <1>4 DEF SyncIInv, EndInv
<1> QED BY <1>2, <1>3, <1>6, <1>7, <1>8 DEF SyncIInv

(* A listing that fails keeps it: nothing more is ordered or deleted.      *)
LEMMA EnumerationFailsStep ==
    ASSUME SyncIInv, EnumerationFails
    PROVE  SyncIInv'
<1>1. SameSides /\ UNCHANGED <<leftToList, indexMap, toFinish, copying, deleting>>
  BY DEF EnumerationFails, SameSides, listing
<1>2. ToDelete' = ToDelete /\ OptionsInv'
  BY <1>1, SidesStay DEF SyncIInv
<1>3. /\ PartsInv' /\ DeletionInv' /\ finalSent' = finalSent /\ transfers' = transfers
      /\ attempted' = attempted
  BY <1>1, NothingMoves DEF SyncIInv
<1>4. phase \in {"primary", "secondary"} /\ phase' = "ended" /\ message' = "failed"
  BY DEF EnumerationFails
<1>5. ListingInv'
  BY <1>1, <1>4 DEF SyncIInv, ListingInv
<1>6. SettledInv'
  <2>1. attempted \subseteq ToDelete
    BY <1>4 DEF SyncIInv, SettledInv, SettledFor
  <2> QED BY <1>2, <1>3, <1>4, <2>1 DEF SettledInv
<1>7. EndInv'
  BY <1>3, <1>4 DEF SyncIInv, EndInv
<1> QED BY <1>2, <1>3, <1>5, <1>6, <1>7 DEF SyncIInv

(* What is left in the index is to be copied, or is to be deleted.         *)
LEMMA FinishOneStep ==
    ASSUME SyncIInv, NEW name \in toFinish, FinishOne(name)
    PROVE  SyncIInv'
<1> DEFINE o == name[1]
           past == {p \in Objects : Name(p, FALSE) \notin toFinish}
<1>1. /\ SameSides /\ UNCHANGED <<phase, leftToList, indexMap, message>>
      /\ phase = "rest" /\ toFinish' = toFinish \ {name}
  BY DEF FinishOne, SameSides
<1>2. /\ Primary' = Primary /\ Secondary' = Secondary /\ ToOrder' = ToOrder /\ ToDelete' = ToDelete
      /\ OptionsInv'
  BY <1>1, SidesStay DEF SyncIInv
<1>3. name = Name(o, FALSE) /\ o \in Primary \ Secondary
  <2>1. name \in Plain(Primary \ Secondary)
    BY <1>1 DEF SyncIInv, ListingInv
  <2> QED BY <2>1, PlainIsOfPaths
<1>4. o \in Objects /\ o \notin past /\ SettledFor(past) /\ ~finalSent /\ PartsInv /\ DeletionInv
  <2>1. o \in Objects /\ o \notin past
    BY <1>3, SidesAreObjects
  <2>2. SettledFor(past) /\ ~finalSent /\ PartsInv /\ DeletionInv
    BY <1>1 DEF SyncIInv, SettledInv, EndInv
  <2> QED BY <2>1, <2>2
<1>5. {p \in Objects : Name(p, FALSE) \notin toFinish'} = past \cup {o}
  <2>1. \A p : Name(p, FALSE) = Name(o, FALSE) => p = o
    BY DEF Name
  <2> HIDE DEF o
  <2> QED BY <1>1, <1>3, <1>4, <2>1
<1> HIDE DEF o, past
<1>6. /\ SettledNext(past \cup {o}) /\ PartsInv' /\ DeletionInv' /\ finalSent' = finalSent
  <2>1. CASE uploads
    <3>1. ScheduleCopy(o) /\ UNCHANGED deleting
      BY <2>1 DEF FinishOne, o
    <3>2. o \in ToOrder
      BY <1>3, <2>1 DEF ToOrder, Primary, Secondary
    <3> QED BY <1>4, <3>1, <3>2, CopySettles
  <2>2. CASE ~uploads
    <3>1. RemoveExtra(o) /\ UNCHANGED copying
      BY <2>2 DEF FinishOne, o
    <3>2. o \in ToDelete
      BY <1>3, <2>2 DEF ToDelete, Primary, Secondary
    <3> QED BY <1>4, <3>1, <3>2, RemovalSettles
  <2> QED BY <2>1, <2>2
<1>7. ListingInv'
  BY <1>1, <1>2 DEF SyncIInv, ListingInv
<1>8. SettledInv'
  <2>1. SettledFor({p \in Objects : Name(p, FALSE) \notin toFinish})'
    BY <1>2, <1>5, <1>6 DEF SettledFor, SettledNext
  <2> QED BY <1>1, <2>1 DEF SettledInv
<1>9. EndInv'
  BY <1>1, <1>6 DEF SyncIInv, EndInv
<1> QED BY <1>2, <1>6, <1>7, <1>8, <1>9 DEF SyncIInv

(* Dispatching the final part keeps it.                                    *)
LEMMA DispatchFinalPartStep ==
    ASSUME SyncIInv, DispatchFinalPart
    PROVE  SyncIInv'
<1>1. /\ SameSides /\ UNCHANGED <<leftToList, indexMap, toFinish, deleting>>
      /\ phase = "rest" /\ toFinish = {}
  BY DEF DispatchFinalPart, SameSides, listing
<1>2. ToOrder' = ToOrder /\ ToDelete' = ToDelete /\ OptionsInv'
  BY <1>1, SidesStay DEF SyncIInv
<1>3. SettledFor(Objects) /\ ~finalSent /\ PartsInv /\ message = "none"
  <2>1. {p \in Objects : Name(p, FALSE) \notin toFinish} = Objects
    BY <1>1
  <2>2. SettledFor({p \in Objects : Name(p, FALSE) \notin toFinish})
    BY <1>1 DEF SyncIInv, SettledInv
  <2> QED BY <1>1, <2>1, <2>2 DEF SyncIInv, EndInv
<1>4. DeletionInv' /\ UNCHANGED <<attempted, kept>>
  BY <1>1 DEF SyncIInv, DeletionInv, deleting
<1>5. CASE transfers # {}
  <2> DEFINE n == Len(sentParts)
  <2>1. /\ sentParts' = Append(sentParts, transfers) /\ toCopy' = toCopy \cup transfers
        /\ transfers' = {} /\ finalSent' = TRUE /\ phase' = "dispatched" /\ message' = message
    BY <1>5 DEF DispatchFinalPart
  <2>2. sentParts \in Seq(SUBSET Objects) /\ transfers \subseteq Objects /\ toCopy \subseteq Objects
    BY <1>3 DEF PartsInv
  <2>3. /\ sentParts' \in Seq(SUBSET Objects) /\ Len(sentParts') = n + 1
        /\ n \in Nat /\ DOMAIN sentParts = 1..n /\ DOMAIN sentParts' = 1..(n + 1)
        /\ \A i \in 1..n : sentParts'[i] = sentParts[i]
        /\ sentParts'[n + 1] = transfers
    BY <2>1, <2>2, AppendedPart
  <2> HIDE DEF n
  <2>4. \A i \in 1..(n + 1) : i \in 1..n \/ i = n + 1
    BY <2>3
  <2>5. \A i \in 1..n : /\ sentParts[i] \cap transfers = {} /\ sentParts[i] # {}
                        /\ Cardinality(sentParts[i]) = PartCapacity
    BY <1>3, <2>3 DEF PartsInv
  <2>6. \A i, j \in 1..n : i # j => sentParts[i] \cap sentParts[j] = {}
    BY <1>3, <2>3 DEF PartsInv
  <2>7. \A i, j \in DOMAIN sentParts' : i # j => sentParts'[i] \cap sentParts'[j] = {}
    BY <2>3, <2>4, <2>5, <2>6
  <2>8. \A i \in DOMAIN sentParts' :
          /\ sentParts'[i] \cap transfers' = {} /\ sentParts'[i] # {}
          /\ i < Len(sentParts') => Cardinality(sentParts'[i]) = PartCapacity
    BY <1>5, <2>1, <2>3, <2>4, <2>5
  <2>9. /\ transfers' \subseteq Objects /\ toCopy' \subseteq Objects
        /\ IsFiniteSet(transfers') /\ Cardinality(transfers') <= PartCapacity
    BY <2>1, <2>2, SyncAssumption, FS_EmptySet
  <2>10. PartsInv'
    BY <2>1, <2>3, <2>7, <2>8, <2>9 DEF PartsInv
  <2>11. Ordered' = Ordered
    <3>1. \A o : o \in Ordered' <=> o \in Ordered
      BY <1>3, <2>1, SentIsOrdered, OrderedAre
    <3> QED BY <3>1
  <2>12. SettledInv'
    BY <1>2, <1>3, <1>4, <2>1, <2>11 DEF SettledInv, SettledFor
  <2>13. ListingInv' /\ EndInv'
    BY <1>1, <1>3, <2>1 DEF SyncIInv, ListingInv, EndInv
  <2> QED BY <1>2, <1>4, <2>10, <2>12, <2>13 DEF SyncIInv
<1>6. CASE transfers = {}
  <2>1. /\ phase' = "ended" /\ message' \in {"now in sync", "already in sync"} /\ UNCHANGED copying
    BY <1>6 DEF DispatchFinalPart
  <2>2. PartsInv' /\ Ordered' = Ordered /\ finalSent' = finalSent /\ transfers' = transfers
    BY <1>3, <2>1 DEF copying, PartsInv, Ordered
  <2>3. SettledInv'
    BY <1>2, <1>3, <1>4, <2>1, <2>2 DEF SettledInv, SettledFor
  <2>4. ListingInv' /\ EndInv'
    BY <1>1, <1>3, <1>6, <2>1, <2>2 DEF SyncIInv, ListingInv, EndInv
  <2> QED BY <1>2, <1>4, <2>2, <2>3, <2>4 DEF SyncIInv
<1> QED BY <1>5, <1>6

(* The engine's copies keep it.                                            *)
LEMMA EngineCopiesStep ==
    ASSUME SyncIInv, NEW o \in Objects, EngineCopies(o)
    PROVE  SyncIInv'
<1>1. /\ SameSides /\ UNCHANGED <<phase, leftToList, indexMap, toFinish, message, deleting>>
      /\ UNCHANGED <<transfers, sentParts, finalSent>> /\ toCopy' \subseteq toCopy
  BY DEF EngineCopies, SameSides, listing
<1>2. /\ Primary' = Primary /\ Secondary' = Secondary /\ ToOrder' = ToOrder /\ ToDelete' = ToDelete
      /\ OptionsInv'
  BY <1>1, SidesStay DEF SyncIInv
<1>3. PartsInv' /\ DeletionInv' /\ Ordered' = Ordered /\ UNCHANGED <<attempted, kept>>
  BY <1>1 DEF SyncIInv, PartsInv, DeletionInv, Ordered, deleting
<1>4. SettledInv'
  BY <1>1, <1>2, <1>3 DEF SyncIInv, SettledInv, SettledFor
<1>5. ListingInv' /\ EndInv'
  BY <1>1, <1>2 DEF SyncIInv, ListingInv, EndInv
<1> QED BY <1>2, <1>3, <1>4, <1>5 DEF SyncIInv

(* The end of the reporter keeps it.                                       *)
LEMMA ReporterExitsStep ==
    ASSUME SyncIInv, ReporterExits
    PROVE  SyncIInv'
<1>1. SameSides /\ UNCHANGED <<leftToList, indexMap, toFinish, copying, deleting>>
  BY DEF ReporterExits, SameSides, listing
<1>2. ToOrder' = ToOrder /\ ToDelete' = ToDelete /\ OptionsInv'
  BY <1>1, SidesStay DEF SyncIInv
<1>3. PartsInv' /\ DeletionInv' /\ Ordered' = Ordered /\ UNCHANGED <<attempted, kept, finalSent>>
  BY <1>1 DEF SyncIInv, PartsInv, DeletionInv, Ordered, copying, deleting
<1>4. phase = "dispatched" /\ finalSent /\ phase' = "ended" /\ message' = "summary"
  BY DEF ReporterExits, SyncIInv, EndInv
<1>5. SettledFor(Objects) /\ attempted \subseteq ToDelete
  BY <1>4 DEF SyncIInv, SettledInv, SettledFor
<1>6. SettledInv'
  BY <1>2, <1>3, <1>4, <1>5 DEF SettledInv, SettledFor
<1>7. ListingInv' /\ EndInv'
  BY <1>1, <1>3, <1>4 DEF SyncIInv, ListingInv, EndInv
<1> QED BY <1>2, <1>3, <1>6, <1>7 DEF SyncIInv

(* A step that changes nothing keeps it.                                   *)
LEMMA SyncStutters ==
    ASSUME SyncIInv, UNCHANGED syVars
    PROVE  SyncIInv'
<1>1. /\ SameSides
      /\ UNCHANGED <<phase, leftToList, indexMap, toFinish, copying, deleting, message>>
  BY DEF syVars, listing, SameSides
<1>2. /\ Primary' = Primary /\ Secondary' = Secondary /\ ToOrder' = ToOrder /\ ToDelete' = ToDelete
      /\ OptionsInv'
  BY <1>1, SidesStay DEF SyncIInv
<1>3. /\ PartsInv' /\ DeletionInv' /\ Ordered' = Ordered
      /\ UNCHANGED <<attempted, kept, finalSent, transfers>>
  BY <1>1 DEF SyncIInv, PartsInv, DeletionInv, Ordered, copying, deleting
<1>4. SettledInv'
  BY <1>1, <1>2, <1>3 DEF SyncIInv, SettledInv, SettledFor
<1>5. ListingInv' /\ EndInv'
  BY <1>1, <1>2, <1>3 DEF SyncIInv, ListingInv, EndInv
<1> QED BY <1>2, <1>3, <1>4, <1>5 DEF SyncIInv

(* Any step keeps it.                                                      *)
LEMMA SyncIInvStep == SyncIInv /\ [SYNext]_syVars => SyncIInv'
<1> SUFFICES ASSUME SyncIInv, [SYNext]_syVars PROVE SyncIInv'
  OBVIOUS
<1> QED BY ListPrimaryStep, CompareDestinationStep, CompareSourceStep, EngineCopiesStep,
           PrimaryListedStep, SecondaryListedStep, EnumerationFailsStep, FinishOneStep,
           DispatchFinalPartStep, ReporterExitsStep, SyncStutters DEF SYNext

-----------------------------------------------------------------------------
(* The inductive invariant of a sync, in both orders.                      *)
THEOREM SyncIInvHolds == SYSpec => []SyncIInv
BY SyncInitIInv, SyncIInvStep, PTL DEF SYSpec

(* It implies the types,                                                   *)
LEMMA ImpliesTypes == SyncIInv => SYTypeOK
BY DEF SyncIInv, OptionsInv, ListingInv, PartsInv, DeletionInv, SYTypeOK

(* that only extras are deleted,                                           *)
LEMMA ImpliesExtras ==
    ASSUME SyncIInv
    PROVE  attempted \subseteq ToDelete /\ OnlyExtrasAreDeleted
<1>1. attempted \subseteq ToDelete
  BY DEF SyncIInv, ListingInv, SettledInv, SettledFor
<1>2. \A o \in ToDelete : pair[o].source => ~pair[o].readable
  BY DEF ToDelete, TargetPaths, SourcePaths
<1> QED BY <1>1, <1>2 DEF OnlyExtrasAreDeleted

(* that every difference is settled, the deletions first,                  *)
LEMMA ImpliesSettled ==
    ASSUME SyncIInv
    PROVE  EveryDifferenceIsSettled /\ DeletionsComeFirst
<1>1. ASSUME finalSent \/ message \in {"now in sync", "already in sync", "summary"}
      PROVE  SettledFor(Objects)
  BY <1>1 DEF SyncIInv, SettledInv, EndInv
<1>2. ToOrder \cap Objects = ToOrder /\ ToDelete \cap Objects = ToDelete
  BY SidesAreObjects
<1>3. ToOrder = {o \in SourcePaths : pair[o].target => NeedsCopy(o)}
  <2>1. \A o \in SourcePaths : o \in TargetPaths <=> pair[o].target
    BY DEF SourcePaths, TargetPaths
  <2> QED BY <2>1 DEF ToOrder
<1>4. EveryDifferenceIsSettled
  BY <1>1, <1>2, <1>3 DEF EveryDifferenceIsSettled, SettledFor, ToDelete
<1>5. DeletionsComeFirst
  BY <1>1, <1>2 DEF DeletionsComeFirst, SettledFor, ToDelete
<1> QED BY <1>4, <1>5

(* and that the parts are proper.                                          *)
LEMMA ImpliesParts == SyncIInv => PartsAreProper
<1> SUFFICES ASSUME SyncIInv PROVE PartsAreProper
  OBVIOUS
<1>1. message \in {"now in sync", "already in sync"} => sentParts = <<>>
  BY DEF SyncIInv, PartsInv, EndInv
<1> QED BY <1>1 DEF SyncIInv, PartsInv, PartsAreProper

(* Every variable of a sync keeps its type.                                *)
THEOREM TypeCorrect == SYSpec => []SYTypeOK
BY SyncIInvHolds, ImpliesTypes, PTL

(* A sync orders and deletes the difference of the two sides, whatever the *)
(* order of the listings, the comparison and the answers to its prompts,   *)
(* and it does so in proper parts (SyncEnumerator).                        *)
THEOREM SyncInvHolds == SYSpec => []SyncInv
<1>1. SyncIInv => SyncInv
  BY ImpliesTypes, ImpliesExtras, ImpliesSettled, ImpliesParts DEF SyncInv
<1> QED BY <1>1, SyncIInvHolds, PTL
=============================================================================
