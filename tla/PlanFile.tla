------------------------------ MODULE PlanFile ------------------------------
(***************************************************************************)
(* The layout of a plan file: JobPartPlanFileName.Create writes a header,  *)
(* a record for each transfer and then the strings of all transfers; the   *)
(* engine reads them through a memory map, by the offset and the lengths   *)
(* that the record keeps.  Lengths are signed integers (of 16 bits in the  *)
(* code), and Create adds them up before it widens the sum.                *)
(*                                                                         *)
(* The file is a sequence of cells, each with the transfer and the field   *)
(* it belongs to; the header and a record take the cells they take.        *)
(***************************************************************************)
EXTENDS Integers, Sequences

CONSTANTS MaxLen,         \* the largest length (math.MaxInt16 in the code)
          OrderSize,      \* number of transfers in the order
          HeaderCells     \* size of the header with its command string

ASSUME LayoutAssumption ==
    /\ MaxLen \in Nat
    /\ OrderSize \in Nat /\ OrderSize > 0
    /\ HeaderCells \in Nat /\ HeaderCells > 0

(* The strings of a transfer, in the order they are written.  The others   *)
(* (headers, tags, version) follow the same pattern as the metadata.       *)
StringFields == <<"source", "destination", "metadata">>
Field == {"source", "destination", "metadata"}

(* Arithmetic on int16 wraps around: the values are those from             *)
(* -(MaxLen + 1) to MaxLen.                                                *)
Width == 2 * (MaxLen + 1)
Wrap(n) == LET r == n % Width IN IF r > MaxLen THEN r - Width ELSE r

OrderIndex == 1..OrderSize

VARIABLES order,      \* lengths of the strings of each transfer
          file,       \* the cells written
          records,    \* the records written: offset and lengths
          nextOffset, \* currentSrcStringOffset
          writing,    \* transfer whose strings are next
          writerPanicked    \* Create gave up

pfVars == <<order, file, records, nextOffset, writing, writerPanicked>>

(* Create refuses strings longer than an int16 holds.                      *)
PFInit ==
    /\ order \in [OrderIndex -> [Field -> 0..MaxLen]]
    /\ file = <<>> /\ records = <<>> /\ nextOffset = 0 /\ writing = 0 /\ writerPanicked = FALSE

Cells(t, field, n) == [i \in 1..n |-> <<t, field>>]

(* The records start at a multiple of 8. *)
Aligned(n) == ((n + 7) \div 8) * 8

WriteHeader ==
    /\ writing = 0 /\ file = <<>>
    /\ file' = Cells(0, "header", HeaderCells)
               \o Cells(0, "padding", Aligned(HeaderCells) - HeaderCells)
    /\ nextOffset' = Aligned(HeaderCells) + 8 * OrderSize
    /\ UNCHANGED <<order, records, writing, writerPanicked>>

TotalLength(lengths) == Wrap(lengths["source"] + lengths["destination"] + lengths["metadata"])

(* A record takes eight cells here. *)
WriteRecord ==
    /\ writing = 0 /\ file # <<>> /\ Len(records) < OrderSize
    /\ LET t == Len(records) + 1
       IN  /\ records' = Append(records, [offset |-> nextOffset, lengths |-> order[t]])
           /\ file' = file \o Cells(t, "record", 8)
           /\ nextOffset' = nextOffset + TotalLength(order[t])
           /\ writing' = IF t = OrderSize THEN 1 ELSE 0
    /\ UNCHANGED <<order, writerPanicked>>

WithStringsOf(t) ==
    file \o Cells(t, "source", order[t]["source"])
         \o Cells(t, "destination", order[t]["destination"])
         \o Cells(t, "metadata", order[t]["metadata"])

MutWriteStrings ==  \* without the sanity check
    /\ writing \in OrderIndex
    /\ file' = WithStringsOf(writing)
    /\ writing' = writing + 1
    /\ UNCHANGED <<order, records, nextOffset, writerPanicked>>

(* Before the strings of a transfer are written the end of the file is     *)
(* compared with the offset in its record.                                 *)
WriteStrings ==
    /\ writing \in OrderIndex /\ ~writerPanicked
    /\ IF Len(file) # records[writing].offset
       THEN writerPanicked' = TRUE /\ UNCHANGED <<file, writing>>
       ELSE /\ file' = WithStringsOf(writing)
            /\ writing' = writing + 1
            /\ UNCHANGED writerPanicked
    /\ UNCHANGED <<order, records, nextOffset>>

Closed == writing = OrderSize + 1

PFNext == WriteHeader \/ WriteRecord \/ WriteStrings

PFSpec == PFInit /\ [][PFNext]_pfVars /\ WF_pfVars(PFNext)

-----------------------------------------------------------------------------
(* Reading: each string by its offset from the start of the file.          *)

(* Transfer(t) is looked up from the size of the header.                   *)
TransferOffset(t) ==
    (CHOOSE n \in HeaderCells..(HeaderCells + 7) : n % 8 = 0) + 8 * (t - 1)

OffsetOf(record, field) ==
    CASE field = "source"      -> record.offset
      [] field = "destination" -> record.offset + record.lengths["source"]
      [] field = "metadata"    -> record.offset + record.lengths["source"]
                                      + record.lengths["destination"]

(* Outside the file there is nothing of use.                               *)
GetString(offset, length) ==
    [i \in 1..length |->
        IF offset + i \in 1..Len(file) THEN file[offset + i] ELSE <<0, "outside">>]

-----------------------------------------------------------------------------
PFTypeOK ==
    /\ Len(records) \in 0..OrderSize
    /\ nextOffset \in Int
    /\ writing \in 0..(OrderSize + 1)
    /\ writerPanicked \in BOOLEAN

(* Of a plan file that Create has closed every string is read back as it   *)
(* was ordered, whatever the lengths and whether or not their sum wraps.   *)
PlanReadsBack ==
    Closed =>
        \A t \in OrderIndex, f \in Field :
            GetString(OffsetOf(records[t], f), records[t].lengths[f]) = Cells(t, f, order[t][f])

(* The records lie where Transfer looks for them. *)
RecordsAreAligned ==
    \A t \in 1..Len(records) :
        GetString(TransferOffset(t), 8) = Cells(t, "record", 8)

(* Create gives up only on an order in which the strings of one transfer,  *)
(* each of a length that it accepts, are together longer than an int16.    *)
OnlyLongSumsPanic ==
    writerPanicked =>
        \E t \in OrderIndex :
            order[t]["source"] + order[t]["destination"] + order[t]["metadata"] > MaxLen

(* What Create writes is what Transfer and TransferSrcDstStrings read.     *)
PlanInv ==
    /\ PFTypeOK
    /\ PlanReadsBack
    /\ RecordsAreAligned
    /\ OnlyLongSumsPanic
=============================================================================
