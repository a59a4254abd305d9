------------------------------ MODULE DataPage ------------------------------
(***************************************************************************)
(* The byte layout of one data page (row.go).                              *)
(*                                                                         *)
(* Row offsets grow upwards from the page header, row bytes downwards from *)
(* the end of the page.  No length is stored: where a row ends is inferred *)
(* from the other offsets, and two functions of the code infer it in two   *)
(* ways.  A byte is a model value that says which row it is part of and at *)
(* which place, so that a row that reads back changed is seen as such.     *)
(***************************************************************************)
EXTENDS Naturals, Sequences, FiniteSets, FiniteSetsExt

CONSTANTS Data,      \* row contents
          DataLen,   \* their lengths in bytes
          Pointer,   \* the content of an overflow pointer
          Blank,     \* a byte no row was written to
          HeadLen,      \* bytes of the page header (14 in the code)
          PageSize,  \* bytes of the page (4096 in the code)
          MaxSlots   \* bound: slots of the page

SlotLen == 2
PtrLen == 4

ASSUME LayoutAssumption == /\ HeadLen \in Nat \ {0} /\ PageSize \in Nat /\ MaxSlots \in Nat
                           /\ HeadLen <= PageSize
                           /\ DataLen \in [Data -> Nat \ {0}]
                           /\ Pointer \notin Data

VARIABLES bytes,   \* the page
          slots,   \* its slot directory: offset and the two flag bits
          free     \* the free-space field of its header

vars == <<bytes, slots, free>>

Bytes(v) == LET n == IF v = Pointer THEN PtrLen ELSE DataLen[v] IN [j \in 1..n |-> <<v, j>>]
Cells == (UNION {{Bytes(v)[j] : j \in DOMAIN Bytes(v)} : v \in Data \cup {Pointer}}) \cup {Blank}
Slots == [off : 0..PageSize, deleted : BOOLEAN, overflow : BOOLEAN]

DirEnd(n) == HeadLen + SlotLen * n
Offsets(ss) == {ss[i].off : i \in DOMAIN ss}
Least(S, end) == Min(S \cup {end})

Dead(s) == s.deleted /\ s.overflow
Kind(s) == IF Dead(s) THEN "dead" ELSE IF s.overflow THEN "ptr"
           ELSE IF s.deleted THEN "payload" ELSE "row"

-----------------------------------------------------------------------------
(* Where a row ends *)

\* Mutant of FindRowEnd: the end of the slot before, as LVAL pages have it.
EndByNeighbour(ss, off) == LET i == CHOOSE i \in DOMAIN ss : ss[i].off = off
                           IN IF i = 1 THEN PageSize ELSE ss[i - 1].off

\* findRowEnd: the nearest offset above, of any slot, dead or alive.
FindRowEnd(ss, off) == Least({o \in Offsets(ss) : o > off}, PageSize)

Extent(ss, i) == ss[i].off .. FindRowEnd(ss, ss[i].off) - 1
RowBytes(i) == [j \in 1..(FindRowEnd(slots, slots[i].off) - slots[i].off)
                  |-> bytes[slots[i].off + j - 1]]

\* Mutant of SeenByFree: the row is taken to end where the row before begins, unchecked.
SeenUnchecked(i) ==
  LET end == IF i = 1 THEN PageSize ELSE slots[i - 1].off
      last == IF end = 0 THEN PageSize ELSE end
  IN [j \in 1..(last - slots[i].off) |-> bytes[slots[i].off + j - 1]]

\* freeRowLongValues has its own way: the row ends where the row before begins.
SeenByFree(i) ==
  LET end == IF i = 1 THEN PageSize ELSE slots[i - 1].off
  IN IF slots[i].off >= DirEnd(Len(slots)) /\ slots[i].off <= end
     THEN [j \in 1..(end - slots[i].off) |-> bytes[slots[i].off + j - 1]]
     ELSE <<>>

-----------------------------------------------------------------------------
(* Changing the page *)

Put(page, off, v) ==
  [k \in DOMAIN page |-> IF k \in off..(off + Len(Bytes(v)) - 1) THEN Bytes(v)[k - off + 1] ELSE page[k]]

\* writeRowToPage: below the lowest row, dead ones included; 0 is no offset.
WriteOffset(v) == Least(Offsets(slots) \ {0}, PageSize) - Len(Bytes(v))

WriteRow(v, flag) ==
  LET off == WriteOffset(v)
  IN /\ Len(slots) < MaxSlots
     /\ free >= Len(Bytes(v)) + SlotLen
     /\ off >= DirEnd(Len(slots)) + SlotLen
     /\ bytes' = Put(bytes, off, v)
     /\ slots' = Append(slots, [off |-> off, deleted |-> flag, overflow |-> FALSE])
     /\ free' = off - (DirEnd(Len(slots)) + SlotLen)

\* Table.Insert; and an Update that moves the payload of a row of another page here.
Insert(v) == WriteRow(v, FALSE)
AddPayload(v) == WriteRow(v, TRUE)

\* rebuildDataPageWithFlags: the data every slot has after the repacking.
Repacked(i, v) == [j \in DOMAIN slots |->
                     IF j = i THEN Bytes(v)
                     ELSE IF Dead(slots[j]) \/ slots[j].off = 0 THEN <<>> ELSE RowBytes(j)]

\* The offset of slot j once the data is packed downwards from the end of the page.
Total(data, j) == MapThenSumSet(LAMBDA k : Len(data[k]), 1..j)

Packed(data) == [j \in DOMAIN data |-> IF data[j] = <<>> THEN 0 ELSE PageSize - Total(data, j)]

Rebuilt(data) ==
  LET off == Packed(data)
      At(k) == {j \in DOMAIN data : k \in off[j]..(off[j] + Len(data[j]) - 1)}
  IN [k \in DOMAIN bytes |-> IF At(k) = {} THEN Blank
                             ELSE LET j == Min(At(k)) IN data[j][k - off[j] + 1]]

FreeAfter(data) == PageSize - Total(data, Len(data)) - DirEnd(Len(data))

\* Mutant of Fits: the slot directory is overlooked.
FitsOver(data) == PageSize - Total(data, Len(data)) >= HeadLen
Fits(data) == PageSize - Total(data, Len(data)) >= DirEnd(Len(data))

Rebuild(i, v, pointer) ==
  LET data == Repacked(i, v)
  IN /\ Kind(slots[i]) \in {"row", "ptr"}
     /\ Fits(data)
     /\ slots' = [j \in DOMAIN slots |->
                    [off |-> Packed(data)[j],
                     deleted |-> IF j = i THEN FALSE ELSE slots[j].deleted,
                     overflow |-> IF j = i THEN pointer ELSE slots[j].overflow]]
     /\ bytes' = Rebuilt(data)
     /\ free' = FreeAfter(data)

\* updateInternal, for a row or a pointer of this page: the row is rewritten here, or a
\* pointer to another page replaces it when it does not fit.
UpdateInPlace(i, v) == Rebuild(i, v, FALSE)
UpdateOverflow(i, v) == ~ Fits(Repacked(i, v)) /\ Rebuild(i, Pointer, TRUE)

\* deleteAt, for a row or a pointer of this page, or for a payload that goes with its pointer.
Delete(i) ==
  /\ ~ Dead(slots[i])
  /\ slots' = [slots EXCEPT ![i].deleted = TRUE, ![i].overflow = TRUE]
  /\ UNCHANGED <<bytes, free>>

Init == /\ bytes = [k \in 0..(PageSize - 1) |-> Blank]
        /\ slots = <<>>
        /\ free = PageSize - HeadLen

Next == \/ \E v \in Data : Insert(v) \/ AddPayload(v)
        \/ \E i \in DOMAIN slots :
             \/ \E v \in Data : UpdateInPlace(i, v) \/ UpdateOverflow(i, v)
             \/ Delete(i)

Spec == Init /\ [][Next]_vars

-----------------------------------------------------------------------------
(* What must hold *)

TypeOK == /\ bytes \in [0..(PageSize - 1) -> Cells]
          /\ slots \in Seq(Slots)
          /\ free \in 0..PageSize

Alive == {i \in DOMAIN slots : ~ Dead(slots[i])}

\* Live rows keep clear of the slot directory, which grows towards them, and of each other.
RowsApart ==
  /\ \A i \in Alive : slots[i].off >= DirEnd(Len(slots))
  /\ \A i, j \in Alive : i # j => Extent(slots, i) \cap Extent(slots, j) = {}

\* Freeing the long values of a row never reads bytes of another row: with its own way to
\* find the end of a row, freeRowLongValues finds the row or nothing at all.
FreeSeesNoOther == \A i \in Alive : SeenByFree(i) \in {RowBytes(i), <<>>}

\* A page of numbered rows with their own data: whatever is inserted, rewritten, moved or
\* deleted around a row, it reads back byte for byte, and the header's free space is exact.
Page == INSTANCE SlottedPage
          WITH Room <- PageSize - HeadLen,
               rows <- [i \in DOMAIN slots |->
                          [kind |-> Kind(slots[i]),
                           data |-> IF slots[i].off = 0 THEN <<>> ELSE RowBytes(i)]],
               left <- free
RowsReadBack == Page!Spec
=============================================================================
