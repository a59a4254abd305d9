--------------------------- MODULE DataPageProofs ---------------------------
(***************************************************************************)
(* What holds of DataPage for every value of its constants: rows keep      *)
(* clear of each other, and the page is a list of numbered rows, as        *)
(* SlottedPage has it.                                                     *)
(***************************************************************************)
EXTENDS DataPage, FiniteSetTheorems, WellFoundedInduction, TLAPS

Add(e, m, x) == m + x
INSTANCE Folding WITH Op <- Add

-----------------------------------------------------------------------------
(* The inductive invariant *)

\* The lowest byte a row was written to, as writeRowToPage looks for it.
Lowest(ss) == Least(Offsets(ss) \ {0}, PageSize)

\* Offsets descend with the slot numbers; only dead slots, which a repacking has emptied,
\* have none.  FreeSeesNoOther, for one, rests on the order.
Descending(ss) == \A i, j \in DOMAIN ss :
                    i < j /\ ss[i].off # 0 /\ ss[j].off # 0 => ss[j].off < ss[i].off
Placed(ss) == \A i \in DOMAIN ss : /\ ~ Dead(ss[i]) => ss[i].off # 0
                                   /\ ss[i].off < PageSize

\* The free-space field is the gap between the slot directory and the lowest row.
PInv == /\ slots \in Seq(Slots)
        /\ bytes \in [0..(PageSize - 1) -> Cells]
        /\ Descending(slots) /\ Placed(slots)
        /\ DirEnd(Len(slots)) <= Lowest(slots)
        /\ free = Lowest(slots) - DirEnd(Len(slots))

-----------------------------------------------------------------------------
(* The least of a set of offsets *)

LEMMA LeastFacts ==
  ASSUME NEW S, S \subseteq Nat, NEW e \in Nat
  PROVE  /\ Least(S, e) \in S \cup {e}
         /\ \A x \in S \cup {e} : Least(S, e) <= x
         /\ Least(S, e) \in Nat
<1>1. \E n \in S \cup {e} : \A m \in S \cup {e} : n <= m
  BY LeastOfSet
<1>2. QED
  BY <1>1 DEF Least, Min

LEMMA LeastIs ==
  ASSUME NEW S, S \subseteq Nat, NEW e \in Nat, NEW m \in S \cup {e}, \A x \in S \cup {e} : m <= x
  PROVE  Least(S, e) = m
<1>1. Least(S, e) <= m /\ m <= Least(S, e) /\ Least(S, e) \in Nat /\ m \in Nat
  BY LeastFacts
<1>2. QED
  BY <1>1

-----------------------------------------------------------------------------
(* The bytes of the rows of a page *)

Contents == Seq(Seq(Cells))

LEMMA TotalSum ==
  ASSUME NEW data \in Contents, NEW j \in 0..Len(data)
  PROVE  /\ Total(data, j) = SumOf([k \in 1..j |-> Len(data[k])], 1..j)
         /\ IsFiniteSet(1..j)
         /\ \A k \in 1..j : data[k] \in Seq(Cells) /\ Len(data[k]) \in Nat
<1> DEFINE f == [k \in 1..j |-> Len(data[k])]
<1>1. MapThenSumSet(LAMBDA k : Len(data[k]), 1..j) = MapThenSumSet(LAMBDA k : f[k], 1..j)
  BY DEF MapThenSumSet, MapThenFoldSet
<1>2. \A k \in 1..j : data[k] \in Seq(Cells) /\ Len(data[k]) \in Nat
  BY DEF Contents
<1>3. Len(data) \in Nat
  BY DEF Contents
<1>4. IsFiniteSet(1..j)
  BY <1>3, FS_Interval
<1>5. QED
  BY <1>1, <1>2, <1>4 DEF Total, SumOf

LEMMA TotalInt ==
  ASSUME NEW data \in Contents, NEW j \in 0..Len(data)
  PROVE  Total(data, j) \in Int
<1> DEFINE f == [k \in 1..j |-> Len(data[k])]
<1>1. Total(data, j) = SumOf(f, 1..j) /\ IsFiniteSet(1..j) /\ \A k \in 1..j : f[k] \in Int
  BY TotalSum
<1> HIDE DEF f
<1>2. QED
  BY <1>1, SumInt

LEMMA TotalZero == ASSUME NEW data \in Contents PROVE Total(data, 0) = 0
<1>1. 0 \in 0..Len(data) /\ 1..0 = {}
  BY DEF Contents
<1>2. QED
  BY <1>1, TotalSum, SumEmpty

LEMMA TotalStep ==
  ASSUME NEW data \in Contents, NEW j \in 1..Len(data)
  PROVE  /\ Total(data, j) = Total(data, j - 1) + Len(data[j])
         /\ Total(data, j - 1) \in Int /\ Len(data[j]) \in Nat
<1> DEFINE f == [k \in 1..j |-> Len(data[k])]
           g == [k \in 1..(j - 1) |-> Len(data[k])]
           S == 1..(j - 1)
<1>1. /\ j \in 0..Len(data) /\ j - 1 \in 0..Len(data) /\ 1..j = S \cup {j} /\ j \notin S
      /\ Len(data) \in Nat
  BY DEF Contents
<1>2. Total(data, j) = SumOf(f, 1..j) /\ \A k \in 1..j : f[k] \in Int
  BY <1>1, TotalSum
<1>3. Total(data, j - 1) = SumOf(g, S) /\ IsFiniteSet(S)
  BY <1>1, TotalSum
<1>4. \A k \in S : f[k] = g[k]
  BY <1>1
<1>5. f[j] = Len(data[j]) /\ Len(data[j]) \in Nat
  BY <1>1, TotalSum
<1> HIDE DEF f, g, S
<1>6. SumOf(f, S \cup {j}) = f[j] + SumOf(f, S)
  BY <1>1, <1>2, <1>3, SumMore
<1>7. SumOf(f, S) = SumOf(g, S)
  BY <1>3, <1>4, SumSame
<1>8. Total(data, j - 1) \in Int
  BY <1>1, TotalInt
<1>9. Total(data, j) = f[j] + Total(data, j - 1)
  BY <1>1, <1>2, <1>3, <1>6, <1>7
<1>10. Total(data, j) = Total(data, j - 1) + Len(data[j])
  BY <1>5, <1>8, <1>9
<1>11. QED
  BY <1>5, <1>8, <1>10

\* Totals grow with the slots they count.
LEMMA TotalMono ==
  ASSUME NEW data \in Contents
  PROVE  \A i, j \in 0..Len(data) : i <= j => Total(data, i) <= Total(data, j)
<1> DEFINE P == {n \in Nat : \A j \in 0..Len(data) : j = n =>
                               \A i \in 0..j : Total(data, i) <= Total(data, j)}
<1>0. Len(data) \in Nat
  BY DEF Contents
<1>1. 0 \in P
  BY TotalZero
<1>2. ASSUME NEW n \in Nat, n \in P PROVE n + 1 \in P
  <2>1. SUFFICES ASSUME n + 1 \in 0..Len(data), NEW i \in 0..(n + 1)
                 PROVE  Total(data, i) <= Total(data, n + 1)
    OBVIOUS
  <2>2. /\ Total(data, n + 1) = Total(data, (n + 1) - 1) + Len(data[n + 1])
        /\ Total(data, (n + 1) - 1) \in Int /\ Len(data[n + 1]) \in Nat
    BY <2>1, TotalStep
  <2>3. (n + 1) - 1 = n
    OBVIOUS
  <2>4. CASE i = n + 1
    BY <2>2, <2>3, <2>4
  <2>5. CASE i # n + 1
    <3>1. i \in 0..n /\ n \in 0..Len(data) /\ i \in 0..Len(data)
      BY <1>0, <2>1, <2>5
    <3>2. Total(data, i) <= Total(data, n) /\ Total(data, i) \in Int
      BY <1>2, <3>1, TotalInt
    <3>3. QED
      BY <2>2, <2>3, <3>2
  <2>6. QED
    BY <2>4, <2>5
<1> HIDE DEF P
<1>3. Nat \subseteq P
  BY <1>1, <1>2, Inductive
<1>4. QED
  BY <1>0, <1>3 DEF P

LEMMA TotalNat ==
  ASSUME NEW data \in Contents, NEW j \in 0..Len(data)
  PROVE  Total(data, j) \in Nat
<1>1. 0 \in 0..Len(data) /\ 0 <= j
  BY DEF Contents
<1>2. QED
  BY <1>1, TotalZero, TotalMono, TotalInt

\* Below slot j there is nothing, or a last row, at which the total is reached.
LEMMA LastRow ==
  ASSUME NEW data \in Contents
  PROVE  \A j \in 0..Len(data) :
           \/ Total(data, j) = 0 /\ \A k \in 1..j : data[k] = <<>>
           \/ \E k \in 1..j : data[k] # <<>> /\ Total(data, k) = Total(data, j)
<1> DEFINE Last(j) == \/ Total(data, j) = 0 /\ \A k \in 1..j : data[k] = <<>>
                      \/ \E k \in 1..j : data[k] # <<>> /\ Total(data, k) = Total(data, j)
           P == {n \in Nat : n \in 0..Len(data) => Last(n)}
<1>1. 0 \in P
  BY TotalZero
<1>2. ASSUME NEW n \in Nat, n \in P PROVE n + 1 \in P
  <2>1. SUFFICES ASSUME n + 1 \in 0..Len(data) PROVE Last(n + 1)
    OBVIOUS
  <2>2. /\ Total(data, n + 1) = Total(data, (n + 1) - 1) + Len(data[n + 1])
        /\ Total(data, (n + 1) - 1) \in Int /\ Len(data[n + 1]) \in Nat
    BY <2>1, TotalStep
  <2>3. CASE data[n + 1] # <<>>
    <3>1. n + 1 \in 1..(n + 1)
      OBVIOUS
    <3>2. QED
      BY <2>3, <3>1
  <2>4. CASE data[n + 1] = <<>>
    <3>1. Total(data, n + 1) = Total(data, n)
      BY <2>2, <2>4
    <3>2. n \in 0..Len(data)
      BY <2>1 DEF Contents
    <3>3. Last(n)
      BY <1>2, <3>2
    <3>4. CASE Total(data, n) = 0 /\ \A k \in 1..n : data[k] = <<>>
      BY <2>4, <3>1, <3>4
    <3>5. CASE \E k \in 1..n : data[k] # <<>> /\ Total(data, k) = Total(data, n)
      BY <3>1, <3>5
    <3>6. QED
      BY <3>3, <3>4, <3>5
  <2>5. QED
    BY <2>3, <2>4
<1> HIDE DEF P
<1>3. Nat \subseteq P
  BY <1>1, <1>2, Inductive
<1>4. \A j \in 0..Len(data) : j \in Nat
  BY DEF Contents
<1>5. QED
  BY <1>3, <1>4 DEF P

-----------------------------------------------------------------------------
(* Where a repacking puts the rows *)

LEMMA PackedPlaces ==
  ASSUME NEW data \in Contents, Total(data, Len(data)) < PageSize
  PROVE  /\ \A j \in DOMAIN data : data[j] = <<>> => Packed(data)[j] = 0
         /\ \A j \in DOMAIN data : data[j] # <<>> =>
              /\ Packed(data)[j] = PageSize - Total(data, j)
              /\ Packed(data)[j] \in Nat \ {0} /\ Packed(data)[j] < PageSize
              /\ Packed(data)[j] + Len(data[j]) = PageSize - Total(data, j - 1)
              /\ Len(data[j]) \in Nat \ {0}
              /\ PageSize - Total(data, Len(data)) <= Packed(data)[j]
              /\ Packed(data)[j] + Len(data[j]) <= PageSize
         /\ \A i, j \in DOMAIN data : i < j /\ data[i] # <<>> /\ data[j] # <<>> =>
              Packed(data)[j] + Len(data[j]) <= Packed(data)[i]
<1>1. /\ DOMAIN data = 1..Len(data) /\ Len(data) \in Nat
      /\ \A j \in DOMAIN data : data[j] \in Seq(Cells)
  BY DEF Contents
<1>2. \A j \in DOMAIN data : Packed(data)[j] = IF data[j] = <<>> THEN 0 ELSE PageSize - Total(data, j)
  BY DEF Packed
<1>3. ASSUME NEW j \in DOMAIN data, data[j] # <<>>
      PROVE  /\ Packed(data)[j] = PageSize - Total(data, j)
             /\ Packed(data)[j] \in Nat \ {0} /\ Packed(data)[j] < PageSize
             /\ Packed(data)[j] + Len(data[j]) = PageSize - Total(data, j - 1)
             /\ Len(data[j]) \in Nat \ {0}
             /\ PageSize - Total(data, Len(data)) <= Packed(data)[j]
             /\ Packed(data)[j] + Len(data[j]) <= PageSize
  <2>1. Packed(data)[j] = PageSize - Total(data, j)
    BY <1>2, <1>3
  <2>2. j \in 1..Len(data) /\ j \in 0..Len(data) /\ j - 1 \in 0..Len(data)
        /\ Len(data) \in 0..Len(data) /\ j <= Len(data)
    BY <1>1
  <2>3. Len(data[j]) \in Nat \ {0}
    BY <1>1, <1>3
  <2>4. Total(data, j) = Total(data, j - 1) + Len(data[j])
    BY <2>2, TotalStep
  <2>5. /\ Total(data, j) \in Nat /\ Total(data, j - 1) \in Nat /\ Total(data, Len(data)) \in Nat
        /\ Total(data, j) <= Total(data, Len(data))
    BY <2>2, TotalNat, TotalMono
  <2>6. QED
    BY <2>1, <2>3, <2>4, <2>5, LayoutAssumption
<1>4. ASSUME NEW i \in DOMAIN data, NEW j \in DOMAIN data, i < j, data[i] # <<>>, data[j] # <<>>
      PROVE  Packed(data)[j] + Len(data[j]) <= Packed(data)[i]
  <2>1. i \in 0..Len(data) /\ j - 1 \in 0..Len(data) /\ i <= j - 1
    BY <1>1, <1>4
  <2>2. Total(data, i) <= Total(data, j - 1) /\ Total(data, i) \in Nat /\ Total(data, j - 1) \in Nat
    BY <2>1, TotalMono, TotalNat
  <2>3. Packed(data)[i] = PageSize - Total(data, i)
    BY <1>3, <1>4
  <2>4. Packed(data)[j] + Len(data[j]) = PageSize - Total(data, j - 1)
    BY <1>3, <1>4
  <2>5. QED
    BY <2>2, <2>3, <2>4, LayoutAssumption
<1>5. QED
  BY <1>2, <1>3, <1>4

\* The lowest of the rows of the first m slots.
LEMMA PackedLowest ==
  ASSUME NEW data \in Contents, Total(data, Len(data)) < PageSize, NEW m \in 0..Len(data)
  PROVE  Least({Packed(data)[k] : k \in {l \in 1..m : data[l] # <<>>}}, PageSize)
           = PageSize - Total(data, m)
<1> DEFINE K == {l \in 1..m : data[l] # <<>>}
           S == {Packed(data)[k] : k \in K}
           x == PageSize - Total(data, m)
<1>1. /\ Len(data) \in Nat /\ m \in Nat /\ DOMAIN data = 1..Len(data)
      /\ \A k \in K : k \in DOMAIN data /\ k \in 0..Len(data) /\ k <= m /\ data[k] # <<>>
  BY DEF Contents
<1>2. \A k \in K : Packed(data)[k] = PageSize - Total(data, k) /\ Packed(data)[k] \in Nat
  BY <1>1, PackedPlaces
<1>3. \A k \in K : Total(data, k) <= Total(data, m) /\ Total(data, k) \in Nat
  BY <1>1, TotalMono, TotalNat
<1>4. Total(data, m) \in Nat /\ PageSize \in Nat
  BY TotalNat, LayoutAssumption
<1>5. \A k \in K : x <= Packed(data)[k]
  BY <1>2, <1>3, <1>4
<1>6. x \in S \cup {PageSize}
  <2>1. CASE Total(data, m) = 0
    BY <1>4, <2>1
  <2>2. CASE \E k \in 1..m : data[k] # <<>> /\ Total(data, k) = Total(data, m)
    BY <1>2, <2>2
  <2>3. QED
    BY <2>1, <2>2, LastRow
<1>7. S \subseteq Nat
  BY <1>2
<1>8. \A y \in S \cup {PageSize} : x <= y
  BY <1>4, <1>5
<1> HIDE DEF S, x
<1>9. Least(S, PageSize) = x
  BY <1>4, <1>6, <1>7, <1>8, LeastIs
<1>10. QED
  BY <1>9 DEF S, x

-----------------------------------------------------------------------------
(* Where rows end *)

LEMMA OffsetFacts ==
  ASSUME NEW ss \in Seq(Slots)
  PROVE  /\ DOMAIN ss = 1..Len(ss) /\ Len(ss) \in Nat
         /\ Offsets(ss) \subseteq Nat
         /\ \A i \in DOMAIN ss : /\ ss[i] \in Slots /\ ss[i].off \in Offsets(ss)
                                 /\ ss[i].off \in Nat /\ ss[i].off <= PageSize
<1>1. \A i \in DOMAIN ss : ss[i] \in Slots
  OBVIOUS
<1>2. \A i \in DOMAIN ss : ss[i].off \in Nat /\ ss[i].off <= PageSize
  BY <1>1, LayoutAssumption DEF Slots
<1>3. QED
  BY <1>1, <1>2 DEF Offsets

LEMMA LowestFacts ==
  ASSUME NEW ss \in Seq(Slots)
  PROVE  /\ Lowest(ss) \in Nat /\ Lowest(ss) <= PageSize
         /\ \A i \in DOMAIN ss : ss[i].off # 0 => Lowest(ss) <= ss[i].off
<1>1. Offsets(ss) \ {0} \subseteq Nat /\ PageSize \in Nat
  BY OffsetFacts, LayoutAssumption
<1>2. QED
  BY <1>1, LeastFacts, OffsetFacts DEF Lowest

LEMMA EndFacts ==
  ASSUME NEW ss \in Seq(Slots), Placed(ss), NEW i \in DOMAIN ss
  PROVE  LET end == FindRowEnd(ss, ss[i].off)
         IN /\ end \in Nat /\ ss[i].off < end /\ end <= PageSize
            /\ \A j \in DOMAIN ss : ss[j].off > ss[i].off => end <= ss[j].off
<1> DEFINE S == {o \in Offsets(ss) : o > ss[i].off}
<1>1. S \subseteq Nat /\ PageSize \in Nat
  BY OffsetFacts, LayoutAssumption
<1>2. \A x \in S \cup {PageSize} : ss[i].off < x
  BY OffsetFacts DEF Placed
<1>3. \A j \in DOMAIN ss : ss[j].off > ss[i].off => ss[j].off \in S
  BY OffsetFacts
<1> HIDE DEF S
<1>4. /\ Least(S, PageSize) \in S \cup {PageSize} /\ Least(S, PageSize) \in Nat
      /\ \A x \in S \cup {PageSize} : Least(S, PageSize) <= x
  BY <1>1, LeastFacts
<1>5. FindRowEnd(ss, ss[i].off) = Least(S, PageSize)
  BY DEF FindRowEnd, S
<1>6. QED
  BY <1>2, <1>3, <1>4, <1>5

\* The data of a slot in the page b with the directory ss.
DataAt(b, ss, i) == [j \in 1..(FindRowEnd(ss, ss[i].off) - ss[i].off) |-> b[ss[i].off + j - 1]]

LEMMA DataSeq ==
  ASSUME NEW ss \in Seq(Slots), Placed(ss), NEW i \in DOMAIN ss,
         NEW b \in [0..(PageSize - 1) -> Cells]
  PROVE  DataAt(b, ss, i) \in Seq(Cells) /\ DataAt(b, ss, i) # <<>>
<1> DEFINE end == FindRowEnd(ss, ss[i].off)
<1>1. end \in Nat /\ ss[i].off \in Nat /\ ss[i].off < end /\ end <= PageSize
  BY EndFacts, OffsetFacts
<1> HIDE DEF end
<1>2. end - ss[i].off \in Nat \ {0}
  BY <1>1
<1>3. \A j \in 1..(end - ss[i].off) : b[ss[i].off + j - 1] \in Cells
  <2>1. \A j \in 1..(end - ss[i].off) : ss[i].off + j - 1 \in 0..(PageSize - 1)
    BY <1>1, LayoutAssumption
  <2>2. QED
    BY <2>1
<1>4. DataAt(b, ss, i) = [j \in 1..(end - ss[i].off) |-> b[ss[i].off + j - 1]]
  BY DEF DataAt, end
<1>5. QED
  BY <1>2, <1>3, <1>4

LEMMA ContentFacts ==
  ASSUME NEW v \in Data \cup {Pointer}
  PROVE  /\ Bytes(v) \in Seq(Cells) /\ Bytes(v) # <<>>
         /\ Len(Bytes(v)) \in Nat \ {0} /\ DOMAIN Bytes(v) = 1..Len(Bytes(v))
<1> DEFINE n == IF v = Pointer THEN PtrLen ELSE DataLen[v]
<1>1. n \in Nat \ {0}
  BY LayoutAssumption DEF PtrLen
<1>2. Bytes(v) = [j \in 1..n |-> <<v, j>>]
  BY DEF Bytes
<1> HIDE DEF n
<1>3. DOMAIN Bytes(v) = 1..n
  BY <1>2
<1>4. \A j \in 1..n : Bytes(v)[j] \in Cells
  <2> DEFINE B(u) == {Bytes(u)[j] : j \in DOMAIN Bytes(u)}
  <2>1. Cells = (UNION {B(u) : u \in Data \cup {Pointer}}) \cup {Blank}
    BY DEF Cells
  <2>2. \A j \in 1..n : Bytes(v)[j] \in B(v)
    BY <1>3
  <2> HIDE DEF B
  <2>3. B(v) \subseteq Cells
    BY <2>1
  <2>4. QED
    BY <2>2, <2>3
<1>5. Bytes(v) \in Seq(Cells) /\ Len(Bytes(v)) = n
  BY <1>1, <1>2, <1>4
<1>6. QED
  BY <1>1, <1>3, <1>5

-----------------------------------------------------------------------------
(* A row is appended *)

\* A slot below all others: they end where they did.
LEMMA AppendEnds ==
  ASSUME NEW ss \in Seq(Slots), Placed(ss), NEW s \in Slots, s.off # 0, s.off < Lowest(ss)
  PROVE  LET tt == Append(ss, s)
         IN /\ \A i \in DOMAIN ss : ss[i].off # 0 => FindRowEnd(tt, ss[i].off) = FindRowEnd(ss, ss[i].off)
            /\ FindRowEnd(tt, s.off) = Lowest(ss)
            /\ Lowest(tt) = s.off
<1> DEFINE tt == Append(ss, s)
<1>1. /\ tt \in Seq(Slots) /\ DOMAIN tt = DOMAIN ss \cup {Len(ss) + 1}
      /\ tt[Len(ss) + 1] = s /\ \A i \in DOMAIN ss : tt[i] = ss[i]
  OBVIOUS
<1> HIDE DEF tt
<1>2. Offsets(tt) = Offsets(ss) \cup {s.off}
  BY <1>1 DEF Offsets
<1>3. s.off \in Nat /\ s.off <= PageSize /\ Lowest(ss) \in Nat
  <2>1. s.off \in 0..PageSize
    BY DEF Slots
  <2>2. Lowest(ss) \in Nat
    BY LowestFacts
  <2>3. QED
    BY <2>1, <2>2, LayoutAssumption
<1>4. \A o \in Offsets(ss) : o # 0 => Lowest(ss) <= o /\ o \in Nat
  BY LowestFacts, OffsetFacts DEF Offsets
<1>5. ASSUME NEW i \in DOMAIN ss, ss[i].off # 0
      PROVE  FindRowEnd(tt, ss[i].off) = FindRowEnd(ss, ss[i].off)
  <2>1. ~ (s.off > ss[i].off)
    BY <1>3, <1>5, LowestFacts, OffsetFacts
  <2>2. {o \in Offsets(tt) : o > ss[i].off} = {o \in Offsets(ss) : o > ss[i].off}
    BY <1>2, <2>1
  <2>3. QED
    BY <2>2 DEF FindRowEnd
<1>6. FindRowEnd(tt, s.off) = Lowest(ss)
  <2>1. {o \in Offsets(tt) : o > s.off} = Offsets(ss) \ {0}
    BY <1>2, <1>3, <1>4
  <2>2. QED
    BY <2>1 DEF FindRowEnd, Lowest
<1>7. Lowest(tt) = s.off
  <2> DEFINE S == Offsets(tt) \ {0}
  <2>1. S \subseteq Nat /\ PageSize \in Nat /\ s.off \in S
    BY <1>1, <1>2, OffsetFacts, LayoutAssumption
  <2>2. \A x \in S \cup {PageSize} : s.off <= x
    BY <1>2, <1>3, <1>4
  <2> HIDE DEF S
  <2>3. Least(S, PageSize) = s.off
    BY <2>1, <2>2, LeastIs
  <2>4. QED
    BY <2>3 DEF Lowest, S
<1>8. QED
  BY <1>5, <1>6, <1>7 DEF tt

LEMMA PutFacts ==
  ASSUME NEW b \in [0..(PageSize - 1) -> Cells], NEW v \in Data, NEW off \in Nat
  PROVE  LET c == Put(b, off, v)
         IN /\ c \in [0..(PageSize - 1) -> Cells]
            /\ \A k \in 0..(PageSize - 1) : k \notin off..(off + Len(Bytes(v)) - 1) => c[k] = b[k]
            /\ off + Len(Bytes(v)) <= PageSize =>
                 \A j \in 1..Len(Bytes(v)) : c[off + j - 1] = Bytes(v)[j]
<1> DEFINE n == Len(Bytes(v))
           c == Put(b, off, v)
<1>1. n \in Nat \ {0} /\ DOMAIN Bytes(v) = 1..n /\ \A j \in 1..n : Bytes(v)[j] \in Cells
  BY ContentFacts
<1> HIDE DEF n
<1>2. c = [k \in 0..(PageSize - 1) |-> IF k \in off..(off + n - 1) THEN Bytes(v)[k - off + 1] ELSE b[k]]
  BY DEF Put, n
<1> HIDE DEF c
<1>3. \A k \in off..(off + n - 1) : k - off + 1 \in 1..n
  BY <1>1
<1>4. c \in [0..(PageSize - 1) -> Cells]
  BY <1>1, <1>2, <1>3
<1>5. ASSUME off + n <= PageSize, NEW j \in 1..n PROVE c[off + j - 1] = Bytes(v)[j]
  <2>1. off + j - 1 \in 0..(PageSize - 1) /\ off + j - 1 \in off..(off + n - 1)
        /\ (off + j - 1) - off + 1 = j
    BY <1>1, <1>5, LayoutAssumption
  <2>2. QED
    BY <1>2, <2>1
<1>6. QED
  BY <1>2, <1>4, <1>5 DEF n, c

\* What writeRowToPage does: one slot more, and the data of the others where they were.
LEMMA WriteEffect ==
  ASSUME PInv, NEW v \in Data, NEW flag \in BOOLEAN, WriteRow(v, flag)
  PROVE  /\ PInv'
         /\ Len(slots') = Len(slots) + 1 /\ \A i \in DOMAIN slots : slots'[i] = slots[i]
         /\ \A i \in DOMAIN slots : slots[i].off # 0 => DataAt(bytes', slots', i) = DataAt(bytes, slots, i)
         /\ LET n == Len(slots) + 1
            IN /\ slots'[n].deleted = flag /\ ~ slots'[n].overflow /\ slots'[n].off # 0
               /\ DataAt(bytes', slots', n) = Bytes(v)
               /\ free' + Len(Bytes(v)) + SlotLen = free
<1> DEFINE low == Lowest(slots)
           len == Len(Bytes(v))
           off == low - len
           s == [off |-> off, deleted |-> flag, overflow |-> FALSE]
           n == Len(slots) + 1
<1>1. /\ slots \in Seq(Slots) /\ bytes \in [0..(PageSize - 1) -> Cells]
      /\ Descending(slots) /\ Placed(slots) /\ free = low - DirEnd(Len(slots))
  BY DEF PInv
<1>2. /\ off >= DirEnd(Len(slots)) + SlotLen
      /\ bytes' = Put(bytes, off, v) /\ slots' = Append(slots, s)
      /\ free' = off - (DirEnd(Len(slots)) + SlotLen)
  BY DEF WriteRow, WriteOffset, Lowest
<1>3. /\ low \in Nat /\ low <= PageSize /\ len \in Nat \ {0} /\ Len(slots) \in Nat
      /\ HeadLen \in Nat \ {0} /\ PageSize \in Nat
  BY <1>1, LowestFacts, ContentFacts, LayoutAssumption
<1>4. /\ off \in Nat \ {0} /\ off + len = low /\ off < low /\ off < PageSize
      /\ DirEnd(Len(slots) + 1) = DirEnd(Len(slots)) + SlotLen
      /\ DirEnd(Len(slots)) \in Nat
  <2> HIDE DEF low, len
  <2>1. QED
    BY <1>2, <1>3 DEF DirEnd, SlotLen
<1> HIDE DEF low, len, off
<1>5. s \in Slots /\ s.off = off /\ s.deleted = flag /\ ~ s.overflow
  BY <1>3, <1>4 DEF Slots
<1> HIDE DEF s
<1>6. /\ slots' \in Seq(Slots) /\ DOMAIN slots' = DOMAIN slots \cup {n} /\ Len(slots') = n
      /\ slots'[n] = s /\ \A i \in DOMAIN slots : slots'[i] = slots[i] /\ i < n
  BY <1>1, <1>2, <1>5
<1>7. /\ \A i \in DOMAIN slots : slots[i].off # 0 =>
           FindRowEnd(slots', slots[i].off) = FindRowEnd(slots, slots[i].off)
      /\ FindRowEnd(slots', off) = low /\ Lowest(slots') = off
  BY <1>1, <1>2, <1>4, <1>5, AppendEnds DEF low
<1>8. /\ bytes' \in [0..(PageSize - 1) -> Cells]
      /\ \A k \in 0..(PageSize - 1) : k \notin off..(off + len - 1) => bytes'[k] = bytes[k]
      /\ \A j \in 1..len : bytes'[off + j - 1] = Bytes(v)[j]
  <2>1. off \in Nat /\ off + Len(Bytes(v)) <= PageSize
    BY <1>3, <1>4 DEF len
  <2> DEFINE c == Put(bytes, off, v)
  <2>2. /\ c \in [0..(PageSize - 1) -> Cells]
        /\ \A k \in 0..(PageSize - 1) : k \notin off..(off + Len(Bytes(v)) - 1) => c[k] = bytes[k]
        /\ \A j \in 1..Len(Bytes(v)) : c[off + j - 1] = Bytes(v)[j]
    BY <1>1, <2>1, PutFacts
  <2> HIDE DEF c
  <2>3. bytes' = c
    BY <1>2 DEF c
  <2>4. QED
    BY <2>2, <2>3 DEF len
<1>9. PInv'
  <2>1. Descending(slots')
    <3>1. \A i \in DOMAIN slots : slots[i].off # 0 => off < slots[i].off
      BY <1>1, <1>4, LowestFacts, OffsetFacts DEF low
    <3>2. QED
      BY <1>1, <1>5, <1>6, <3>1 DEF Descending
  <2>2. Placed(slots')
    BY <1>1, <1>4, <1>5, <1>6 DEF Placed
  <2>3. DirEnd(Len(slots')) <= Lowest(slots') /\ free' = Lowest(slots') - DirEnd(Len(slots'))
    BY <1>2, <1>4, <1>6, <1>7
  <2>4. QED
    BY <1>6, <1>8, <2>1, <2>2, <2>3 DEF PInv
<1>10. ASSUME NEW i \in DOMAIN slots, slots[i].off # 0
       PROVE  DataAt(bytes', slots', i) = DataAt(bytes, slots, i)
  <2> DEFINE o == slots[i].off
             e == FindRowEnd(slots, o)
  <2>1. /\ o \in Nat /\ low <= o /\ e \in Nat /\ e <= PageSize
    BY <1>1, <1>10, EndFacts, LowestFacts, OffsetFacts DEF low
  <2>2. slots'[i].off = o /\ FindRowEnd(slots', o) = e
    BY <1>6, <1>7, <1>10
  <2> HIDE DEF o, e
  <2>3. \A j \in 1..(e - o) : bytes'[o + j - 1] = bytes[o + j - 1]
    <3>1. ASSUME NEW j \in 1..(e - o)
          PROVE  o + j - 1 \in 0..(PageSize - 1) /\ o + j - 1 \notin off..(off + len - 1)
      BY <1>3, <1>4, <2>1
    <3>2. QED
      BY <1>8, <3>1
  <2>4. DataAt(bytes', slots', i) = [j \in 1..(e - o) |-> bytes'[o + j - 1]]
    BY <2>2 DEF DataAt
  <2>5. DataAt(bytes, slots, i) = [j \in 1..(e - o) |-> bytes[o + j - 1]]
    BY DEF DataAt, e, o
  <2>6. QED
    BY <2>3, <2>4, <2>5
<1>11. DataAt(bytes', slots', n) = Bytes(v)
  <2>1. slots'[n].off = off
    BY <1>5, <1>6
  <2>2. low - off = len
    BY <1>3, <1>4
  <2>3. DataAt(bytes', slots', n) = [j \in 1..len |-> bytes'[off + j - 1]]
    BY <1>7, <2>1, <2>2 DEF DataAt
  <2>4. DOMAIN Bytes(v) = 1..len /\ Bytes(v) \in Seq(Cells)
    BY ContentFacts DEF len
  <2>5. Bytes(v) = [j \in 1..len |-> Bytes(v)[j]]
    BY <2>4
  <2>6. QED
    BY <1>8, <2>3, <2>5
<1>12. free' + len + SlotLen = free
  <2> DEFINE d == DirEnd(Len(slots))
  <2>1. free = low - d /\ free' = off - (d + SlotLen) /\ d \in Nat
    BY <1>1, <1>2, <1>4
  <2> HIDE DEF d
  <2>2. QED
    BY <1>3, <1>4, <2>1 DEF SlotLen
<1>13. QED
  BY <1>4, <1>5, <1>6, <1>9, <1>10, <1>11, <1>12 DEF len

-----------------------------------------------------------------------------
(* The page is repacked *)

\* Rows end where the nearest row before them that has any data begins.
LEMMA PackedEnds ==
  ASSUME NEW data \in Contents, Total(data, Len(data)) < PageSize,
         NEW ss, DOMAIN ss = DOMAIN data, \A j \in DOMAIN ss : ss[j].off = Packed(data)[j]
  PROVE  /\ \A j \in DOMAIN data : data[j] # <<>> =>
              FindRowEnd(ss, Packed(data)[j]) = Packed(data)[j] + Len(data[j])
         /\ Lowest(ss) = PageSize - Total(data, Len(data))
<1> DEFINE K(m) == {l \in 1..m : data[l] # <<>>}
<1>1. DOMAIN data = 1..Len(data) /\ Len(data) \in Nat
  BY DEF Contents
<1>2. \A k \in DOMAIN data : data[k] = <<>> => Packed(data)[k] = 0
  BY PackedPlaces
<1>3. \A k \in DOMAIN data : data[k] # <<>> =>
        Packed(data)[k] \in Nat \ {0} /\ Len(data[k]) \in Nat \ {0}
  BY PackedPlaces
<1>4. Offsets(ss) = {Packed(data)[k] : k \in DOMAIN data}
  BY DEF Offsets
<1>5. ASSUME NEW j \in DOMAIN data, data[j] # <<>>
      PROVE  FindRowEnd(ss, Packed(data)[j]) = Packed(data)[j] + Len(data[j])
  <2> DEFINE o == Packed(data)[j]
  <2>1. \A k \in K(j - 1) : k \in DOMAIN data /\ Packed(data)[k] > o
    <3>1. ASSUME NEW k \in K(j - 1) PROVE k \in DOMAIN data /\ Packed(data)[k] > o
      <4>1. k \in DOMAIN data /\ k < j /\ data[k] # <<>>
        BY <1>1
      <4>2. o + Len(data[j]) <= Packed(data)[k] /\ Packed(data)[k] \in Nat
        BY <1>3, <1>5, <4>1, PackedPlaces
      <4>3. o \in Nat /\ Len(data[j]) \in Nat \ {0}
        BY <1>3, <1>5
      <4> HIDE DEF o
      <4>4. QED
        BY <4>1, <4>2, <4>3
    <3>2. QED
      BY <3>1
  <2>2. \A k \in DOMAIN data : Packed(data)[k] > o => k \in K(j - 1)
    <3>1. ASSUME NEW k \in DOMAIN data, Packed(data)[k] > o PROVE k \in K(j - 1)
      <4>1. o \in Nat
        BY <1>3, <1>5
      <4>2. data[k] # <<>>
        <5> HIDE DEF o
        <5>1. QED
          BY <1>2, <3>1, <4>1
      <4>3. Packed(data)[k] \in Nat /\ Len(data[k]) \in Nat \ {0}
        BY <1>3, <4>2
      <4>4. ~ (j < k)
        <5>1. j < k => Packed(data)[k] + Len(data[k]) <= o
          BY <1>5, <4>2, PackedPlaces
        <5> HIDE DEF o
        <5>2. QED
          BY <3>1, <4>1, <4>3, <5>1
      <4>5. j # k
        <5>1. ~ (o > o)
          <6> HIDE DEF o
          <6>1. QED
            BY <4>1
        <5>2. QED
          BY <3>1, <5>1
      <4>6. QED
        BY <1>1, <4>2, <4>4, <4>5
    <3>2. QED
      BY <3>1
  <2>3. {x \in Offsets(ss) : x > o} = {Packed(data)[k] : k \in K(j - 1)}
    <3> HIDE DEF K, o
    <3>1. QED
      BY <1>4, <2>1, <2>2
  <2>4. Least({Packed(data)[k] : k \in K(j - 1)}, PageSize) = PageSize - Total(data, j - 1)
    <3>1. j - 1 \in 0..Len(data)
      BY <1>1
    <3>2. QED
      BY <3>1, PackedLowest
  <2>5. o + Len(data[j]) = PageSize - Total(data, j - 1)
    BY <1>5, PackedPlaces
  <2>6. QED
    BY <2>3, <2>4, <2>5 DEF FindRowEnd
<1>6. Lowest(ss) = PageSize - Total(data, Len(data))
  <2>1. \A k \in DOMAIN data : Packed(data)[k] # 0 <=> k \in K(Len(data))
    BY <1>1, <1>2, <1>3
  <2>2. Offsets(ss) \ {0} = {Packed(data)[k] : k \in K(Len(data))}
    <3>1. K(Len(data)) \subseteq DOMAIN data
      BY <1>1
    <3> HIDE DEF K
    <3>2. QED
      BY <1>4, <2>1, <3>1
  <2>3. Len(data) \in 0..Len(data)
    BY <1>1
  <2>4. Least({Packed(data)[k] : k \in K(Len(data))}, PageSize) = PageSize - Total(data, Len(data))
    BY <2>3, PackedLowest
  <2>5. QED
    BY <2>2, <2>4 DEF Lowest
<1>7. QED
  BY <1>5, <1>6

\* The rows are copied to their new places, and no row is copied over another.
LEMMA RebuiltFacts ==
  ASSUME NEW data \in Contents, Total(data, Len(data)) < PageSize,
         bytes \in [0..(PageSize - 1) -> Cells]
  PROVE  /\ Rebuilt(data) \in [0..(PageSize - 1) -> Cells]
         /\ \A j \in DOMAIN data : \A m \in 1..Len(data[j]) :
              Rebuilt(data)[Packed(data)[j] + m - 1] = data[j][m]
<1> DEFINE off == Packed(data)
           At(k) == {j \in DOMAIN data : k \in off[j]..(off[j] + Len(data[j]) - 1)}
           Cell(k) == IF At(k) = {} THEN Blank
                      ELSE LET j == Min(At(k)) IN data[j][k - off[j] + 1]
<1>1. Rebuilt(data) = [k \in 0..(PageSize - 1) |-> Cell(k)]
  BY DEF Rebuilt
<1>2. /\ DOMAIN data = 1..Len(data) /\ Len(data) \in Nat
      /\ \A j \in DOMAIN data : /\ data[j] \in Seq(Cells) /\ Len(data[j]) \in Nat
                                /\ DOMAIN data[j] = 1..Len(data[j])
                                /\ data[j] = <<>> => Len(data[j]) = 0
  BY DEF Contents
<1>3. \A j \in DOMAIN data : data[j] # <<>> =>
        off[j] \in Nat /\ off[j] + Len(data[j]) <= PageSize
  BY PackedPlaces
<1>4. \A j \in DOMAIN data : data[j] = <<>> => off[j] = 0
  BY PackedPlaces
<1>5. \A i, j \in DOMAIN data : i < j /\ data[i] # <<>> /\ data[j] # <<>> =>
        off[j] + Len(data[j]) <= off[i]
  BY PackedPlaces
<1> HIDE DEF off
<1>6. ASSUME NEW k \in Int, NEW j \in At(k)
      PROVE  /\ j \in DOMAIN data /\ data[j] # <<>> /\ off[j] \in Nat
             /\ k - off[j] + 1 \in 1..Len(data[j])
  <2>1. j \in DOMAIN data /\ k \in off[j]..(off[j] + Len(data[j]) - 1)
    OBVIOUS
  <2>2. data[j] # <<>>
    BY <1>2, <1>4, <2>1
  <2>3. off[j] \in Nat /\ Len(data[j]) \in Nat
    BY <1>2, <1>3, <2>1, <2>2
  <2>4. QED
    BY <2>1, <2>2, <2>3
<1>7. \A k \in 0..(PageSize - 1) : Cell(k) \in Cells
  <2>1. ASSUME NEW k \in 0..(PageSize - 1), At(k) # {} PROVE Cell(k) \in Cells
    <3>1. At(k) \subseteq Nat
      BY <1>2
    <3>2. Min(At(k)) \in At(k)
      <4> HIDE DEF At
      <4>1. \E n \in At(k) : \A m \in At(k) : n <= m
        BY <2>1, <3>1, LeastOfSet
      <4>2. QED
        BY <4>1 DEF Min
    <3> DEFINE j == Min(At(k))
    <3>3. j \in DOMAIN data /\ k - off[j] + 1 \in 1..Len(data[j])
      <4> HIDE DEF At
      <4>1. k \in Int
        OBVIOUS
      <4>2. QED
        BY <1>6, <3>2, <4>1
    <3> HIDE DEF j
    <3>4. data[j][k - off[j] + 1] \in Cells
      BY <1>2, <3>3
    <3>5. QED
      BY <2>1, <3>4 DEF j
  <2>2. Blank \in Cells
    BY DEF Cells
  <2>3. QED
    BY <2>1, <2>2
<1>8. ASSUME NEW j \in DOMAIN data, NEW m \in 1..Len(data[j])
      PROVE  Rebuilt(data)[off[j] + m - 1] = data[j][m]
  <2> DEFINE k == off[j] + m - 1
  <2>1. Len(data[j]) \in Nat \ {0} /\ data[j] # <<>>
    BY <1>2
  <2>2. off[j] \in Nat /\ off[j] + Len(data[j]) <= PageSize /\ m \in Nat \ {0} /\ m <= Len(data[j])
    BY <1>3, <2>1
  <2>3. k \in 0..(PageSize - 1) /\ k \in off[j]..(off[j] + Len(data[j]) - 1) /\ k - off[j] + 1 = m
    BY <2>1, <2>2, LayoutAssumption
  <2> HIDE DEF k
  <2>4. j \in At(k)
    BY <2>3
  <2>5. ASSUME NEW i \in At(k) PROVE i = j
    <3>1. i \in DOMAIN data /\ data[i] # <<>> /\ off[i] \in Nat /\ k - off[i] + 1 \in 1..Len(data[i])
      <4> HIDE DEF At
      <4>1. k \in Int
        BY <2>3
      <4>2. QED
        BY <1>6, <4>1
    <3>2. Len(data[i]) \in Nat /\ k \in Nat /\ off[i] <= k /\ k < off[i] + Len(data[i])
      BY <1>2, <2>3, <3>1
    <3>3. off[j] <= k /\ k < off[j] + Len(data[j])
      BY <2>1, <2>2, <2>3
    <3>4. ~ (i < j)
      <4>1. i < j => off[j] + Len(data[j]) <= off[i]
        BY <1>5, <2>1, <3>1
      <4>2. QED
        BY <2>1, <2>2, <3>1, <3>2, <3>3, <4>1
    <3>5. ~ (j < i)
      <4>1. j < i => off[i] + Len(data[i]) <= off[j]
        BY <1>5, <2>1, <3>1
      <4>2. off[i] \in Nat /\ off[j] \in Nat /\ Len(data[i]) \in Nat /\ k \in Nat
        BY <2>2, <3>1, <3>2
      <4>3. QED
        BY <3>2, <3>3, <4>1, <4>2
    <3>6. i \in Nat /\ j \in Nat
      BY <1>2, <3>1
    <3>7. QED
      BY <3>4, <3>5, <3>6
  <2>6. At(k) = {j}
    <3> HIDE DEF At
    <3>1. QED
      BY <2>4, <2>5
  <2>7. Min({j}) = j
    <3>1. j \in Nat
      BY <1>2
    <3>2. QED
      BY <3>1 DEF Min
  <2>8. Cell(k) = data[j][m]
    <3> HIDE DEF At
    <3>1. QED
      BY <2>3, <2>6, <2>7
  <2>9. QED
    BY <1>1, <2>3, <2>8 DEF k
<1>9. QED
  BY <1>1, <1>7, <1>8 DEF off

\* The data every slot has after the repacking: its own, and none if it is dead.
LEMMA RepackedFacts ==
  ASSUME PInv, NEW i \in DOMAIN slots, NEW v \in Data \cup {Pointer}
  PROVE  LET data == Repacked(i, v)
         IN /\ data \in Contents /\ Len(data) = Len(slots) /\ DOMAIN data = DOMAIN slots
            /\ data[i] = Bytes(v) /\ data[i] # <<>>
            /\ \A j \in DOMAIN slots \ {i} :
                 /\ Dead(slots[j]) => data[j] = <<>>
                 /\ ~ Dead(slots[j]) => data[j] # <<>> /\ data[j] = DataAt(bytes, slots, j)
<1> DEFINE data == Repacked(i, v)
           D(j) == IF j = i THEN Bytes(v)
                   ELSE IF Dead(slots[j]) \/ slots[j].off = 0 THEN <<>> ELSE RowBytes(j)
<1>1. /\ slots \in Seq(Slots) /\ bytes \in [0..(PageSize - 1) -> Cells] /\ Placed(slots)
      /\ DOMAIN slots = 1..Len(slots) /\ Len(slots) \in Nat
  BY OffsetFacts DEF PInv
<1>2. data = [j \in DOMAIN slots |-> D(j)]
  BY DEF Repacked
<1>3. Bytes(v) \in Seq(Cells) /\ Bytes(v) # <<>>
  BY ContentFacts
<1>4. ASSUME NEW j \in DOMAIN slots \ {i}
      PROVE  /\ D(j) \in Seq(Cells)
             /\ Dead(slots[j]) => D(j) = <<>>
             /\ ~ Dead(slots[j]) => D(j) # <<>> /\ D(j) = DataAt(bytes, slots, j)
  <2>1. DataAt(bytes, slots, j) \in Seq(Cells) /\ DataAt(bytes, slots, j) # <<>>
    BY <1>1, DataSeq
  <2>2. RowBytes(j) = DataAt(bytes, slots, j)
    BY DEF RowBytes, DataAt
  <2>3. ~ Dead(slots[j]) => slots[j].off # 0
    BY <1>1 DEF Placed
  <2>4. <<>> \in Seq(Cells)
    OBVIOUS
  <2>5. QED
    BY <2>1, <2>2, <2>3, <2>4
<1>5. \A j \in DOMAIN slots : D(j) \in Seq(Cells)
  BY <1>3, <1>4
<1>6. D(i) = Bytes(v)
  OBVIOUS
<1> HIDE DEF D, data
<1>7. data \in Contents /\ Len(data) = Len(slots) /\ DOMAIN data = DOMAIN slots
  BY <1>1, <1>2, <1>5 DEF Contents
<1>8. QED
  BY <1>2, <1>3, <1>4, <1>6, <1>7 DEF data

\* What rebuildDataPageWithFlags does.
LEMMA RebuildEffect ==
  ASSUME PInv, NEW i \in DOMAIN slots, NEW v \in Data \cup {Pointer}, NEW pointer \in BOOLEAN,
         Rebuild(i, v, pointer)
  PROVE  LET data == Repacked(i, v)
         IN /\ PInv'
            /\ data \in Contents /\ Len(data) = Len(slots) /\ DOMAIN slots' = DOMAIN slots
            /\ Len(slots') = Len(slots)
            /\ slots'[i].deleted = FALSE /\ slots'[i].overflow = pointer /\ slots'[i].off # 0
            /\ \A j \in DOMAIN slots \ {i} : /\ slots'[j].deleted = slots[j].deleted
                                             /\ slots'[j].overflow = slots[j].overflow
                                             /\ Dead(slots[j]) <=> slots'[j].off = 0
            /\ \A j \in DOMAIN slots : /\ slots'[j].off = 0 => data[j] = <<>>
                                       /\ slots'[j].off # 0 => DataAt(bytes', slots', j) = data[j]
            /\ free' + SlotLen * Len(slots) + Total(data, Len(data)) = PageSize - HeadLen
<1> DEFINE data == Repacked(i, v)
           all == Total(data, Len(data))
           n == Len(slots)
<1>1. /\ slots \in Seq(Slots) /\ bytes \in [0..(PageSize - 1) -> Cells] /\ Placed(slots)
      /\ DOMAIN slots = 1..n /\ n \in Nat
      /\ \A j \in DOMAIN slots : slots[j] \in Slots
  BY OffsetFacts DEF PInv
<1>2. /\ data \in Contents /\ Len(data) = n /\ DOMAIN data = DOMAIN slots
      /\ data[i] # <<>>
      /\ \A j \in DOMAIN slots \ {i} : Dead(slots[j]) <=> data[j] = <<>>
  BY RepackedFacts
<1>3. /\ PageSize - all >= DirEnd(n)
      /\ slots' = [j \in DOMAIN slots |->
                     [off |-> Packed(data)[j],
                      deleted |-> IF j = i THEN FALSE ELSE slots[j].deleted,
                      overflow |-> IF j = i THEN pointer ELSE slots[j].overflow]]
      /\ bytes' = Rebuilt(data)
      /\ free' = PageSize - all - DirEnd(n)
  <2>1. Len(data) = n
    BY <1>2
  <2>2. QED
    BY <2>1 DEF Rebuild, Fits, FreeAfter
<1> HIDE DEF data
<1>4. all \in Nat /\ all < PageSize /\ DirEnd(n) \in Nat /\ DirEnd(n) = HeadLen + SlotLen * n
  <2>1. all \in Nat
    BY <1>1, <1>2, TotalNat
  <2> HIDE DEF all, n
  <2>2. DirEnd(n) = HeadLen + 2 * n
    BY DEF DirEnd, SlotLen
  <2>3. QED
    BY <1>1, <1>3, <2>1, <2>2, LayoutAssumption DEF SlotLen
<1>5. /\ \A j \in DOMAIN slots : data[j] = <<>> => Packed(data)[j] = 0
      /\ \A j \in DOMAIN slots : data[j] # <<>> =>
           Packed(data)[j] \in Nat \ {0} /\ Packed(data)[j] < PageSize /\ Len(data[j]) \in Nat \ {0}
      /\ \A j, k \in DOMAIN slots : k < j /\ data[k] # <<>> /\ data[j] # <<>> =>
           Packed(data)[j] + Len(data[j]) <= Packed(data)[k]
  BY <1>2, <1>4, PackedPlaces
<1>6. /\ DOMAIN slots' = DOMAIN slots
      /\ \A j \in DOMAIN slots :
           /\ slots'[j].off = Packed(data)[j]
           /\ slots'[j].deleted = IF j = i THEN FALSE ELSE slots[j].deleted
           /\ slots'[j].overflow = IF j = i THEN pointer ELSE slots[j].overflow
  BY <1>3
<1>7. slots' \in Seq(Slots) /\ Len(slots') = n
  <2>1. ASSUME NEW j \in DOMAIN slots PROVE slots'[j] \in Slots
    <3>1. Packed(data)[j] \in 0..PageSize
      BY <1>5, LayoutAssumption
    <3> DEFINE o == Packed(data)[j]
               d == IF j = i THEN FALSE ELSE slots[j].deleted
               p == IF j = i THEN pointer ELSE slots[j].overflow
    <3>2. d \in BOOLEAN /\ p \in BOOLEAN
      BY <1>1 DEF Slots
    <3>3. slots'[j] = [off |-> o, deleted |-> d, overflow |-> p]
      BY <1>3
    <3> HIDE DEF d, p, o
    <3>4. QED
      BY <3>1, <3>2, <3>3 DEF Slots, o
  <2>2. slots' = [j \in 1..n |-> slots'[j]]
    BY <1>1, <1>3
  <2>3. QED
    BY <1>1, <2>1, <2>2
<1>8. /\ \A j \in DOMAIN slots : data[j] # <<>> =>
           FindRowEnd(slots', Packed(data)[j]) = Packed(data)[j] + Len(data[j])
      /\ Lowest(slots') = PageSize - all
  <2>1. DOMAIN slots' = DOMAIN data
    BY <1>2, <1>6
  <2>2. \A j \in DOMAIN slots' : slots'[j].off = Packed(data)[j]
    BY <1>6
  <2>3. QED
    BY <1>2, <1>4, <2>1, <2>2, PackedEnds
<1>9. /\ bytes' \in [0..(PageSize - 1) -> Cells]
      /\ \A j \in DOMAIN slots : \A m \in 1..Len(data[j]) :
           bytes'[Packed(data)[j] + m - 1] = data[j][m]
  BY <1>1, <1>2, <1>3, <1>4, RebuiltFacts
<1>10. PInv'
  <2>1. Descending(slots')
    <3>1. ASSUME NEW k \in DOMAIN slots, NEW j \in DOMAIN slots,
                 k < j, slots'[k].off # 0, slots'[j].off # 0
          PROVE  slots'[j].off < slots'[k].off
      <4>1. data[k] # <<>> /\ data[j] # <<>>
        BY <1>5, <1>6, <3>1
      <4>2. /\ Packed(data)[j] + Len(data[j]) <= Packed(data)[k]
            /\ Packed(data)[j] \in Nat /\ Packed(data)[k] \in Nat /\ Len(data[j]) \in Nat \ {0}
        BY <1>5, <3>1, <4>1
      <4>3. Packed(data)[j] < Packed(data)[k]
        BY <4>2
      <4>4. QED
        BY <1>6, <4>3
    <3>2. QED
      BY <1>6, <3>1 DEF Descending
  <2>2. Placed(slots')
    <3>1. ASSUME NEW j \in DOMAIN slots
          PROVE  (~ Dead(slots'[j]) => slots'[j].off # 0) /\ slots'[j].off < PageSize
      <4>1. slots'[j].off < PageSize
        <5>1. Packed(data)[j] < PageSize
          BY <1>5, LayoutAssumption
        <5>2. QED
          BY <1>6, <5>1
      <4>2. ~ Dead(slots'[j]) => data[j] # <<>>
        BY <1>2, <1>6 DEF Dead
      <4>3. QED
        BY <1>5, <1>6, <4>1, <4>2
    <3>2. QED
      BY <1>6, <3>1 DEF Placed
  <2>3. DirEnd(Len(slots')) <= Lowest(slots') /\ free' = Lowest(slots') - DirEnd(Len(slots'))
    <3>1. Len(slots') = n
      BY <1>7
    <3> HIDE DEF n, all
    <3>2. QED
      BY <1>3, <1>4, <1>8, <3>1, LayoutAssumption
  <2>4. QED
    BY <1>7, <1>9, <2>1, <2>2, <2>3 DEF PInv
<1>11. ASSUME NEW j \in DOMAIN slots
       PROVE  /\ slots'[j].off = 0 => data[j] = <<>>
              /\ slots'[j].off # 0 => data[j] # <<>> /\ DataAt(bytes', slots', j) = data[j]
  <2>1. slots'[j].off = 0 <=> data[j] = <<>>
    BY <1>5, <1>6
  <2>2. ASSUME data[j] # <<>> PROVE DataAt(bytes', slots', j) = data[j]
    <3> DEFINE o == Packed(data)[j]
               d == data[j]
    <3>1. slots'[j].off = o /\ FindRowEnd(slots', o) = o + Len(d) /\ o \in Nat /\ Len(d) \in Nat
      BY <1>5, <1>6, <1>8, <2>2
    <3>2. \A m \in 1..Len(d) : bytes'[o + m - 1] = d[m]
      BY <1>9
    <3>3. d = [m \in 1..Len(d) |-> d[m]]
      BY <1>2 DEF Contents
    <3> HIDE DEF o, d
    <3>4. (o + Len(d)) - o = Len(d)
      BY <3>1
    <3>5. DataAt(bytes', slots', j) = [m \in 1..Len(d) |-> bytes'[o + m - 1]]
      BY <3>1, <3>4 DEF DataAt
    <3>6. QED
      BY <3>2, <3>3, <3>5 DEF d
  <2>3. QED
    BY <2>1, <2>2
<1>12. free' + SlotLen * n + all = PageSize - HeadLen
  <2> DEFINE e == DirEnd(n)
             m == SlotLen * n
  <2>1. m \in Nat
    BY <1>1 DEF SlotLen
  <2>2. free' = PageSize - all - e /\ e = HeadLen + m /\ all \in Nat
    BY <1>3, <1>4
  <2> HIDE DEF e, m, all
  <2>3. free' + m + all = PageSize - HeadLen
    BY <2>1, <2>2, LayoutAssumption
  <2>4. QED
    BY <2>3 DEF m
<1>13. Len(data) = n
  BY <1>2
<1>14. QED
  BY <1>2, <1>6, <1>7, <1>10, <1>11, <1>12, <1>13 DEF data

\* What deleteAt does: the bytes and the offsets are as they were.
LEMMA DeleteEffect ==
  ASSUME PInv, NEW i \in DOMAIN slots, Delete(i)
  PROVE  /\ PInv' /\ DOMAIN slots' = DOMAIN slots /\ Len(slots') = Len(slots)
         /\ slots'[i].deleted /\ slots'[i].overflow
         /\ \A j \in DOMAIN slots \ {i} : slots'[j] = slots[j]
         /\ \A j \in DOMAIN slots : /\ slots'[j].off = slots[j].off
                                    /\ DataAt(bytes', slots', j) = DataAt(bytes, slots, j)
<1>1. /\ slots \in Seq(Slots) /\ DOMAIN slots = 1..Len(slots) /\ Len(slots) \in Nat
      /\ \A j \in DOMAIN slots : slots[j] \in Slots
  BY OffsetFacts DEF PInv
<1>2. bytes' = bytes /\ free' = free
  BY DEF Delete
<1>3. /\ DOMAIN slots' = DOMAIN slots /\ Len(slots') = Len(slots) /\ slots' \in Seq(Slots)
      /\ slots'[i].deleted /\ slots'[i].overflow
      /\ \A j \in DOMAIN slots \ {i} : slots'[j] = slots[j]
      /\ \A j \in DOMAIN slots : slots'[j].off = slots[j].off
  <2>1. slots' = [slots EXCEPT ![i].deleted = TRUE, ![i].overflow = TRUE]
    BY DEF Delete
  <2> DEFINE s == [slots[i] EXCEPT !.deleted = TRUE, !.overflow = TRUE]
  <2>2. s \in Slots /\ s.deleted = TRUE /\ s.overflow = TRUE /\ s.off = slots[i].off
    BY <1>1 DEF Slots
  <2>3. slots' = [slots EXCEPT ![i] = s]
    BY <1>1, <2>1 DEF Slots
  <2> HIDE DEF s
  <2>4. QED
    BY <1>1, <2>2, <2>3
<1>4. Offsets(slots') = Offsets(slots)
  BY <1>3 DEF Offsets
<1>5. \A o : FindRowEnd(slots', o) = FindRowEnd(slots, o)
  BY <1>4 DEF FindRowEnd
<1>6. Lowest(slots') = Lowest(slots)
  BY <1>4 DEF Lowest
<1>7. Descending(slots') /\ Placed(slots')
  <2>1. Descending(slots) /\ Placed(slots)
    BY DEF PInv
  <2>2. Descending(slots')
    BY <1>3, <2>1 DEF Descending
  <2>3. Placed(slots')
    BY <1>3, <2>1 DEF Placed, Dead
  <2>4. QED
    BY <2>2, <2>3
<1>8. PInv'
  BY <1>2, <1>3, <1>6, <1>7 DEF PInv
<1>9. \A j \in DOMAIN slots : DataAt(bytes', slots', j) = DataAt(bytes, slots, j)
  BY <1>2, <1>3, <1>5 DEF DataAt
<1>10. QED
  BY <1>3, <1>8, <1>9

-----------------------------------------------------------------------------
(* The invariant, and what follows from it *)

LEMMA PInvInit == Init => PInv
<1> SUFFICES ASSUME Init PROVE PInv
  OBVIOUS
<1>1. slots = <<>> /\ free = PageSize - HeadLen /\ DOMAIN slots = {} /\ Len(slots) = 0
  BY DEF Init
<1>2. bytes \in [0..(PageSize - 1) -> Cells]
  BY DEF Init, Cells
<1>3. Descending(slots) /\ Placed(slots) /\ slots \in Seq(Slots)
  BY <1>1 DEF Descending, Placed
<1>4. Lowest(slots) = PageSize
  <2>1. Offsets(slots) = {}
    BY <1>1 DEF Offsets
  <2>2. Least({}, PageSize) = PageSize
    BY LeastIs, LayoutAssumption
  <2>3. QED
    BY <2>1, <2>2 DEF Lowest
<1>5. DirEnd(0) = HeadLen
  BY LayoutAssumption DEF DirEnd, SlotLen
<1>6. QED
  BY <1>1, <1>2, <1>3, <1>4, <1>5, LayoutAssumption DEF PInv

\* A row is added, replaced (in place or by a pointer) or deleted.
LEMMA StepCases ==
  ASSUME Next
  PROVE  \/ \E v \in Data, flag \in BOOLEAN : WriteRow(v, flag)
         \/ \E i \in DOMAIN slots, v \in Data \cup {Pointer}, pointer \in BOOLEAN :
              Rebuild(i, v, pointer)
         \/ \E i \in DOMAIN slots : Delete(i)
  BY DEF Next, Insert, AddPayload, UpdateInPlace, UpdateOverflow

LEMMA PInvNext == PInv /\ [Next]_vars => PInv'
<1> SUFFICES ASSUME PInv, [Next]_vars PROVE PInv'
  OBVIOUS
<1>1. CASE \E v \in Data, flag \in BOOLEAN : WriteRow(v, flag)
  BY <1>1, WriteEffect
<1>2. CASE \E i \in DOMAIN slots, v \in Data \cup {Pointer}, pointer \in BOOLEAN :
             Rebuild(i, v, pointer)
  BY <1>2, RebuildEffect
<1>3. CASE \E i \in DOMAIN slots : Delete(i)
  BY <1>3, DeleteEffect
<1>4. CASE UNCHANGED vars
  BY <1>4 DEF PInv, vars, Descending, Placed
<1>5. QED
  BY <1>1, <1>2, <1>3, <1>4, StepCases

\* The layout invariant: offsets descend with the slot numbers, the directory ends below
\* the lowest row, and the free-space field is the gap (writeRowToPage,
\* rebuildDataPageWithFlags and deleteAt all keep it).
THEOREM LayoutInvariance == Spec => []PInv
<1>1. QED
  BY PInvInit, PInvNext, PTL DEF Spec

\* The bytes, the slot directory and the free-space field are of their types.
THEOREM TypeCorrect == Spec => []TypeOK
<1>1. PInv => TypeOK
  <2> SUFFICES ASSUME PInv PROVE TypeOK
    OBVIOUS
  <2>1. slots \in Seq(Slots) /\ bytes \in [0..(PageSize - 1) -> Cells]
    BY DEF PInv
  <2>2. Lowest(slots) \in Nat /\ Lowest(slots) <= PageSize
    BY <2>1, LowestFacts
  <2>3. DirEnd(Len(slots)) \in Nat
    BY <2>1, OffsetFacts, LayoutAssumption DEF DirEnd, SlotLen
  <2>4. free \in 0..PageSize
    <3> DEFINE d == DirEnd(Len(slots))
    <3>1. d <= Lowest(slots) /\ free = Lowest(slots) - d
      BY DEF PInv
    <3> HIDE DEF d
    <3>2. d \in Nat
      BY <2>3 DEF d
    <3>3. QED
      BY <2>2, <3>1, <3>2, LayoutAssumption
  <2>5. QED
    BY <2>1, <2>4 DEF TypeOK
<1>2. QED
  BY <1>1, LayoutInvariance, PTL

\* However rows were inserted, rewritten, moved and deleted: the rows that are not dead keep
\* clear of the slot directory and of each other, where findRowEnd says they end.
THEOREM ApartTrue == Spec => []RowsApart
<1>1. PInv => RowsApart
  <2> SUFFICES ASSUME PInv PROVE RowsApart
    OBVIOUS
  <2>1. /\ slots \in Seq(Slots) /\ Descending(slots) /\ Placed(slots)
        /\ DOMAIN slots = 1..Len(slots)
        /\ DirEnd(Len(slots)) <= Lowest(slots)
    BY OffsetFacts DEF PInv
  <2>2. \A i \in Alive : i \in DOMAIN slots /\ slots[i].off # 0 /\ slots[i].off \in Nat
    BY <2>1, OffsetFacts DEF Alive, Placed
  <2>3. ASSUME NEW i \in Alive PROVE slots[i].off >= DirEnd(Len(slots))
    <3>1. DirEnd(Len(slots)) \in Nat
      BY <2>1, OffsetFacts, LayoutAssumption DEF DirEnd, SlotLen
    <3>2. Lowest(slots) <= slots[i].off /\ Lowest(slots) \in Nat
      BY <2>1, <2>2, LowestFacts
    <3> HIDE DEF DirEnd
    <3>3. QED
      BY <2>1, <2>2, <3>1, <3>2
  <2>4. ASSUME NEW i \in Alive, NEW j \in Alive, i < j
        PROVE  Extent(slots, i) \cap Extent(slots, j) = {}
    <3>1. slots[j].off < slots[i].off
      BY <2>1, <2>2, <2>4 DEF Descending
    <3>2. /\ FindRowEnd(slots, slots[j].off) \in Nat /\ FindRowEnd(slots, slots[j].off) <= slots[i].off
          /\ FindRowEnd(slots, slots[i].off) \in Nat
      BY <2>1, <2>2, <3>1, EndFacts
    <3>3. QED
      BY <2>2, <3>2 DEF Extent
  <2>5. ASSUME NEW i \in Alive, NEW j \in Alive, i # j
        PROVE  Extent(slots, i) \cap Extent(slots, j) = {}
    <3>1. i < j \/ j < i
      BY <2>1, <2>2, <2>5
    <3>2. CASE i < j
      BY <2>4, <3>2
    <3>3. CASE j < i
      <4>1. Extent(slots, j) \cap Extent(slots, i) = {}
        BY <2>4, <3>3
      <4>2. QED
        BY <4>1
    <3>4. QED
      BY <3>1, <3>2, <3>3
  <2>6. QED
    BY <2>3, <2>5 DEF RowsApart
<1>2. QED
  BY <1>1, LayoutInvariance, PTL

\* The two ways of the code to find the end of a row: freeRowLongValues, which looks at the
\* slot before, finds the row of findRowEnd, which looks at all slots, or nothing.
THEOREM FreeSeesTrue == Spec => []FreeSeesNoOther
<1>1. PInv => FreeSeesNoOther
  <2> SUFFICES ASSUME PInv, NEW i \in Alive PROVE SeenByFree(i) \in {RowBytes(i), <<>>}
    BY DEF FreeSeesNoOther
  <2> DEFINE end == IF i = 1 THEN PageSize ELSE slots[i - 1].off
             o == slots[i].off
             e == FindRowEnd(slots, o)
  <2>1. /\ slots \in Seq(Slots) /\ Descending(slots) /\ Placed(slots)
        /\ DOMAIN slots = 1..Len(slots) /\ Len(slots) \in Nat
        /\ i \in DOMAIN slots /\ o # 0 /\ o \in Nat
    BY OffsetFacts DEF PInv, Alive, Placed
  <2>2. /\ e \in Nat /\ o < e /\ e <= PageSize
        /\ \A j \in DOMAIN slots : slots[j].off > o => e <= slots[j].off
    BY <2>1, EndFacts
  <2>3. CASE ~ (o >= DirEnd(Len(slots)) /\ o <= end)
    BY <2>3 DEF SeenByFree
  <2>4. CASE o >= DirEnd(Len(slots)) /\ o <= end
    <3>1. e = end
      <4>1. \A j \in DOMAIN slots : j >= i => ~ (slots[j].off > o)
        <5>1. ASSUME NEW j \in DOMAIN slots, j >= i PROVE ~ (slots[j].off > o)
          <6>1. CASE j = i
            BY <2>1, <6>1
          <6>2. CASE j # i /\ slots[j].off # 0
            <7>1. slots[j].off < o /\ slots[j].off \in Nat
              BY <2>1, <5>1, <6>2, OffsetFacts DEF Descending
            <7>2. QED
              BY <2>1, <7>1
          <6>3. CASE slots[j].off = 0
            BY <2>1, <6>3
          <6>4. QED
            BY <6>1, <6>2, <6>3
        <5>2. QED
          BY <5>1
      <4> DEFINE S == {x \in Offsets(slots) : x > o}
      <4>2. e = Least(S, PageSize)
        BY DEF FindRowEnd
      <4>3. S \subseteq Nat /\ PageSize \in Nat
        BY <2>1, OffsetFacts, LayoutAssumption
      <4>4. CASE i = 1
        <5>1. S = {}
          BY <2>1, <4>1, <4>4 DEF Offsets
        <5> HIDE DEF S
        <5>2. Least(S, PageSize) = PageSize
          BY <4>3, <5>1, LeastIs
        <5>3. QED
          BY <4>2, <4>4, <5>2
      <4>5. CASE i # 1
        <5>1. /\ i - 1 \in DOMAIN slots /\ i - 1 < i
              /\ end = slots[i - 1].off /\ end \in Nat /\ end <= PageSize
          BY <2>1, <4>5, OffsetFacts
        <5>2. end # 0
          BY <2>1, <2>4, <5>1
        <5>3. o < end
          BY <2>1, <5>1, <5>2 DEF Descending
        <5>4. end \in S
          BY <5>1, <5>3 DEF Offsets
        <5>5. \A x \in S : end <= x
          <6>1. ASSUME NEW j \in DOMAIN slots, slots[j].off > o PROVE end <= slots[j].off
            <7>1. slots[j].off \in Nat /\ slots[j].off # 0
              BY <2>1, <6>1, OffsetFacts
            <7>2. j <= i - 1
              BY <2>1, <4>1, <6>1
            <7>3. CASE j = i - 1
              BY <5>1, <7>3
            <7>4. CASE j < i - 1
              BY <2>1, <5>1, <5>2, <7>1, <7>4 DEF Descending
            <7>5. QED
              BY <2>1, <7>2, <7>3, <7>4
          <6>2. QED
            BY <6>1 DEF Offsets
        <5> HIDE DEF S, end
        <5>6. end \in S \cup {PageSize} /\ \A x \in S \cup {PageSize} : end <= x
          BY <5>1, <5>4, <5>5
        <5>7. Least(S, PageSize) = end
          BY <4>3, <5>6, LeastIs
        <5>8. QED
          BY <4>2, <5>7
      <4>6. QED
        BY <4>4, <4>5
    <3>2. SeenByFree(i) = RowBytes(i)
      <4>1. SeenByFree(i) = [j \in 1..(end - o) |-> bytes[o + j - 1]]
        BY <2>4 DEF SeenByFree
      <4>2. RowBytes(i) = [j \in 1..(e - o) |-> bytes[o + j - 1]]
        BY DEF RowBytes
      <4>3. QED
        BY <3>1, <4>1, <4>2
    <3>3. QED
      BY <3>2
  <2>5. QED
    BY <2>3, <2>4
<1>2. QED
  BY <1>1, LayoutInvariance, PTL

-----------------------------------------------------------------------------
(* The page is a list of numbered rows *)

\* The recursive sum of SlottedPage is the one of DataPage.
LEMMA RowTotal ==
  ASSUME NEW rs, NEW data \in Contents, Len(rs) = Len(data),
         \A i \in 1..Len(data) : rs[i].data = data[i]
  PROVE  Page!RowBytes(rs) = Total(data, Len(data))
<1> DEFINE N == Len(rs)
           Body(f) == [i \in 0..N |-> IF i = 0 THEN 0 ELSE f[i - 1] + Len(rs[i].data)]
           t == [i \in 0..N |-> Total(data, i)]
           g == CHOOSE f : f = Body(f)
<1>1. N \in Nat /\ N = Len(data)
  BY DEF Contents
<1>2. \A i \in 1..N : Total(data, i) = Total(data, i - 1) + Len(rs[i].data)
  BY <1>1, TotalStep
<1>3. Total(data, 0) = 0
  BY TotalZero
<1> HIDE DEF N
<1>4. t = Body(t)
  <2>1. ASSUME NEW i \in 0..N PROVE t[i] = Body(t)[i]
    <3>1. CASE i = 0
      BY <1>3, <3>1
    <3>2. CASE i # 0
      <4>1. i \in 1..N /\ i - 1 \in 0..N
        BY <1>1, <3>2
      <4>2. QED
        BY <1>2, <3>2, <4>1
    <3>3. QED
      BY <3>1, <3>2
  <2>2. QED
    BY <2>1
<1> HIDE DEF t
<1>5. g = Body(g)
  BY <1>4
<1> HIDE DEF g
<1> DEFINE P == {n \in Nat : n \in 0..N => g[n] = Total(data, n)}
<1>6. 0 \in P
  BY <1>1, <1>3, <1>5
<1>7. ASSUME NEW n \in Nat, n \in P PROVE n + 1 \in P
  <2>1. SUFFICES ASSUME n + 1 \in 0..N PROVE g[n + 1] = Total(data, n + 1)
    OBVIOUS
  <2>2. n \in 0..N /\ n + 1 \in 1..N /\ (n + 1) - 1 = n /\ n + 1 # 0
    BY <1>1, <2>1
  <2>3. g[n + 1] = g[n] + Len(rs[n + 1].data)
    BY <1>5, <2>1, <2>2
  <2>4. Total(data, n + 1) = Total(data, n) + Len(rs[n + 1].data)
    BY <1>2, <2>2
  <2>5. g[n] = Total(data, n)
    BY <1>7, <2>2
  <2>6. QED
    BY <2>3, <2>4, <2>5
<1> HIDE DEF P
<1>8. Nat \subseteq P
  BY <1>6, <1>7, Inductive
<1>9. g[N] = Total(data, N)
  BY <1>1, <1>8 DEF P
<1>10. Page!RowBytes(rs) = g[N]
  BY DEF Page!RowBytes, g, N
<1>11. QED
  BY <1>1, <1>9, <1>10

\* The rows of the refinement mapping, for the page b with the directory ss.
RowsOf(b, ss) == [i \in DOMAIN ss |-> [kind |-> Kind(ss[i]),
                                       data |-> IF ss[i].off = 0 THEN <<>> ELSE DataAt(b, ss, i)]]

LEMMA RowsFacts ==
  ASSUME NEW b, NEW ss \in Seq(Slots)
  PROVE  LET rs == RowsOf(b, ss)
         IN /\ Len(rs) = Len(ss) /\ DOMAIN rs = DOMAIN ss
            /\ \A i \in DOMAIN ss : rs[i] = [kind |-> Kind(ss[i]),
                                             data |-> IF ss[i].off = 0 THEN <<>> ELSE DataAt(b, ss, i)]
<1>1. DOMAIN ss = 1..Len(ss) /\ Len(ss) \in Nat
  BY OffsetFacts
<1>2. QED
  BY <1>1 DEF RowsOf

LEMMA AddStep ==
  ASSUME PInv, NEW v \in Data, NEW flag \in BOOLEAN, WriteRow(v, flag)
  PROVE  Page!Add
<1> DEFINE n == Len(slots) + 1
           was == RowsOf(bytes, slots)
           now == RowsOf(bytes', slots')
<1>1. /\ slots \in Seq(Slots) /\ slots' \in Seq(Slots) /\ Placed(slots)
      /\ DOMAIN slots = 1..Len(slots) /\ Len(slots) \in Nat
  BY WriteEffect, OffsetFacts DEF PInv
<1>2. /\ Len(slots') = n /\ \A i \in DOMAIN slots : slots'[i] = slots[i]
      /\ \A i \in DOMAIN slots : slots[i].off # 0 => DataAt(bytes', slots', i) = DataAt(bytes, slots, i)
      /\ slots'[n].deleted = flag /\ ~ slots'[n].overflow /\ slots'[n].off # 0
      /\ DataAt(bytes', slots', n) = Bytes(v)
      /\ free' + Len(Bytes(v)) + SlotLen = free
  BY WriteEffect
<1>3. /\ Len(was) = Len(slots) /\ DOMAIN was = DOMAIN slots
      /\ \A i \in DOMAIN slots :
           was[i] = [kind |-> Kind(slots[i]),
                     data |-> IF slots[i].off = 0 THEN <<>> ELSE DataAt(bytes, slots, i)]
  BY <1>1, RowsFacts
<1>4. /\ Len(now) = Len(slots') /\ DOMAIN now = DOMAIN slots'
      /\ \A i \in DOMAIN slots' :
           now[i] = [kind |-> Kind(slots'[i]),
                     data |-> IF slots'[i].off = 0 THEN <<>> ELSE DataAt(bytes', slots', i)]
  BY <1>1, RowsFacts
<1>5. DOMAIN slots' = 1..n
  BY <1>1, <1>2
<1> HIDE DEF was, now
<1>6. \A i \in DOMAIN slots : now[i] = was[i]
  <2>1. \A i \in DOMAIN slots : i \in DOMAIN slots'
    BY <1>1, <1>5
  <2>2. QED
    BY <1>2, <1>3, <1>4, <2>1
<1>7. SubSeq(now, 1, Len(was)) = was
  <2>1. SubSeq(now, 1, Len(was)) = [i \in 1..Len(slots) |-> now[i]]
    BY <1>1, <1>3
  <2>2. was = [i \in 1..Len(slots) |-> was[i]]
    BY <1>3, <1>1 DEF was, RowsOf
  <2>3. QED
    BY <1>1, <1>6, <2>1, <2>2
<1>8. now[n].kind \in {"row", "payload"} /\ now[n].data = Bytes(v)
  <2>1. n \in DOMAIN slots'
    BY <1>1, <1>5
  <2>2. Kind(slots'[n]) \in {"row", "payload"}
    BY <1>2 DEF Kind, Dead
  <2>3. QED
    BY <1>2, <1>4, <2>1, <2>2
<1>9. Len(now) = Len(was) + 1 /\ Len(now) = n
  BY <1>2, <1>3, <1>4
<1>10. /\ Len(now) = Len(was) + 1
       /\ SubSeq(now, 1, Len(was)) = was
       /\ now[Len(now)].kind \in {"row", "payload"}
       /\ free' + Len(now[Len(now)].data) + SlotLen = free
  BY <1>2, <1>7, <1>8, <1>9
<1>11. QED
  BY <1>10 DEF Page!Add, RowsOf, DataAt, RowBytes, was, now

LEMMA ReplaceStep ==
  ASSUME PInv, NEW i \in DOMAIN slots, NEW v \in Data \cup {Pointer}, NEW pointer \in BOOLEAN,
         Rebuild(i, v, pointer)
  PROVE  Page!Replace
<1> DEFINE data == Repacked(i, v)
           was == RowsOf(bytes, slots)
           now == RowsOf(bytes', slots')
<1>1. /\ slots \in Seq(Slots) /\ slots' \in Seq(Slots) /\ Placed(slots)
      /\ DOMAIN slots = 1..Len(slots) /\ Len(slots) \in Nat
  BY RebuildEffect, OffsetFacts DEF PInv
<1>2. /\ data \in Contents /\ Len(data) = Len(slots) /\ DOMAIN slots' = DOMAIN slots
      /\ Len(slots') = Len(slots)
      /\ slots'[i].deleted = FALSE /\ slots'[i].overflow = pointer /\ slots'[i].off # 0
      /\ \A j \in DOMAIN slots \ {i} : /\ slots'[j].deleted = slots[j].deleted
                                       /\ slots'[j].overflow = slots[j].overflow
                                       /\ Dead(slots[j]) <=> slots'[j].off = 0
      /\ \A j \in DOMAIN slots : /\ slots'[j].off = 0 => data[j] = <<>>
                                 /\ slots'[j].off # 0 => DataAt(bytes', slots', j) = data[j]
      /\ free' + SlotLen * Len(slots) + Total(data, Len(data)) = PageSize - HeadLen
  BY RebuildEffect
<1>3. \A j \in DOMAIN slots \ {i} : ~ Dead(slots[j]) =>
        /\ data[j] = DataAt(bytes, slots, j)
        /\ slots[j].off # 0
  BY <1>1, RepackedFacts DEF Placed
<1>4. Kind(slots[i]) \in {"row", "ptr"}
  BY DEF Rebuild
<1> HIDE DEF data
<1>5. /\ Len(was) = Len(slots) /\ DOMAIN was = DOMAIN slots
      /\ \A j \in DOMAIN slots :
           was[j] = [kind |-> Kind(slots[j]),
                     data |-> IF slots[j].off = 0 THEN <<>> ELSE DataAt(bytes, slots, j)]
  BY <1>1, RowsFacts
<1>6. /\ Len(now) = Len(slots') /\ DOMAIN now = DOMAIN slots'
      /\ \A j \in DOMAIN slots' :
           now[j] = [kind |-> Kind(slots'[j]),
                     data |-> IF slots'[j].off = 0 THEN <<>> ELSE DataAt(bytes', slots', j)]
  BY <1>1, RowsFacts
<1> HIDE DEF was, now
<1>7. \A j \in DOMAIN slots : now[j] = [kind |-> Kind(slots'[j]), data |-> data[j]]
  BY <1>2, <1>6
<1>8. was[i].kind \in {"row", "ptr"} /\ now[i].kind \in {"row", "ptr"}
  <2>1. Kind(slots'[i]) \in {"row", "ptr"}
    BY <1>2 DEF Kind, Dead
  <2>2. was[i].kind = Kind(slots[i])
    BY <1>5
  <2>3. now[i].kind = Kind(slots'[i])
    <3>1. now[i] = [kind |-> Kind(slots'[i]), data |-> data[i]]
      BY <1>7
    <3>2. QED
      BY <3>1
  <2>4. QED
    BY <1>4, <2>1, <2>2, <2>3
<1>9. ASSUME NEW j \in DOMAIN slots \ {i}
      PROVE  now[j] = IF was[j].kind = "dead" THEN [was[j] EXCEPT !.data = <<>>] ELSE was[j]
  <2>1. Kind(slots'[j]) = Kind(slots[j])
    BY <1>2 DEF Kind, Dead
  <2>2. was[j].kind = Kind(slots[j])
    BY <1>5
  <2>3. Dead(slots[j]) <=> was[j].kind = "dead"
    BY <2>2 DEF Kind
  <2>4. CASE Dead(slots[j])
    <3>1. data[j] = <<>>
      BY <1>2, <2>4
    <3>2. now[j] = [kind |-> Kind(slots[j]), data |-> <<>>]
      BY <1>7, <2>1, <3>1
    <3>3. [was[j] EXCEPT !.data = <<>>] = [kind |-> Kind(slots[j]), data |-> <<>>]
      BY <1>5
    <3>4. QED
      BY <2>3, <2>4, <3>2, <3>3
  <2>5. CASE ~ Dead(slots[j])
    <3>1. was[j] = [kind |-> Kind(slots[j]), data |-> data[j]]
      BY <1>3, <1>5, <2>5
    <3>2. QED
      BY <1>7, <2>1, <2>3, <2>5, <3>1
  <2>6. QED
    BY <2>4, <2>5
<1>10. free' + SlotLen * Len(now) + Page!RowBytes(now) = PageSize - HeadLen
  <2>1. Len(now) = Len(data)
    BY <1>2, <1>6
  <2>2. ASSUME NEW j \in 1..Len(data) PROVE now[j].data = data[j]
    <3>1. j \in DOMAIN slots
      BY <1>1, <1>2
    <3>2. now[j] = [kind |-> Kind(slots'[j]), data |-> data[j]]
      BY <1>7, <3>1
    <3>3. QED
      BY <3>2
  <2>3. \A rs : Len(rs) = Len(data) /\ (\A j \in 1..Len(data) : rs[j].data = data[j])
                  => Page!RowBytes(rs) = Total(data, Len(data))
    BY <1>2, RowTotal
  <2>4. Page!RowBytes(now) = Total(data, Len(data))
    BY <2>1, <2>2, <2>3
  <2>5. QED
    BY <1>2, <1>6, <2>4
<1>11. /\ Len(now) = Len(was)
       /\ \E k \in DOMAIN was :
            /\ was[k].kind \in {"row", "ptr"}
            /\ now[k].kind \in {"row", "ptr"}
            /\ \A j \in DOMAIN was \ {k} :
                 now[j] = IF was[j].kind = "dead" THEN [was[j] EXCEPT !.data = <<>>] ELSE was[j]
       /\ free' + SlotLen * Len(now) + Page!RowBytes(now) = PageSize - HeadLen
  <2>1. i \in DOMAIN was /\ DOMAIN was \ {i} = DOMAIN slots \ {i}
    BY <1>5
  <2>2. Len(now) = Len(was)
    BY <1>2, <1>5, <1>6
  <2>3. QED
    BY <1>8, <1>9, <1>10, <2>1, <2>2
<1>12. QED
  BY <1>11 DEF Page!Replace, RowsOf, DataAt, RowBytes, was, now

LEMMA RemoveStep ==
  ASSUME PInv, NEW i \in DOMAIN slots, Delete(i)
  PROVE  Page!Remove
<1> DEFINE was == RowsOf(bytes, slots)
           now == RowsOf(bytes', slots')
<1>1. /\ slots \in Seq(Slots) /\ slots' \in Seq(Slots)
      /\ DOMAIN slots = 1..Len(slots) /\ Len(slots) \in Nat
  BY DeleteEffect, OffsetFacts DEF PInv
<1>2. /\ DOMAIN slots' = DOMAIN slots /\ Len(slots') = Len(slots)
      /\ slots'[i].deleted /\ slots'[i].overflow
      /\ \A j \in DOMAIN slots \ {i} : slots'[j] = slots[j]
      /\ \A j \in DOMAIN slots : /\ slots'[j].off = slots[j].off
                                 /\ DataAt(bytes', slots', j) = DataAt(bytes, slots, j)
  BY DeleteEffect
<1>3. free' = free /\ ~ Dead(slots[i])
  BY DEF Delete
<1>4. /\ Len(was) = Len(slots) /\ DOMAIN was = DOMAIN slots
      /\ \A j \in DOMAIN slots :
           was[j] = [kind |-> Kind(slots[j]),
                     data |-> IF slots[j].off = 0 THEN <<>> ELSE DataAt(bytes, slots, j)]
  BY <1>1, RowsFacts
<1>5. /\ Len(now) = Len(slots') /\ DOMAIN now = DOMAIN slots'
      /\ \A j \in DOMAIN slots' :
           now[j] = [kind |-> Kind(slots'[j]),
                     data |-> IF slots'[j].off = 0 THEN <<>> ELSE DataAt(bytes', slots', j)]
  BY <1>1, RowsFacts
<1> HIDE DEF was, now
<1>6. was[i].kind # "dead"
  BY <1>3, <1>4 DEF Kind
<1>7. now[i] = [was[i] EXCEPT !.kind = "dead"]
  <2>1. Kind(slots'[i]) = "dead"
    BY <1>2 DEF Kind, Dead
  <2> DEFINE d == IF slots[i].off = 0 THEN <<>> ELSE DataAt(bytes, slots, i)
  <2>2. was[i] = [kind |-> Kind(slots[i]), data |-> d]
    BY <1>4
  <2>3. now[i] = [kind |-> Kind(slots'[i]), data |-> d]
    BY <1>2, <1>5
  <2> HIDE DEF d
  <2>4. now[i] = [kind |-> "dead", data |-> d]
    BY <2>1, <2>3
  <2>5. QED
    BY <2>2, <2>4
<1>8. ASSUME NEW j \in DOMAIN slots \ {i} PROVE now[j] = was[j]
  <2> DEFINE d == IF slots[j].off = 0 THEN <<>> ELSE DataAt(bytes, slots, j)
  <2>1. was[j] = [kind |-> Kind(slots[j]), data |-> d]
    BY <1>4
  <2>2. now[j] = [kind |-> Kind(slots[j]), data |-> d]
    BY <1>2, <1>5
  <2>3. QED
    BY <2>1, <2>2
<1>9. now = [was EXCEPT ![i].kind = "dead"]
  <2>1. now = [j \in DOMAIN slots |-> now[j]] /\ was = [j \in DOMAIN slots |-> was[j]]
    <3>1. was = [j \in DOMAIN slots |-> was[j]]
      BY DEF was, RowsOf
    <3>2. now = [j \in DOMAIN slots' |-> now[j]]
      BY DEF now, RowsOf
    <3>3. QED
      BY <1>2, <3>1, <3>2
  <2>2. [was EXCEPT ![i].kind = "dead"] = [was EXCEPT ![i] = [was[i] EXCEPT !.kind = "dead"]]
    OBVIOUS
  <2>3. QED
    BY <1>4, <1>7, <1>8, <2>1, <2>2
<1>10. /\ Len(now) = Len(was)
       /\ \E k \in DOMAIN was : /\ was[k].kind # "dead"
                                 /\ now = [was EXCEPT ![k].kind = "dead"]
       /\ free' = free
  BY <1>2, <1>3, <1>4, <1>5, <1>6, <1>9
<1>11. QED
  BY <1>10 DEF Page!Remove, RowsOf, DataAt, RowBytes, was, now

\* The page refines SlottedPage: whatever is inserted, rewritten, moved or deleted around a
\* row, it reads back byte for byte, and the free-space field is exact.
THEOREM ReadsBackTrue == Spec => RowsReadBack
<1>1. Init => Page!Init
  <2> SUFFICES ASSUME Init PROVE Page!Init
    OBVIOUS
  <2>1. DOMAIN slots = {} /\ free = PageSize - HeadLen
    BY DEF Init
  <2>2. QED
    BY <2>1 DEF Page!Init
<1>2. PInv /\ [Next]_vars => [Page!Next]_(Page!vars)
  <2> SUFFICES ASSUME PInv, [Next]_vars PROVE Page!Next \/ UNCHANGED Page!vars
    OBVIOUS
  <2>1. CASE \E v \in Data, flag \in BOOLEAN : WriteRow(v, flag)
    BY <2>1, AddStep DEF Page!Next
  <2>2. CASE \E i \in DOMAIN slots, v \in Data \cup {Pointer}, pointer \in BOOLEAN :
               Rebuild(i, v, pointer)
    BY <2>2, ReplaceStep DEF Page!Next
  <2>3. CASE \E i \in DOMAIN slots : Delete(i)
    BY <2>3, RemoveStep DEF Page!Next
  <2>4. CASE UNCHANGED vars
    <3>1. bytes' = bytes /\ slots' = slots /\ free' = free
      BY <2>4 DEF vars
    <3>2. RowsOf(bytes', slots') = RowsOf(bytes, slots)
      BY <3>1
    <3>3. QED
      BY <3>1, <3>2 DEF Page!vars, RowsOf, RowBytes, DataAt
  <2>5. QED
    BY <2>1, <2>2, <2>3, <2>4, StepCases
<1>3. QED
  BY <1>1, <1>2, LayoutInvariance, PTL DEF Spec, RowsReadBack, Page!Spec
=============================================================================
