--------------------------- MODULE LongValueProofs ---------------------------
(***************************************************************************)
(* What holds of LongValue for every value of its constants: chains of     *)
(* chunks have the form the readers rely on, no chunk is shared, pages are *)
(* accounted for, and every row reads back the value it was last given.    *)
(***************************************************************************)
EXTENDS LongValue, FiniteSetTheorems, WellFoundedInduction, TLAPS

\* The operators that LongValue folds; none needs anything besides.
AddBytes(e, n, c) == n + c.len + SlotLen
ThenFreeSlot(e, st, r) == FreeSlot(st, r)
StoreChunk(st, c) == IF st.ok /\ Target(st, c.len) # {} THEN Alloc(st, c.len, c.piece)
                     ELSE [st EXCEPT !.ok = FALSE]
ThenStore(e, st, c) == StoreChunk(st, c)
ThenFreeRow(e, st, i) == FreeRow(st, i)

INSTANCE Folding WITH Op <- AddBytes
BySlot == INSTANCE Folding WITH Op <- ThenFreeSlot
ByChunk == INSTANCE Folding WITH Op <- ThenStore
ByRow == INSTANCE Folding WITH Op <- ThenFreeRow

-----------------------------------------------------------------------------
(* The inductive invariant *)

AllPieces == UNION {ToSet(Pieces(v)) : v \in Values}
Typed(pages) == pages \in [Pages -> Seq(Chunk)]
Live(pages) == {r \in Refs : Readable(pages, r)}

\* A chunk is the last of its value, or refers to the one with the next piece.
Linked(pages) == \A r \in Live(pages) :
  LET c == ChunkAt(pages, r)
      v == c.piece[1]
      k == c.piece[2]
  IN IF k = Len(Pieces(v)) THEN c.next = NoRef
     ELSE c.next \in Live(pages) /\ ChunkAt(pages, c.next).piece = <<v, k + 1>>

\* No two chunks refer to the same.
Unjoined(pages) == \A r, s \in Live(pages) :
  r # s /\ ChunkAt(pages, r).next # NoRef => ChunkAt(pages, r).next # ChunkAt(pages, s).next

\* Chunks with a next one are full, and those of a chain are never shorter than a
\* reference and a byte.
Sized(pages) == \A r \in Live(pages) :
  /\ ChunkAt(pages, r).next # NoRef => ChunkAt(pages, r).len = ChunkMax
  /\ ChunkAt(pages, r).piece[2] > 1 => ChunkAt(pages, r).len >= NextLen + 1

\* Two chunks of a page fit it, deleted ones included.
Roomy(pages) == \A p \in Pages : \A i, j \in DOMAIN pages[p] :
  i # j => (pages[p][i].len + SlotLen) + (pages[p][j].len + SlotLen) <= PageRoom

Accounted(pages, taken) == \A p \in Pages :
  /\ p \in taken <=> pages[p] # <<>>
  /\ p \in taken <=> \E i \in DOMAIN pages[p] : pages[p][i].live

StoreInv(pages, taken) == /\ Typed(pages) /\ taken \subseteq Pages
                          /\ Linked(pages) /\ Unjoined(pages) /\ Sized(pages)
                          /\ Roomy(pages) /\ Accounted(pages, taken)

\* The descriptor d refers to the first chunk of a value, and no chunk does.
Headed(pages, d) ==
  /\ d.ref \in Live(pages)
  /\ ChunkAt(pages, d.ref).piece[2] = 1
  /\ d.flag = IF LenOf[ChunkAt(pages, d.ref).piece[1]] <= ChunkMax THEN "single" ELSE "multi"
  /\ \A r \in Live(pages) : ChunkAt(pages, r).next # d.ref

\* The rows in I own values, each its own.
Held(pages, rs, I) ==
  /\ \A i \in I : rs[i].desc.flag # "inline" => Headed(pages, rs[i].desc)
  /\ \A i, j \in I : i # j /\ rs[i].desc.flag # "inline" /\ rs[j].desc.flag # "inline"
                       => rs[i].desc.ref # rs[j].desc.ref

LInv == /\ rows \in Seq(Row)
        /\ StoreInv(lval, used)
        /\ Held(lval, rows, Alive)

-----------------------------------------------------------------------------
(* The pieces of a value *)

LEMMA DivFacts ==
  ASSUME NEW l \in Nat \ {0}, NEW m \in Nat \ {0}
  PROVE  LET q == (l + m - 1) \div m
         IN q \in Nat \ {0} /\ (q - 1) * m < l /\ l <= q * m
<1> DEFINE a == l + m - 1
           q == a \div m
           r == a % m
<1>1. a \in Nat /\ a >= m
  OBVIOUS
<1> HIDE DEF a
<1>2. q \in Int /\ r \in Int /\ 0 <= r /\ r < m /\ a = m * q + r
  BY <1>1
<1> HIDE DEF q, r
<1>3. q > 0
  <2>1. m * q > 0
    BY <1>1, <1>2
  <2>2. QED
    BY <1>2, <2>1
<1>4. (q - 1) * m = m * q - m /\ q * m = m * q /\ m * q \in Int
  BY <1>2
<1>5. a = l + m - 1
  BY DEF a
<1>6. QED
  <2> DEFINE x == m * q
  <2>1. x \in Int /\ a = x + r /\ (q - 1) * m = x - m /\ q * m = x
    BY <1>2, <1>4
  <2> HIDE DEF x
  <2>2. (q - 1) * m < l /\ l <= q * m
    BY <1>1, <1>2, <1>5, <2>1
  <2>3. QED
    BY <1>2, <1>3, <2>2 DEF q, a

LEMMA PieceFacts ==
  ASSUME NEW v \in Values
  PROVE  LET n == Len(Pieces(v))
         IN /\ n \in Nat \ {0} /\ DOMAIN Pieces(v) = 1..n
            /\ \A k \in 1..n : Pieces(v)[k] = <<v, k>> /\ <<v, k>> \in AllPieces
            /\ LenOf[v] <= ChunkMax => n = 1
            /\ LenOf[v] > ChunkMax => /\ n >= 2
                                      /\ \A k \in 1..n : PieceLen(v, k) \in 1..PayloadMax
                                      /\ \A k \in 1..n : k # n => PieceLen(v, k) = PayloadMax
<1> DEFINE q == (LenOf[v] + PayloadMax - 1) \div PayloadMax
           n == Len(Pieces(v))
<1>1. LenOf[v] \in Nat \ {0} /\ PayloadMax \in Nat \ {0} /\ NextLen \in Nat /\ ChunkMax = PayloadMax + NextLen
  BY ChunkAssumption DEF ChunkMax
<1>2. q \in Nat \ {0} /\ (q - 1) * PayloadMax < LenOf[v] /\ LenOf[v] <= q * PayloadMax
  BY <1>1, DivFacts
<1>3. Pieces(v) = IF LenOf[v] <= ChunkMax THEN <<<<v, 1>>>> ELSE [i \in 1..q |-> <<v, i>>]
  BY DEF Pieces
<1> HIDE DEF q
<1>4. CASE LenOf[v] <= ChunkMax
  <2>1. Pieces(v) = <<<<v, 1>>>>
    BY <1>3, <1>4
  <2>2. n = 1 /\ DOMAIN Pieces(v) = 1..1 /\ Pieces(v)[1] = <<v, 1>>
    BY <2>1
  <2>3. <<v, 1>> \in ToSet(Pieces(v))
    BY <2>2 DEF ToSet
  <2>4. <<v, 1>> \in AllPieces
    BY <2>3 DEF AllPieces
  <2>5. ~ (LenOf[v] > ChunkMax)
    BY <1>1, <1>4
  <2>6. QED
    BY <1>1, <2>2, <2>4, <2>5
<1>5. CASE ~ (LenOf[v] <= ChunkMax)
  <2>1. Pieces(v) = [i \in 1..q |-> <<v, i>>]
    BY <1>3, <1>5
  <2>2. n = q /\ DOMAIN Pieces(v) = 1..q /\ \A k \in 1..q : Pieces(v)[k] = <<v, k>>
    BY <1>2, <2>1
  <2>3. \A k \in 1..q : <<v, k>> \in ToSet(Pieces(v))
    BY <2>2 DEF ToSet
  <2>4. \A k \in 1..q : <<v, k>> \in AllPieces
    BY <2>3 DEF AllPieces
  <2>5. q >= 2
    <3>1. q = 1 => q * PayloadMax = PayloadMax
      BY <1>1
    <3>2. q # 1
      BY <1>1, <1>2, <1>5, <3>1
    <3>3. QED
      BY <1>2, <3>2
  <2>6. ASSUME NEW k \in 1..n
        PROVE  PieceLen(v, k) \in 1..PayloadMax /\ (k # n => PieceLen(v, k) = PayloadMax)
    <3>1. PieceLen(v, k) = IF k < n THEN PayloadMax ELSE LenOf[v] - (k - 1) * PayloadMax
      BY DEF PieceLen
    <3>2. CASE k # n
      BY <1>1, <1>2, <2>2, <3>1, <3>2
    <3>3. CASE k = n
      <4> DEFINE x == (q - 1) * PayloadMax
      <4>1. q * PayloadMax = x + PayloadMax /\ x \in Nat
        BY <1>1, <1>2
      <4>2. x < LenOf[v] /\ LenOf[v] <= q * PayloadMax
        BY <1>2
      <4>3. PieceLen(v, k) = LenOf[v] - x
        BY <1>2, <2>2, <3>1, <3>3
      <4> HIDE DEF x
      <4>4. LenOf[v] <= x + PayloadMax
        BY <4>1, <4>2
      <4>5. QED
        BY <1>1, <3>3, <4>1, <4>2, <4>3, <4>4
    <3>4. QED
      BY <3>2, <3>3
  <2>7. QED
    BY <1>2, <1>5, <2>2, <2>4, <2>5, <2>6
<1>6. QED
  BY <1>4, <1>5

\* Every piece is one of a value.
LEMMA PieceOf ==
  ASSUME NEW x \in AllPieces
  PROVE  /\ x[1] \in Values /\ x[2] \in 1..Len(Pieces(x[1])) /\ x = <<x[1], x[2]>>
         /\ x[2] \in Nat \ {0}
<1>1. PICK v \in Values : x \in ToSet(Pieces(v))
  BY DEF AllPieces
<1>2. PICK k \in DOMAIN Pieces(v) : x = Pieces(v)[k]
  BY <1>1 DEF ToSet
<1>3. DOMAIN Pieces(v) = 1..Len(Pieces(v)) /\ Pieces(v)[k] = <<v, k>>
  BY PieceFacts
<1>4. x = <<v, k>> /\ k \in 1..Len(Pieces(v))
  BY <1>2, <1>3
<1>5. QED
  BY <1>4

LEMMA ReadableFacts ==
  ASSUME NEW pages, Typed(pages), NEW r \in Live(pages)
  PROVE  /\ r \in Refs /\ r[1] \in Pages /\ r[2] \in Nat /\ r[2] < Len(pages[r[1]])
         /\ r[2] + 1 \in DOMAIN pages[r[1]] /\ r = <<r[1], r[2]>>
         /\ ChunkAt(pages, r) \in Chunk /\ ChunkAt(pages, r).live
         /\ ChunkAt(pages, r).piece \in AllPieces
         /\ ChunkAt(pages, r).next \in Refs \cup {NoRef} /\ ChunkAt(pages, r).len \in 1..ChunkMax
<1>1. r \in Refs /\ Readable(pages, r)
  BY DEF Live
<1>2. r[1] \in Pages /\ r[2] \in Nat /\ r = <<r[1], r[2]>>
  BY <1>1, ChunkAssumption DEF Refs
<1>3. pages[r[1]] \in Seq(Chunk)
  BY <1>2 DEF Typed
<1>4. r[2] < Len(pages[r[1]]) /\ ChunkAt(pages, r).live
  BY <1>1 DEF Readable
<1>5. r[2] + 1 \in DOMAIN pages[r[1]]
  BY <1>2, <1>3, <1>4
<1>6. ChunkAt(pages, r) \in Chunk
  BY <1>3, <1>5 DEF ChunkAt
<1>7. /\ ChunkAt(pages, r).piece \in AllPieces /\ ChunkAt(pages, r).next \in Refs \cup {NoRef}
      /\ ChunkAt(pages, r).len \in 1..ChunkMax
  BY <1>6 DEF Chunk, AllPieces
<1>8. QED
  BY <1>1, <1>2, <1>4, <1>5, <1>6, <1>7

-----------------------------------------------------------------------------
(* One chunk is allocated, or freed *)

\* Every chunk takes its share of the bytes of its page.
LEMMA BytesFacts ==
  ASSUME NEW cs \in Seq(Chunk)
  PROVE  BytesUsed(cs) \in Nat /\ \A i \in DOMAIN cs : cs[i].len + SlotLen <= BytesUsed(cs)
<1> DEFINE n == Len(cs)
<1>1. n \in Nat /\ DOMAIN cs = 1..n
  OBVIOUS
<1>2. BytesUsed(cs) = FoldTable(0, 0, cs)[DOMAIN cs]
  BY DEF BytesUsed, FoldLeft, MapThenFoldSet, FoldTable, IsTable, FoldBy, Max, AddBytes
<1>3. \A k \in 1..n : cs[k].len \in Nat
  <2>1. \A k \in 1..n : cs[k] \in Chunk
    BY <1>1
  <2>2. \A c \in Chunk : c.len \in 1..ChunkMax
    BY DEF Chunk
  <2>3. QED
    BY <2>1, <2>2
<1> HIDE DEF n
<1>4. PICK h : Steps(0, h, 0, cs, n) /\ FoldTable(0, 0, cs)[DOMAIN cs] = h[n]
  BY <1>1, FoldSteps
<1>5. h[0] = 0 /\ \A k \in 1..n : h[k] = h[k - 1] + cs[k].len + SlotLen
  BY <1>4 DEF Steps, AddBytes
<1> DEFINE P == {m \in Nat : m <= n => h[m] \in Nat /\ \A i \in 1..m : cs[i].len + SlotLen <= h[m]}
<1>6. 0 \in P
  BY <1>5
<1>7. ASSUME NEW m \in Nat, m \in P PROVE m + 1 \in P
  <2>1. SUFFICES ASSUME m + 1 <= n
                 PROVE  h[m + 1] \in Nat /\ \A i \in 1..(m + 1) : cs[i].len + SlotLen <= h[m + 1]
    OBVIOUS
  <2>2. m + 1 \in 1..n /\ m <= n /\ (m + 1) - 1 = m
    BY <1>1, <2>1
  <2>3. h[m] \in Nat /\ \A i \in 1..m : cs[i].len + SlotLen <= h[m]
    BY <1>7, <2>2
  <2>4. h[m + 1] = h[m] + cs[m + 1].len + SlotLen
    BY <1>5, <2>2
  <2>5. cs[m + 1].len \in Nat
    BY <1>3, <2>2
  <2>6. h[m + 1] \in Nat /\ cs[m + 1].len + SlotLen <= h[m + 1] /\ h[m] <= h[m + 1]
    BY <2>3, <2>4, <2>5 DEF SlotLen
  <2>7. ASSUME NEW i \in 1..(m + 1) PROVE cs[i].len + SlotLen <= h[m + 1]
    <3>1. CASE i = m + 1
      BY <2>6, <3>1
    <3>2. CASE i # m + 1
      <4>1. i \in 1..m /\ i \in 1..n
        BY <1>1, <2>2, <3>2
      <4>2. cs[i].len + SlotLen <= h[m] /\ cs[i].len \in Nat
        BY <1>3, <2>3, <4>1
      <4>3. QED
        BY <2>3, <2>6, <4>2 DEF SlotLen
    <3>3. QED
      BY <3>1, <3>2
  <2>8. QED
    BY <2>6, <2>7
<1> HIDE DEF P
<1>8. n \in P
  BY <1>1, <1>6, <1>7, Inductive
<1>9. QED
  BY <1>1, <1>2, <1>4, <1>8 DEF P

Stores == [lval : [Pages -> Seq(Chunk)], used : SUBSET Pages, ref : Refs \cup {NoRef}, ok : BOOLEAN]

\* What is left of the chunks of a store is as it was.
Kept(old, new) == \A r \in Live(old) \cap Live(new) : ChunkAt(new, r) = ChunkAt(old, r)

LEMMA FirstOfFacts ==
  ASSUME NEW S, S \subseteq Pages, S # {}
  PROVE  FirstOf(S) \in S
<1>1. S \subseteq Nat
  BY ChunkAssumption DEF Pages
<1>2. \E p \in S : \A q \in S : p <= q
  BY <1>1, LeastOfSet
<1>3. QED
  BY <1>2 DEF FirstOf

LEMMA AllocFacts ==
  ASSUME NEW st \in Stores, Roomy(st.lval), Accounted(st.lval, st.used),
         NEW len \in 1..ChunkMax, NEW piece \in AllPieces, Target(st, len) # {}
  PROVE  LET t == Alloc(st, len, piece)
             c == [live |-> TRUE, len |-> len, piece |-> piece, next |-> st.ref]
         IN /\ t \in Stores /\ t.ok = st.ok
            /\ t.ref \in Refs /\ t.ref \notin Live(st.lval)
            /\ Live(t.lval) = Live(st.lval) \cup {t.ref}
            /\ Kept(st.lval, t.lval) /\ ChunkAt(t.lval, t.ref) = c
            /\ Roomy(t.lval) /\ Accounted(t.lval, t.used)
<1> DEFINE p == FirstOf(Target(st, len))
           cs == st.lval[p]
           n == Len(cs)
           c == [live |-> TRUE, len |-> len, piece |-> piece, next |-> st.ref]
           t == Alloc(st, len, piece)
           ds == Append(cs, c)
<1>1. /\ st.lval \in [Pages -> Seq(Chunk)] /\ st.used \subseteq Pages
      /\ st.ref \in Refs \cup {NoRef} /\ st.ok \in BOOLEAN
      /\ DOMAIN st = {"lval", "used", "ref", "ok"}
  BY DEF Stores
<1>2. p \in Target(st, len) /\ p \in Pages
  <2>1. Target(st, len) \subseteq Pages
    BY DEF Target
  <2>2. QED
    BY <2>1, FirstOfFacts
<1>3. HasRoom(st, p, len) \/ cs = <<>>
  <2>1. HasRoom(st, p, len) \/ p \notin st.used
    BY <1>2 DEF Target
  <2>2. p \notin st.used => cs = <<>>
    BY <1>2 DEF Accounted
  <2>3. QED
    BY <2>1, <2>2
<1>4. cs \in Seq(Chunk) /\ n \in Nat /\ DOMAIN cs = 1..n
  BY <1>1, <1>2
<1>5. c \in Chunk /\ c.live /\ c.len = len
  BY <1>1 DEF Chunk, AllPieces
<1>6. n < MaxRecs /\ n \in 0..(MaxRecs - 1)
  <2>1. n < MaxRecs
    BY <1>3, ChunkAssumption DEF HasRoom
  <2>2. QED
    BY <1>4, <2>1, ChunkAssumption
<1>7. /\ t.lval = [st.lval EXCEPT ![p] = ds] /\ t.used = st.used \cup {p}
      /\ t.ref = <<p, n>> /\ t.ok = st.ok
      /\ t = [lval |-> t.lval, used |-> t.used, ref |-> t.ref, ok |-> t.ok]
  <2> DEFINE l == [st.lval EXCEPT ![p] = ds]
             u == st.used \cup {p}
             f == <<p, n>>
  <2>1. t = [st EXCEPT !.lval = l, !.used = u, !.ref = f]
    BY DEF Alloc
  <2> HIDE DEF l, u, f, t
  <2>2. t = [lval |-> l, used |-> u, ref |-> f, ok |-> st.ok]
    BY <2>1 DEF Stores
  <2>3. QED
    BY <2>2 DEF l, u, f
<1> HIDE DEF t, c, p
<1>8. /\ ds \in Seq(Chunk) /\ Len(ds) = n + 1 /\ DOMAIN ds = 1..(n + 1)
      /\ ds[n + 1] = c /\ \A i \in 1..n : ds[i] = cs[i]
  BY <1>4, <1>5
<1> HIDE DEF cs, ds, n
<1>9. t.lval \in [Pages -> Seq(Chunk)] /\ t.lval[p] = ds /\ \A q \in Pages \ {p} : t.lval[q] = st.lval[q]
  BY <1>1, <1>2, <1>7, <1>8
<1>10. t.ref \in Refs /\ t.ref # NoRef /\ t.ref[1] = p /\ t.ref[2] = n
  BY <1>2, <1>6, <1>7, ChunkAssumption DEF Refs
<1>11. t \in Stores
  BY <1>1, <1>2, <1>7, <1>9, <1>10 DEF Stores
<1>12. ASSUME NEW r \in Refs
       PROVE  /\ Readable(st.lval, r) => Readable(t.lval, r) /\ ChunkAt(t.lval, r) = ChunkAt(st.lval, r)
              /\ Readable(t.lval, r) /\ r # t.ref => Readable(st.lval, r)
  <2>1. r[1] \in Pages /\ r[2] \in Nat /\ r # NoRef /\ r = <<r[1], r[2]>>
    BY ChunkAssumption DEF Refs
  <2>2. CASE r[1] # p
    BY <1>9, <2>1, <2>2 DEF Readable, ChunkAt
  <2>3. CASE r[1] = p
    <3>1. st.lval[r[1]] = cs /\ t.lval[r[1]] = ds
      BY <1>9, <2>3 DEF cs
    <3>2. Len(cs) = n
      BY DEF n
    <3>3. r[2] < n => ds[r[2] + 1] = cs[r[2] + 1]
      BY <1>4, <1>8, <2>1
    <3>4. r[2] < n + 1 /\ r # t.ref => r[2] < n
      BY <1>4, <1>7, <2>1, <2>3
    <3>5. r[2] < n => r[2] < n + 1
      BY <1>4, <2>1
    <3>6. QED
      BY <1>8, <2>1, <3>1, <3>2, <3>3, <3>4, <3>5 DEF Readable, ChunkAt
  <2>4. QED
    BY <2>2, <2>3
<1>13. ~ Readable(st.lval, t.ref) /\ Readable(t.lval, t.ref) /\ ChunkAt(t.lval, t.ref) = c
  <2>1. st.lval[p] = cs /\ Len(cs) = n /\ ~ (n < n) /\ n < n + 1
    BY <1>4 DEF cs, n
  <2>2. QED
    BY <1>5, <1>8, <1>9, <1>10, <2>1 DEF Readable, ChunkAt
<1>14. Live(t.lval) = Live(st.lval) \cup {t.ref} /\ t.ref \notin Live(st.lval)
  BY <1>10, <1>12, <1>13 DEF Live
<1>15. Kept(st.lval, t.lval)
  BY <1>12 DEF Kept, Live
<1>16. Roomy(t.lval)
  <2>1. ASSUME NEW q \in Pages, NEW i \in DOMAIN t.lval[q], NEW j \in DOMAIN t.lval[q], i # j
        PROVE  (t.lval[q][i].len + SlotLen) + (t.lval[q][j].len + SlotLen) <= PageRoom
    <3>1. CASE q # p
      BY <1>9, <2>1, <3>1 DEF Roomy
    <3>2. CASE q = p
      <4>1. t.lval[q] = ds /\ i \in 1..(n + 1) /\ j \in 1..(n + 1)
        BY <1>8, <1>9, <3>2
      <4>2. CASE i # n + 1 /\ j # n + 1
        <5>1. i \in 1..n /\ j \in 1..n
          BY <1>4, <4>1, <4>2
        <5>2. ds[i] = cs[i] /\ ds[j] = cs[j]
          BY <1>8, <5>1
        <5>3. (cs[i].len + SlotLen) + (cs[j].len + SlotLen) <= PageRoom
          BY <1>2, <1>4, <2>1, <5>1 DEF Roomy, cs
        <5>4. QED
          BY <4>1, <5>2, <5>3
      <4>3. ASSUME NEW k \in 1..n PROVE (ds[k].len + SlotLen) + (len + SlotLen) <= PageRoom
                                        /\ ds[k].len \in Nat
        <5>1. cs # <<>>
          BY <1>4
        <5>2. BytesUsed(cs) + len + SlotLen <= PageRoom
          BY <1>3, <5>1 DEF HasRoom, cs
        <5>3. BytesUsed(cs) \in Nat /\ cs[k].len + SlotLen <= BytesUsed(cs)
          BY <1>4, BytesFacts
        <5>4. cs[k].len \in Nat
          <6>1. cs[k] \in Chunk
            BY <1>4
          <6>2. cs[k].len \in 1..ChunkMax
            BY <6>1 DEF Chunk
          <6>3. QED
            BY <6>2
        <5>5. ds[k] = cs[k]
          BY <1>8
        <5>6. QED
          BY <5>2, <5>3, <5>4, <5>5, ChunkAssumption DEF SlotLen
      <4>4. CASE i = n + 1
        <5>1. j \in 1..n
          BY <1>4, <2>1, <4>1, <4>4
        <5>2. ds[i].len = len
          BY <1>5, <1>8, <4>4
        <5>3. QED
          BY <4>1, <4>3, <5>1, <5>2 DEF SlotLen
      <4>5. CASE j = n + 1
        <5>1. i \in 1..n
          BY <1>4, <2>1, <4>1, <4>5
        <5>2. ds[j].len = len
          BY <1>5, <1>8, <4>5
        <5>3. QED
          BY <4>1, <4>3, <5>1, <5>2
      <4>6. QED
        BY <4>2, <4>4, <4>5
    <3>3. QED
      BY <3>1, <3>2
  <2>2. QED
    BY <2>1 DEF Roomy
<1>17. Accounted(t.lval, t.used)
  <2>1. ds # <<>> /\ n + 1 \in DOMAIN ds /\ ds[n + 1].live
    BY <1>4, <1>5, <1>8
  <2>2. QED
    BY <1>7, <1>9, <2>1 DEF Accounted
<1>18. QED
  BY <1>7, <1>10, <1>11, <1>13, <1>14, <1>15, <1>16, <1>17 DEF c, t

LEMMA FreeSlotFacts ==
  ASSUME NEW st \in Stores, Roomy(st.lval), Accounted(st.lval, st.used), NEW r \in Live(st.lval)
  PROVE  LET t == FreeSlot(st, r)
         IN /\ t \in Stores /\ t.ok = st.ok /\ t.ref = st.ref
            /\ Live(t.lval) = Live(st.lval) \ {r}
            /\ Kept(st.lval, t.lval)
            /\ Roomy(t.lval) /\ Accounted(t.lval, t.used)
<1> DEFINE p == r[1]
           i == r[2] + 1
           bs == st.lval[p]
           cs == [bs EXCEPT ![i].live = FALSE]
           empty == \A j \in DOMAIN cs : ~ cs[j].live
           ds == IF empty THEN <<>> ELSE cs
           t == FreeSlot(st, r)
<1>1. /\ st.lval \in [Pages -> Seq(Chunk)] /\ st.used \subseteq Pages
      /\ st.ref \in Refs \cup {NoRef} /\ st.ok \in BOOLEAN
      /\ DOMAIN st = {"lval", "used", "ref", "ok"}
  BY DEF Stores
<1>2. /\ r \in Refs /\ p \in Pages /\ r[2] \in Nat /\ i \in DOMAIN bs /\ bs[i].live
      /\ r = <<p, r[2]>>
  BY <1>1, ReadableFacts DEF Typed, ChunkAt
<1>3. bs \in Seq(Chunk) /\ DOMAIN bs = 1..Len(bs) /\ Len(bs) \in Nat
  BY <1>1, <1>2
<1>4. /\ cs \in Seq(Chunk) /\ DOMAIN cs = DOMAIN bs /\ Len(cs) = Len(bs)
      /\ cs[i].live = FALSE /\ \A j \in DOMAIN bs : cs[j].len = bs[j].len
      /\ \A j \in DOMAIN bs \ {i} : cs[j] = bs[j]
  <2> DEFINE c == [bs[i] EXCEPT !.live = FALSE]
  <2>1. bs[i] \in Chunk
    BY <1>2, <1>3
  <2>2. c \in Chunk /\ c.live = FALSE /\ c.len = bs[i].len
    BY <2>1 DEF Chunk
  <2>3. cs = [bs EXCEPT ![i] = c]
    OBVIOUS
  <2> HIDE DEF c, cs, bs
  <2>4. QED
    BY <1>2, <1>3, <2>2, <2>3
<1>5. /\ t.lval = [st.lval EXCEPT ![p] = ds]
      /\ t.used = IF empty THEN st.used \ {p} ELSE st.used
      /\ t.ref = st.ref /\ t.ok = st.ok
      /\ t = [lval |-> t.lval, used |-> t.used, ref |-> t.ref, ok |-> t.ok]
  <2> DEFINE l == [st.lval EXCEPT ![p] = ds]
             u == IF empty THEN st.used \ {p} ELSE st.used
  <2>1. t = [st EXCEPT !.lval = l, !.used = u]
    BY DEF FreeSlot
  <2> HIDE DEF l, u, t
  <2>2. t = [lval |-> l, used |-> u, ref |-> st.ref, ok |-> st.ok]
    BY <2>1 DEF Stores
  <2>3. QED
    BY <2>2 DEF l, u
<1>6. ds \in Seq(Chunk)
  BY <1>4
<1> HIDE DEF cs, t
<1>7. t.lval \in [Pages -> Seq(Chunk)] /\ t.lval[p] = ds /\ \A q \in Pages \ {p} : t.lval[q] = st.lval[q]
  <2> HIDE DEF ds, empty
  <2>1. QED
    BY <1>1, <1>2, <1>5, <1>6
<1>8. t \in Stores
  <2>1. t.used \subseteq Pages
    BY <1>1, <1>5
  <2> HIDE DEF empty, ds
  <2>2. QED
    BY <1>1, <1>5, <1>7, <2>1 DEF Stores
<1>9. ASSUME NEW q \in Refs
      PROVE  /\ Readable(t.lval, q) <=> Readable(st.lval, q) /\ q # r
             /\ Readable(t.lval, q) => ChunkAt(t.lval, q) = ChunkAt(st.lval, q)
  <2>1. q[1] \in Pages /\ q[2] \in Nat /\ q # NoRef /\ q = <<q[1], q[2]>>
    BY ChunkAssumption DEF Refs
  <2>2. CASE q[1] # p
    BY <1>2, <1>7, <2>1, <2>2 DEF Readable, ChunkAt
  <2>3. CASE q[1] = p
    <3>1. st.lval[q[1]] = bs /\ t.lval[q[1]] = ds
      BY <1>7, <2>3
    <3>2. q = r <=> q[2] + 1 = i
      BY <1>2, <2>1, <2>3
    <3>3. CASE empty
      <4>1. ~ (q[2] < Len(ds))
        BY <2>1, <3>3
      <4>2. ~ Readable(t.lval, q)
        BY <3>1, <4>1 DEF Readable
      <4>3. q[2] < Len(bs) => q[2] + 1 \in DOMAIN bs
        BY <1>3, <2>1
      <4>4. q[2] < Len(bs) /\ q # r => ~ bs[q[2] + 1].live
        BY <1>4, <3>2, <3>3, <4>3
      <4>5. ~ (Readable(st.lval, q) /\ q # r)
        BY <3>1, <4>4 DEF Readable, ChunkAt
      <4>6. QED
        BY <4>2, <4>5
    <3>4. CASE ~ empty
      <4>1. ds = cs
        BY <3>4
      <4>2. q[2] < Len(bs) => q[2] + 1 \in DOMAIN bs
        BY <1>3, <2>1
      <4>3. q[2] < Len(bs) /\ q # r => cs[q[2] + 1] = bs[q[2] + 1]
        BY <1>4, <3>2, <4>2
      <4>4. q = r => ~ cs[q[2] + 1].live
        BY <1>4, <3>2
      <4> HIDE DEF ds, empty, bs
      <4>5. QED
        BY <1>4, <2>1, <3>1, <4>1, <4>3, <4>4 DEF Readable, ChunkAt
    <3>5. QED
      BY <3>3, <3>4
  <2>4. QED
    BY <2>2, <2>3
<1>10. Live(t.lval) = Live(st.lval) \ {r} /\ Kept(st.lval, t.lval)
  BY <1>9 DEF Live, Kept
<1>11. Roomy(t.lval)
  <2>1. ASSUME NEW q \in Pages, NEW j \in DOMAIN t.lval[q], NEW k \in DOMAIN t.lval[q], j # k
        PROVE  (t.lval[q][j].len + SlotLen) + (t.lval[q][k].len + SlotLen) <= PageRoom
    <3>1. CASE q # p
      BY <1>7, <2>1, <3>1 DEF Roomy
    <3>2. CASE q = p
      <4>1. ~ empty
        BY <1>7, <3>2
      <4>2. t.lval[q] = cs
        BY <1>7, <3>2, <4>1
      <4>3. j \in DOMAIN bs /\ k \in DOMAIN bs /\ cs[j].len = bs[j].len /\ cs[k].len = bs[k].len
        BY <1>4, <4>2
      <4>4. (bs[j].len + SlotLen) + (bs[k].len + SlotLen) <= PageRoom
        BY <1>2, <2>1, <4>3 DEF Roomy
      <4>5. QED
        BY <4>2, <4>3, <4>4
    <3>3. QED
      BY <3>1, <3>2
  <2>2. QED
    BY <2>1 DEF Roomy
<1>12. Accounted(t.lval, t.used)
  <2>1. p \in st.used
    BY <1>2 DEF Accounted
  <2>2. ASSUME NEW q \in Pages
        PROVE  /\ q \in t.used <=> t.lval[q] # <<>>
               /\ q \in t.used <=> \E j \in DOMAIN t.lval[q] : t.lval[q][j].live
    <3>1. CASE q # p
      <4>1. t.lval[q] = st.lval[q] /\ (q \in t.used <=> q \in st.used)
        BY <1>5, <1>7, <3>1
      <4>2. QED
        BY <4>1 DEF Accounted
    <3>2. CASE q = p /\ empty
      <4>1. t.lval[q] = <<>> /\ q \notin t.used
        BY <1>5, <1>7, <3>2
      <4>2. QED
        BY <4>1
    <3>3. CASE q = p /\ ~ empty
      <4>1. t.lval[q] = cs /\ q \in t.used
        BY <1>5, <1>7, <2>1, <3>3
      <4>2. \E j \in DOMAIN cs : cs[j].live
        BY <3>3
      <4>3. QED
        BY <4>1, <4>2
    <3>4. QED
      BY <3>1, <3>2, <3>3
  <2>3. QED
    BY <2>2 DEF Accounted
<1>13. QED
  BY <1>5, <1>8, <1>10, <1>11, <1>12 DEF t

-----------------------------------------------------------------------------
(* Chains *)

\* The chunks from r to the last of its value, each referring to the next.
Links(pages, r, s) ==
  LET v == ChunkAt(pages, r).piece[1]
      k == ChunkAt(pages, r).piece[2]
  IN /\ s \in Seq(Refs) /\ Len(s) = Len(Pieces(v)) - k + 1 /\ s[1] = r
     /\ \A j \in 1..Len(s) : /\ s[j] \in Live(pages)
                             /\ ChunkAt(pages, s[j]).piece = <<v, k + j - 1>>
                             /\ ChunkAt(pages, s[j]).next = IF j = Len(s) THEN NoRef ELSE s[j + 1]

LEMMA LinksExist ==
  ASSUME NEW pages, Typed(pages), Linked(pages), NEW r \in Live(pages)
  PROVE  \E s : Links(pages, r, s)
<1> DEFINE V(q) == ChunkAt(pages, q).piece[1]
           K(q) == ChunkAt(pages, q).piece[2]
           Behind(q) == Len(Pieces(V(q))) - K(q)
           P == {m \in Nat : \A q \in Live(pages) : Behind(q) = m => \E s : Links(pages, q, s)}
<1>1. ASSUME NEW q \in Live(pages)
      PROVE  /\ V(q) \in Values /\ K(q) \in Nat \ {0} /\ K(q) <= Len(Pieces(V(q)))
             /\ Len(Pieces(V(q))) \in Nat /\ ChunkAt(pages, q).piece = <<V(q), K(q)>>
             /\ Behind(q) \in Nat /\ q \in Refs
  <2>1. ChunkAt(pages, q).piece \in AllPieces /\ q \in Refs
    BY ReadableFacts
  <2>2. /\ V(q) \in Values /\ K(q) \in 1..Len(Pieces(V(q))) /\ K(q) \in Nat \ {0}
        /\ ChunkAt(pages, q).piece = <<V(q), K(q)>>
    BY <2>1, PieceOf
  <2>3. Len(Pieces(V(q))) \in Nat
    BY <2>2, PieceFacts
  <2>4. QED
    BY <2>1, <2>2, <2>3
<1>2. 0 \in P
  <2>1. ASSUME NEW q \in Live(pages), Behind(q) = 0 PROVE Links(pages, q, <<q>>)
    <3>1. K(q) = Len(Pieces(V(q)))
      BY <1>1, <2>1
    <3>2. ChunkAt(pages, q).next = NoRef
      BY <3>1 DEF Linked
    <3> DEFINE s == <<q>>
    <3>3. s \in Seq(Refs) /\ Len(s) = 1 /\ s[1] = q
      BY <1>1
    <3> HIDE DEF s
    <3>4. Len(s) = Len(Pieces(V(q))) - K(q) + 1
      BY <1>1, <3>1, <3>3
    <3>5. \A j \in 1..Len(s) : j = 1 /\ s[j] = q /\ K(q) + j - 1 = K(q)
      BY <1>1, <3>3
    <3>6. \A j \in 1..Len(s) : /\ s[j] \in Live(pages)
                               /\ ChunkAt(pages, s[j]).piece = <<V(q), K(q) + j - 1>>
                               /\ ChunkAt(pages, s[j]).next = IF j = Len(s) THEN NoRef ELSE s[j + 1]
      BY <1>1, <3>2, <3>3, <3>5
    <3>7. Links(pages, q, s)
      BY <3>3, <3>4, <3>6 DEF Links
    <3>8. QED
      BY <3>7 DEF s
  <2>2. QED
    BY <2>1
<1>3. ASSUME NEW m \in Nat, m \in P PROVE m + 1 \in P
  <2>1. ASSUME NEW q \in Live(pages), Behind(q) = m + 1 PROVE \E s : Links(pages, q, s)
    <3> DEFINE x == ChunkAt(pages, q).next
               v == V(q)
               k == K(q)
               n == Len(Pieces(v))
    <3>1. v \in Values /\ k \in Nat \ {0} /\ n \in Nat /\ n - k = m + 1 /\ q \in Refs
      BY <1>1, <2>1
    <3>2. x \in Live(pages) /\ ChunkAt(pages, x).piece = <<v, k + 1>>
      <4>1. k # n
        BY <3>1
      <4>2. QED
        BY <4>1 DEF Linked
    <3>3. V(x) = v /\ K(x) = k + 1
      BY <3>2
    <3>4. Behind(x) = m
      BY <3>1, <3>3
    <3>5. PICK t : Links(pages, x, t)
      BY <1>3, <3>2, <3>4
    <3> HIDE DEF x, v, k, n
    <3>6. /\ t \in Seq(Refs) /\ Len(t) = n - (k + 1) + 1 /\ t[1] = x
          /\ \A j \in 1..Len(t) : /\ t[j] \in Live(pages)
                                  /\ ChunkAt(pages, t[j]).piece = <<v, (k + 1) + j - 1>>
                                  /\ ChunkAt(pages, t[j]).next = IF j = Len(t) THEN NoRef ELSE t[j + 1]
      BY <3>3, <3>5 DEF Links, n
    <3>7. Len(t) = m + 1
      BY <3>1, <3>6
    <3> DEFINE s == [j \in 1..(m + 2) |-> IF j = 1 THEN q ELSE t[j - 1]]
    <3>8. \A j \in 1..(m + 2) : j # 1 => j - 1 \in 1..Len(t) /\ s[j] = t[j - 1]
      BY <3>7
    <3>9. s \in Seq(Refs) /\ Len(s) = m + 2 /\ s[1] = q
      <4>1. \A j \in 1..(m + 2) : s[j] \in Refs
        <5>1. \A j \in 1..Len(t) : t[j] \in Refs
          BY <3>6
        <5>2. QED
          BY <3>1, <3>8, <5>1
      <4>2. m + 2 \in Nat /\ 1 \in 1..(m + 2)
        OBVIOUS
      <4>3. QED
        BY <4>1, <4>2
    <3>10. ASSUME NEW j \in 1..(m + 2)
           PROVE  /\ s[j] \in Live(pages)
                  /\ ChunkAt(pages, s[j]).piece = <<v, k + j - 1>>
                  /\ ChunkAt(pages, s[j]).next = IF j = m + 2 THEN NoRef ELSE s[j + 1]
      <4>1. CASE j = 1
        <5>1. s[j] = q /\ k + j - 1 = k /\ j # m + 2
          BY <3>1, <3>9, <4>1
        <5>2. s[j + 1] = x
          <6>1. s[2] = t[1]
            <7>1. 2 \in 1..(m + 2) /\ 2 # 1 /\ 2 - 1 = 1
              OBVIOUS
            <7>2. s[2] = t[2 - 1]
              BY <3>8, <7>1
            <7>3. QED
              BY <7>1, <7>2
          <6>2. QED
            BY <3>6, <4>1, <6>1
        <5>3. ChunkAt(pages, q).piece = <<v, k>>
          BY <1>1 DEF v, k
        <5>4. QED
          BY <5>1, <5>2, <5>3 DEF x
      <4>2. CASE j # 1
        <5>1. j - 1 \in 1..Len(t) /\ s[j] = t[j - 1] /\ (k + 1) + (j - 1) - 1 = k + j - 1
          BY <3>1, <3>8, <4>2
        <5>2. /\ t[j - 1] \in Live(pages)
              /\ ChunkAt(pages, t[j - 1]).piece = <<v, (k + 1) + (j - 1) - 1>>
              /\ ChunkAt(pages, t[j - 1]).next = IF j - 1 = Len(t) THEN NoRef ELSE t[(j - 1) + 1]
          BY <3>6, <5>1
        <5>3. j - 1 = Len(t) <=> j = m + 2
          BY <3>7
        <5>4. j # m + 2 => s[j + 1] = t[(j - 1) + 1]
          <6>1. ASSUME j # m + 2 PROVE s[j + 1] = t[(j - 1) + 1]
            <7>1. j + 1 \in 1..(m + 2) /\ j + 1 # 1 /\ (j + 1) - 1 = (j - 1) + 1
              BY <6>1
            <7>2. QED
              BY <3>8, <7>1
          <6>2. QED
            BY <6>1
        <5>5. QED
          BY <5>1, <5>2, <5>3, <5>4
      <4>3. QED
        BY <4>1, <4>2
    <3> HIDE DEF s
    <3>11. Len(s) = Len(Pieces(V(q))) - K(q) + 1
      BY <3>1, <3>9 DEF n, v, k
    <3>12. Links(pages, q, s)
      BY <3>9, <3>10, <3>11 DEF Links, v, k
    <3>13. QED
      BY <3>12
  <2>2. QED
    BY <2>1
<1> HIDE DEF P
<1>4. Nat \subseteq P
  BY <1>2, <1>3, Inductive
<1>5. QED
  BY <1>1, <1>4 DEF P

\* A full chunk and another one of its chain do not fit a page.
LEMMA LinksSpread ==
  ASSUME NEW pages, Typed(pages), Sized(pages), Roomy(pages), NEW r \in Live(pages),
         NEW s, Links(pages, r, s)
  PROVE  \A i, j \in 1..Len(s) : i # j => s[i][1] # s[j][1]
<1> DEFINE v == ChunkAt(pages, r).piece[1]
           k == ChunkAt(pages, r).piece[2]
<1>1. k \in Nat \ {0}
  BY ReadableFacts, PieceOf
<1> HIDE DEF v, k
<1>2. /\ s \in Seq(Refs) /\ Len(s) \in Nat
      /\ \A j \in 1..Len(s) : /\ s[j] \in Live(pages)
                              /\ ChunkAt(pages, s[j]).piece = <<v, k + j - 1>>
                              /\ ChunkAt(pages, s[j]).next = IF j = Len(s) THEN NoRef ELSE s[j + 1]
  BY DEF Links, v, k
<1>3. ASSUME NEW i \in 1..Len(s), NEW j \in 1..Len(s), i < j PROVE s[i][1] # s[j][1]
  <2> DEFINE a == s[i]
             b == s[j]
  <2>1. /\ a \in Live(pages) /\ b \in Live(pages)
        /\ ChunkAt(pages, a).piece = <<v, k + i - 1>> /\ ChunkAt(pages, b).piece = <<v, k + j - 1>>
    BY <1>2
  <2>2. ChunkAt(pages, a).len = ChunkMax
    <3>1. i + 1 \in 1..Len(s) /\ i # Len(s)
      BY <1>2, <1>3
    <3>2. ChunkAt(pages, a).next = s[i + 1] /\ s[i + 1] \in Refs
      BY <1>2, <3>1
    <3>3. ChunkAt(pages, a).next # NoRef
      BY <3>2, ChunkAssumption
    <3>4. QED
      BY <2>1, <3>3 DEF Sized
  <2>3. ChunkAt(pages, b).len >= NextLen + 1
    <3>1. k + j - 1 > 1
      BY <1>1, <1>2, <1>3
    <3>2. ChunkAt(pages, b).piece[2] = k + j - 1
      BY <2>1
    <3>3. ChunkAt(pages, b).piece[2] > 1
      BY <3>1, <3>2
    <3>4. QED
      BY <2>1, <3>3 DEF Sized
  <2>4. a # b
    <3>1. k + i - 1 # k + j - 1
      BY <1>1, <1>2, <1>3
    <3>2. QED
      BY <2>1, <3>1
  <2> HIDE DEF a, b
  <2>5. /\ a[1] \in Pages /\ b[1] \in Pages /\ a[2] \in Nat /\ b[2] \in Nat
        /\ a = <<a[1], a[2]>> /\ b = <<b[1], b[2]>>
        /\ a[2] + 1 \in DOMAIN pages[a[1]] /\ b[2] + 1 \in DOMAIN pages[b[1]]
        /\ ChunkAt(pages, b).len \in Nat
    BY <2>1, ReadableFacts
  <2>6. ASSUME a[1] = b[1] PROVE FALSE
    <3> DEFINE p == a[1]
               la == pages[p][a[2] + 1].len
               lb == pages[p][b[2] + 1].len
    <3>1. a[2] + 1 # b[2] + 1
      BY <2>4, <2>5, <2>6
    <3>2. (la + SlotLen) + (lb + SlotLen) <= PageRoom
      BY <2>5, <2>6, <3>1 DEF Roomy
    <3>3. la = ChunkMax /\ lb >= NextLen + 1 /\ lb \in Nat
      BY <2>2, <2>3, <2>5, <2>6 DEF ChunkAt
    <3> HIDE DEF la, lb
    <3>4. QED
      BY <3>2, <3>3, ChunkAssumption DEF SlotLen, ChunkMax
  <2>7. QED
    BY <2>6 DEF a, b
<1>4. ASSUME NEW i \in 1..Len(s), NEW j \in 1..Len(s), i # j PROVE s[i][1] # s[j][1]
  <2>1. i < j \/ j < i
    BY <1>2, <1>4
  <2>2. QED
    BY <1>3, <2>1
<1>5. QED
  BY <1>4

\* The walk of Chain, as a table for all paths of references.
Paths == Seq(Refs) \ {<<>>}
NextOf(pages, q) == IF Readable(pages, q) THEN ChunkAt(pages, q).next ELSE NoRef
WalkBy(pages, g, refs) ==
  LET next == NextOf(pages, Last(refs))
  IN IF next = NoRef \/ \E k \in DOMAIN refs : refs[k][1] = next[1] THEN refs
     ELSE g[Append(refs, next)]
WalkTable(pages) == CHOOSE g : g = [refs \in Paths |-> WalkBy(pages, g, refs)]

LEMMA ChainByTable ==
  ASSUME NEW pages, NEW r
  PROVE  Chain(pages, r) = WalkTable(pages)[<<r>>]
  BY DEF Chain, WalkTable, WalkBy, NextOf, Paths

LEMMA NextFacts ==
  ASSUME NEW pages, Typed(pages), NEW refs \in Paths
  PROVE  /\ Len(refs) \in Nat \ {0} /\ DOMAIN refs = 1..Len(refs) /\ Last(refs) \in Refs
         /\ NextOf(pages, Last(refs)) \in Refs \cup {NoRef}
<1>1. refs \in Seq(Refs) /\ Len(refs) \in Nat \ {0} /\ DOMAIN refs = 1..Len(refs)
  BY DEF Paths
<1>2. Last(refs) \in Refs
  BY <1>1 DEF Last
<1>3. Readable(pages, Last(refs)) => Last(refs) \in Live(pages)
  BY <1>2 DEF Live
<1>4. Readable(pages, Last(refs)) => ChunkAt(pages, Last(refs)).next \in Refs \cup {NoRef}
  BY <1>3, ReadableFacts
<1>5. QED
  BY <1>1, <1>2, <1>4 DEF NextOf

\* There is such a table: every step takes a page that the path has not been on.
LEMMA WalkExists ==
  ASSUME NEW pages, Typed(pages)
  PROVE  WalkTable(pages) = [refs \in Paths |-> WalkBy(pages, WalkTable(pages), refs)]
<1> DEFINE On(refs) == {refs[k][1] : k \in DOMAIN refs}
           Off(refs) == Pages \ On(refs)
           Upto(m) == {refs \in Paths : Cardinality(Off(refs)) <= m}
           Walked(g, m) == \A refs \in Upto(m) : g[refs] = WalkBy(pages, g, refs)
           P == {m \in Nat : \E g : Walked(g, m)}
<1>1. IsFiniteSet(Pages) /\ Cardinality(Pages) \in Nat
  <2>1. IsFiniteSet(1..NPages)
    BY FS_Interval, ChunkAssumption
  <2>2. IsFiniteSet(Pages)
    BY <2>1 DEF Pages
  <2>3. QED
    BY <2>2, FS_CardinalityType
<1>2. \A refs : IsFiniteSet(Off(refs)) /\ Cardinality(Off(refs)) \in Nat /\ Cardinality(Off(refs)) <= Cardinality(Pages)
  <2>1. ASSUME NEW refs
        PROVE  IsFiniteSet(Off(refs)) /\ Cardinality(Off(refs)) \in Nat /\ Cardinality(Off(refs)) <= Cardinality(Pages)
    <3>1. Off(refs) \subseteq Pages
      OBVIOUS
    <3> HIDE DEF Off
    <3>2. QED
      BY <1>1, <3>1, FS_Subset, FS_CardinalityType
  <2>2. QED
    BY <2>1
<1>3. ASSUME NEW refs \in Paths, NEW x \in Refs, ~ \E k \in DOMAIN refs : refs[k][1] = x[1]
      PROVE  /\ Append(refs, x) \in Paths
             /\ Cardinality(Off(Append(refs, x))) = Cardinality(Off(refs)) - 1
  <2>1. refs \in Seq(Refs) /\ x[1] \in Pages
    BY DEF Paths, Refs
  <2>2. /\ Append(refs, x) \in Paths
        /\ DOMAIN Append(refs, x) = DOMAIN refs \cup {Len(refs) + 1}
        /\ Append(refs, x)[Len(refs) + 1] = x
        /\ \A k \in DOMAIN refs : Append(refs, x)[k] = refs[k]
    BY <2>1 DEF Paths
  <2>3. On(Append(refs, x)) = On(refs) \cup {x[1]}
    BY <2>2
  <2>4. x[1] \in Off(refs) /\ Off(Append(refs, x)) = Off(refs) \ {x[1]}
    BY <1>3, <2>1, <2>3
  <2> HIDE DEF Off
  <2>5. QED
    BY <1>2, <2>2, <2>4, FS_RemoveElement
<1> DEFINE Stop(refs) == LET x == NextOf(pages, Last(refs))
                         IN x = NoRef \/ \E k \in DOMAIN refs : refs[k][1] = x[1]
           On1(refs) == Append(refs, NextOf(pages, Last(refs)))
<1>4. ASSUME NEW refs \in Paths, ~ Stop(refs)
      PROVE  On1(refs) \in Paths /\ Cardinality(Off(On1(refs))) = Cardinality(Off(refs)) - 1
  <2>1. NextOf(pages, Last(refs)) \in Refs
    BY <1>4, NextFacts
  <2>2. ~ \E k \in DOMAIN refs : refs[k][1] = NextOf(pages, Last(refs))[1]
    BY <1>4
  <2> HIDE DEF Off
  <2>3. QED
    BY <1>3, <2>1, <2>2
<1>5. \A g, refs : WalkBy(pages, g, refs) = IF Stop(refs) THEN refs ELSE g[On1(refs)]
  BY DEF WalkBy
<1> HIDE DEF Stop, On1, Off
<1>6. 0 \in P
  <2>1. \A refs \in Upto(0) : Stop(refs)
    <3>1. ASSUME NEW refs \in Upto(0), ~ Stop(refs) PROVE FALSE
      <4>1. Cardinality(Off(refs)) = 0
        BY <1>2
      <4>2. Cardinality(Off(On1(refs))) = 0 - 1
        BY <1>4, <3>1, <4>1
      <4>3. QED
        BY <1>2, <4>2
    <3>2. QED
      BY <3>1
  <2>2. Walked([refs \in Upto(0) |-> refs], 0)
    BY <1>5, <2>1
  <2>3. QED
    BY <2>2
<1>7. ASSUME NEW m \in Nat, m \in P PROVE m + 1 \in P
  <2>1. PICK g : Walked(g, m)
    BY <1>7
  <2> DEFINE h == [refs \in Upto(m + 1) |-> IF refs \in Upto(m) THEN g[refs] ELSE WalkBy(pages, g, refs)]
  <2>2. ASSUME NEW refs \in Upto(m + 1) PROVE h[refs] = WalkBy(pages, h, refs)
    <3>1. h[refs] = WalkBy(pages, g, refs)
      BY <2>1
    <3>2. CASE Stop(refs)
      BY <1>5, <3>1, <3>2
    <3>3. CASE ~ Stop(refs)
      <4>1. On1(refs) \in Paths /\ Cardinality(Off(On1(refs))) = Cardinality(Off(refs)) - 1
            /\ Cardinality(Off(refs)) <= m + 1 /\ Cardinality(Off(refs)) \in Nat
        BY <1>2, <1>4, <3>3
      <4>2. Cardinality(Off(On1(refs))) <= m /\ Cardinality(Off(On1(refs))) <= m + 1
        BY <4>1
      <4>3. On1(refs) \in Upto(m) /\ On1(refs) \in Upto(m + 1)
        BY <4>1, <4>2
      <4>4. h[On1(refs)] = g[On1(refs)]
        BY <4>3
      <4> HIDE DEF h
      <4>5. QED
        BY <1>5, <3>1, <3>3, <4>4
    <3>4. QED
      BY <3>2, <3>3
  <2> HIDE DEF h
  <2>3. \E k : Walked(k, m + 1)
    BY <2>2
  <2>4. QED
    BY <2>3
<1>8. Cardinality(Pages) \in P
  <2> HIDE DEF P
  <2>1. QED
    BY <1>1, <1>6, <1>7, Inductive
<1>9. PICK g : Walked(g, Cardinality(Pages))
  BY <1>8
<1>10. \A refs \in Paths : refs \in Upto(Cardinality(Pages))
  BY <1>2
<1> DEFINE h == [refs \in Paths |-> g[refs]]
<1>11. ASSUME NEW refs \in Paths PROVE h[refs] = WalkBy(pages, h, refs)
  <2>1. h[refs] = WalkBy(pages, g, refs)
    BY <1>9, <1>10
  <2>2. ~ Stop(refs) => h[On1(refs)] = g[On1(refs)]
    BY <1>4
  <2> HIDE DEF h
  <2>3. QED
    BY <1>5, <2>1, <2>2
<1>12. h = [refs \in Paths |-> WalkBy(pages, h, refs)]
  BY <1>11
<1> HIDE DEF h
<1>13. QED
  BY <1>12 DEF WalkTable

\* The walk of the readers ends with the chain, and not before.
LEMMA ChainIs ==
  ASSUME NEW pages, Typed(pages), NEW r \in Live(pages), NEW s, Links(pages, r, s),
         \A i, j \in 1..Len(s) : i # j => s[i][1] # s[j][1]
  PROVE  Chain(pages, r) = s
<1> DEFINE n == Len(s)
           t == WalkTable(pages)
           Pre(j) == [i \in 1..j |-> s[i]]
<1>1. /\ s \in Seq(Refs) /\ n \in Nat /\ s[1] = r
      /\ \A j \in 1..n : /\ s[j] \in Live(pages)
                         /\ ChunkAt(pages, s[j]).next = IF j = n THEN NoRef ELSE s[j + 1]
  BY DEF Links
<1>2. n >= 1
  <2> DEFINE v == ChunkAt(pages, r).piece[1]
             k == ChunkAt(pages, r).piece[2]
  <2>1. v \in Values /\ k \in 1..Len(Pieces(v)) /\ k \in Nat
    BY ReadableFacts, PieceOf
  <2>2. Len(Pieces(v)) \in Nat /\ n = Len(Pieces(v)) - k + 1
    BY <2>1, PieceFacts DEF Links
  <2> HIDE DEF v, k, n
  <2>3. QED
    BY <2>1, <2>2
<1>3. t = [refs \in Paths |-> WalkBy(pages, t, refs)]
  BY WalkExists
<1> HIDE DEF n, t
<1>4. ASSUME NEW j \in 1..n
      PROVE  /\ Pre(j) \in Paths /\ Len(Pre(j)) = j /\ DOMAIN Pre(j) = 1..j /\ Last(Pre(j)) = s[j]
             /\ \A i \in 1..j : Pre(j)[i] = s[i] /\ i \in 1..n
             /\ t[Pre(j)] = WalkBy(pages, t, Pre(j))
             /\ NextOf(pages, s[j]) = IF j = n THEN NoRef ELSE s[j + 1]
  <2>1. \A i \in 1..j : s[i] \in Refs /\ i \in 1..n
    BY <1>1 DEF n
  <2>2. Pre(j) \in Seq(Refs) /\ Len(Pre(j)) = j /\ Pre(j)[j] = s[j] /\ Pre(j) # <<>>
    <3>1. j \in Nat \ {0} /\ j \in 1..j
      BY <1>1
    <3>2. Len(Pre(j)) = j /\ Pre(j)[j] = s[j]
      BY <3>1
    <3>3. Pre(j) \in Seq(Refs)
      BY <2>1, <3>1
    <3> HIDE DEF Pre
    <3>4. QED
      BY <3>1, <3>2, <3>3
  <2>3. Pre(j) \in Paths /\ Last(Pre(j)) = s[j]
    BY <2>2 DEF Paths, Last
  <2>4. t[Pre(j)] = WalkBy(pages, t, Pre(j))
    <3> HIDE DEF Pre
    <3>1. QED
      BY <1>3, <2>3
  <2>5. NextOf(pages, s[j]) = IF j = n THEN NoRef ELSE s[j + 1]
    <3>1. Readable(pages, s[j])
      BY <1>1 DEF Live
    <3>2. QED
      BY <1>1, <3>1 DEF NextOf
  <2>6. QED
    BY <2>1, <2>2, <2>3, <2>4, <2>5
<1>5. t[Pre(n)] = s
  <2>1. n \in 1..n
    BY <1>1, <1>2
  <2>2. Pre(n) = s
    BY <1>1 DEF n
  <2>3. t[Pre(n)] = WalkBy(pages, t, Pre(n)) /\ NextOf(pages, Last(Pre(n))) = NoRef
    BY <1>4, <2>1
  <2> HIDE DEF Pre
  <2>4. QED
    BY <2>2, <2>3 DEF WalkBy
<1>6. ASSUME NEW j \in 1..n, j # n PROVE t[Pre(j)] = t[Pre(j + 1)]
  <2>1. j + 1 \in 1..n
    BY <1>1, <1>6
  <2>2. /\ Pre(j) \in Paths /\ Len(Pre(j)) = j /\ DOMAIN Pre(j) = 1..j /\ Last(Pre(j)) = s[j]
        /\ \A i \in 1..j : Pre(j)[i] = s[i] /\ i \in 1..n
        /\ t[Pre(j)] = WalkBy(pages, t, Pre(j))
        /\ NextOf(pages, s[j]) = s[j + 1]
    BY <1>4, <1>6
  <2>3. s[j + 1] # NoRef
    BY <1>1, <2>1, ChunkAssumption DEF n
  <2>4. \A i \in DOMAIN Pre(j) : Pre(j)[i][1] # s[j + 1][1]
    <3>1. \A i \in 1..j : i # j + 1
      BY <1>1
    <3>2. \A i \in 1..j : s[i][1] # s[j + 1][1]
      BY <2>1, <2>2, <3>1 DEF n
    <3> HIDE DEF Pre
    <3>3. QED
      BY <2>2, <3>2
  <2>5. t[Pre(j)] = t[Append(Pre(j), s[j + 1])]
    <3> HIDE DEF Pre
    <3>1. QED
      BY <2>2, <2>3, <2>4 DEF WalkBy
  <2>6. Append(Pre(j), s[j + 1]) = Pre(j + 1)
    <3>1. j \in Nat
      BY <1>1
    <3>2. QED
      BY <2>2, <3>1
  <2>7. QED
    BY <2>5, <2>6
<1> DEFINE P == {m \in Nat : \A j \in 1..n : n - j = m => t[Pre(j)] = s}
<1> HIDE DEF Pre
<1>7. 0 \in P
  <2>1. \A j \in 1..n : n - j = 0 => j = n
    BY <1>1
  <2>2. QED
    BY <1>5, <2>1
<1>8. ASSUME NEW m \in Nat, m \in P PROVE m + 1 \in P
  <2>1. ASSUME NEW j \in 1..n, n - j = m + 1 PROVE t[Pre(j)] = s
    <3>1. j # n /\ j + 1 \in 1..n /\ n - (j + 1) = m
      BY <1>1, <2>1
    <3>2. t[Pre(j)] = t[Pre(j + 1)] /\ t[Pre(j + 1)] = s
      BY <1>6, <1>8, <3>1
    <3>3. QED
      BY <3>2
  <2>2. QED
    BY <2>1
<1> HIDE DEF P
<1>9. Nat \subseteq P
  BY <1>7, <1>8, Inductive
<1>10. t[Pre(1)] = s
  <2>1. 1 \in 1..n /\ n - 1 \in Nat
    BY <1>1, <1>2
  <2>2. QED
    BY <1>9, <2>1 DEF P
<1>11. Pre(1) = <<r>>
  <2>1. 1 \in 1..n
    BY <1>1, <1>2
  <2>2. Pre(1) \in Paths /\ Len(Pre(1)) = 1 /\ \A i \in 1..1 : Pre(1)[i] = s[i]
    BY <1>4, <2>1
  <2>3. 1 \in 1..1
    OBVIOUS
  <2>4. Pre(1)[1] = r
    BY <1>1, <2>2, <2>3
  <2>5. QED
    BY <2>2, <2>4 DEF Paths
<1>12. QED
  BY <1>10, <1>11, ChainByTable DEF t

\* Together: the references Chain reads are those of the chain, on pages of their own.
LEMMA ChainFacts ==
  ASSUME NEW pages, Typed(pages), Linked(pages), Sized(pages), Roomy(pages), NEW r \in Live(pages)
  PROVE  /\ Links(pages, r, Chain(pages, r))
         /\ \A i, j \in 1..Len(Chain(pages, r)) : i # j => Chain(pages, r)[i][1] # Chain(pages, r)[j][1]
<1>1. PICK s : Links(pages, r, s)
  BY LinksExist
<1>2. \A i, j \in 1..Len(s) : i # j => s[i][1] # s[j][1]
  BY <1>1, LinksSpread
<1>3. Chain(pages, r) = s
  BY <1>1, <1>2, ChainIs
<1>4. QED
  BY <1>1, <1>2, <1>3

-----------------------------------------------------------------------------
(* A value is read, or freed *)

RefsOf(pages, d) == IF d.flag = "single" THEN <<d.ref>> ELSE Chain(pages, d.ref)

\* The references of a value are those of a chain of all its pieces.
LEMMA HeadFacts ==
  ASSUME NEW pages, Typed(pages), Linked(pages), Sized(pages), Roomy(pages),
         NEW d \in Descs, d.flag # "inline", Headed(pages, d)
  PROVE  LET s == Chain(pages, d.ref)
             v == ChunkAt(pages, d.ref).piece[1]
         IN /\ v \in Values /\ RefsOf(pages, d) = s
            /\ s \in Seq(Refs) /\ Len(s) = Len(Pieces(v)) /\ Len(s) \in Nat \ {0}
            /\ DOMAIN s = 1..Len(s) /\ s[1] = d.ref
            /\ \A j \in 1..Len(s) : /\ s[j] \in Live(pages)
                                    /\ ChunkAt(pages, s[j]).piece = <<v, j>>
                                    /\ ChunkAt(pages, s[j]).next = IF j = Len(s) THEN NoRef ELSE s[j + 1]
            /\ \A i, j \in 1..Len(s) : i # j => s[i] # s[j]
            /\ d.flag = "single" => Len(s) = 1
<1> DEFINE s == Chain(pages, d.ref)
           v == ChunkAt(pages, d.ref).piece[1]
           n == Len(Pieces(v))
<1>1. d.ref \in Live(pages) /\ ChunkAt(pages, d.ref).piece[2] = 1
  BY DEF Headed
<1>2. v \in Values
  BY <1>1, ReadableFacts, PieceOf
<1>3. n \in Nat \ {0} /\ (LenOf[v] <= ChunkMax => n = 1)
  BY <1>2, PieceFacts
<1>4. Links(pages, d.ref, s) /\ \A i, j \in 1..Len(s) : i # j => s[i][1] # s[j][1]
  BY <1>1, ChainFacts
<1> HIDE DEF s, v
<1>5. /\ s \in Seq(Refs) /\ Len(s) = n - 1 + 1 /\ s[1] = d.ref
      /\ \A j \in 1..Len(s) : /\ s[j] \in Live(pages)
                              /\ ChunkAt(pages, s[j]).piece = <<v, 1 + j - 1>>
                              /\ ChunkAt(pages, s[j]).next = IF j = Len(s) THEN NoRef ELSE s[j + 1]
  BY <1>1, <1>4 DEF Links, v
<1> HIDE DEF n
<1>6. Len(s) = n /\ DOMAIN s = 1..n
  BY <1>3, <1>5
<1>7. \A j \in 1..n : 1 + j - 1 = j
  BY <1>3
<1>8. d.flag = "single" => n = 1
  BY <1>3 DEF Headed, v
<1>9. RefsOf(pages, d) = s
  <2>1. CASE d.flag = "single"
    <3>1. Len(s) = 1 /\ s = <<d.ref>>
      BY <1>5, <1>6, <1>8, <2>1
    <3>2. QED
      BY <2>1, <3>1 DEF RefsOf
  <2>2. CASE d.flag # "single"
    BY <2>2 DEF RefsOf, s
  <2>3. QED
    BY <2>1, <2>2
<1>10. QED
  BY <1>2, <1>3, <1>4, <1>5, <1>6, <1>7, <1>8, <1>9 DEF s, v, n

\* What is read of a value is all of it.
LEMMA ReadIs ==
  ASSUME NEW pages, Typed(pages), Linked(pages), Sized(pages), Roomy(pages),
         NEW d \in Descs, d.flag # "inline" => Headed(pages, d)
  PROVE  ReadValue(pages, d) = IF d.flag = "inline" THEN d.value
                               ELSE Pieces(ChunkAt(pages, d.ref).piece[1])
<1>1. CASE d.flag = "inline"
  BY <1>1 DEF ReadValue
<1>2. CASE d.flag # "inline"
  <2> DEFINE s == Chain(pages, d.ref)
             v == ChunkAt(pages, d.ref).piece[1]
             n == Len(s)
  <2>1. /\ v \in Values /\ RefsOf(pages, d) = s
        /\ n = Len(Pieces(v)) /\ n \in Nat \ {0} /\ DOMAIN s = 1..n
        /\ \A j \in 1..n : /\ s[j] \in Live(pages)
                           /\ ChunkAt(pages, s[j]).piece = <<v, j>>
                           /\ ChunkAt(pages, s[j]).next = IF j = n THEN NoRef ELSE s[j + 1]
    BY <1>2, HeadFacts
  <2> HIDE DEF s, v, n
  <2>2. Pieces(v) = [k \in 1..n |-> <<v, k>>]
    <3>1. Len(Pieces(v)) = n /\ \A k \in 1..n : Pieces(v)[k] = <<v, k>>
      BY <2>1, PieceFacts
    <3>2. Pieces(v) \in Seq(Values \X Nat)
      <4>1. \A k \in 1..Len(Pieces(v)) : <<v, k>> \in Values \X Nat
        BY <2>1
      <4>2. CASE LenOf[v] <= ChunkMax
        <5>1. Pieces(v) = <<<<v, 1>>>>
          BY <4>2 DEF Pieces
        <5>2. QED
          BY <2>1, <5>1
      <4>3. CASE ~ (LenOf[v] <= ChunkMax)
        <5> DEFINE q == (LenOf[v] + PayloadMax - 1) \div PayloadMax
        <5>1. Pieces(v) = [i \in 1..q |-> <<v, i>>]
          BY <4>3 DEF Pieces
        <5>2. q \in Nat
          BY <2>1, ChunkAssumption, DivFacts
        <5> HIDE DEF q
        <5>3. QED
          BY <2>1, <5>1, <5>2
      <4>4. QED
        BY <4>2, <4>3
    <3> DEFINE x == Pieces(v)
    <3> HIDE DEF x
    <3>3. x \in Seq(Values \X Nat) /\ Len(x) = n /\ \A k \in 1..n : x[k] = <<v, k>>
      BY <3>1, <3>2 DEF x
    <3>4. x = [k \in 1..n |-> x[k]]
      BY <3>3
    <3>5. x = [k \in 1..n |-> <<v, k>>]
      BY <3>3, <3>4
    <3>6. QED
      BY <3>5 DEF x
  <2>3. \A k \in DOMAIN s : Readable(pages, s[k])
    BY <2>1 DEF Live
  <2>4. ChunkAt(pages, s[Len(s)]).next = NoRef
    <3>1. n \in 1..n
      BY <2>1
    <3>2. QED
      BY <2>1, <3>1 DEF n
  <2>5. ReadValue(pages, d) = [k \in DOMAIN s |-> ChunkAt(pages, s[k]).piece]
    BY <1>2, <2>1, <2>3, <2>4 DEF ReadValue, RefsOf, s
  <2>6. ReadValue(pages, d) = Pieces(v)
    BY <2>1, <2>2, <2>5
  <2>7. QED
    BY <1>2, <2>6 DEF v
<1>3. QED
  BY <1>1, <1>2

\* Freeing the chunks of s one after the other.
LEMMA FreeAll ==
  ASSUME NEW st \in Stores, Roomy(st.lval), Accounted(st.lval, st.used),
         NEW s \in Seq(Refs), \A j \in 1..Len(s) : s[j] \in Live(st.lval),
         \A i, j \in 1..Len(s) : i # j => s[i] # s[j]
  PROVE  LET t == FoldLeft(FreeSlot, st, s)
         IN /\ t \in Stores /\ t.ok = st.ok /\ t.ref = st.ref
            /\ Live(t.lval) = Live(st.lval) \ {s[j] : j \in 1..Len(s)}
            /\ Kept(st.lval, t.lval) /\ Roomy(t.lval) /\ Accounted(t.lval, t.used)
<1> DEFINE n == Len(s)
           t == FoldLeft(FreeSlot, st, s)
           After(u, m) == /\ u \in Stores /\ u.ok = st.ok /\ u.ref = st.ref
                          /\ Live(u.lval) = Live(st.lval) \ {s[j] : j \in 1..m}
                          /\ Kept(st.lval, u.lval) /\ Roomy(u.lval) /\ Accounted(u.lval, u.used)
<1>1. n \in Nat /\ DOMAIN s = 1..n
  OBVIOUS
<1>2. t = BySlot!FoldTable(0, st, s)[DOMAIN s]
  BY DEF FoldLeft, MapThenFoldSet, BySlot!FoldTable, BySlot!IsTable, BySlot!FoldBy, Max, BySlot!Max, ThenFreeSlot
<1> HIDE DEF n, t
<1>3. PICK h : BySlot!Steps(0, h, st, s, n) /\ BySlot!FoldTable(0, st, s)[DOMAIN s] = h[n]
  BY <1>1, BySlot!FoldSteps
<1>4. h[0] = st /\ \A k \in 1..n : h[k] = FreeSlot(h[k - 1], s[k])
  BY <1>3 DEF BySlot!Steps, ThenFreeSlot
<1> DEFINE P == {m \in Nat : m <= n => After(h[m], m)}
<1>5. 0 \in P
  <2>1. Kept(st.lval, st.lval)
    BY DEF Kept
  <2>2. {s[j] : j \in 1..0} = {}
    OBVIOUS
  <2>3. QED
    BY <1>4, <2>1, <2>2
<1>6. ASSUME NEW m \in Nat, m \in P PROVE m + 1 \in P
  <2>1. SUFFICES ASSUME m + 1 <= n PROVE After(h[m + 1], m + 1)
    OBVIOUS
  <2> DEFINE u == h[m]
             w == h[m + 1]
             r == s[m + 1]
  <2>2. m + 1 \in 1..n /\ m <= n /\ (m + 1) - 1 = m /\ \A j \in 1..m : j \in 1..n /\ j # m + 1
    BY <1>1, <2>1
  <2>3. After(u, m)
    BY <1>6, <2>2
  <2>4. w = FreeSlot(u, r)
    BY <1>4, <2>2
  <2>5. r \in Live(st.lval) /\ \A j \in 1..m : s[j] # r
    BY <2>2 DEF n
  <2>6. {s[j] : j \in 1..(m + 1)} = {s[j] : j \in 1..m} \cup {r}
    <3>1. 1..(m + 1) = (1..m) \cup {m + 1}
      BY <1>6
    <3>2. QED
      BY <3>1
  <2>7. Live(u.lval) = Live(st.lval) \ {s[j] : j \in 1..m}
    BY <2>3
  <2>8. r \in Live(u.lval)
    BY <2>5, <2>7
  <2> HIDE DEF u, w, r
  <2>9. /\ w \in Stores /\ w.ok = u.ok /\ w.ref = u.ref
        /\ Live(w.lval) = Live(u.lval) \ {r} /\ Kept(u.lval, w.lval)
        /\ Roomy(w.lval) /\ Accounted(w.lval, w.used)
    BY <2>3, <2>4, <2>8, FreeSlotFacts
  <2>10. Live(w.lval) = Live(st.lval) \ {s[j] : j \in 1..(m + 1)}
    BY <2>6, <2>7, <2>9
  <2>11. Kept(st.lval, w.lval)
    BY <2>3, <2>7, <2>9 DEF Kept
  <2>12. After(w, m + 1)
    BY <2>3, <2>9, <2>10, <2>11
  <2>13. QED
    BY <2>12 DEF w
<1> HIDE DEF P
<1>7. n \in P
  BY <1>1, <1>5, <1>6, Inductive
<1>8. After(t, n)
  BY <1>1, <1>2, <1>3, <1>7 DEF P
<1>9. QED
  BY <1>8 DEF n, t

\* Freeing a value leaves whole chains, and those of all other values.
LEMMA FreeFacts ==
  ASSUME NEW st \in Stores, StoreInv(st.lval, st.used),
         NEW d \in Descs, d.flag # "inline" => Headed(st.lval, d)
  PROVE  LET t == FreeValue(st, d)
         IN /\ t \in Stores /\ t.ok = st.ok /\ t.ref = st.ref /\ StoreInv(t.lval, t.used)
            /\ Live(t.lval) \subseteq Live(st.lval) /\ Kept(st.lval, t.lval)
            /\ \A e \in Descs : Headed(st.lval, e) /\ (d.flag # "inline" => e.ref # d.ref)
                                => Headed(t.lval, e)
<1> DEFINE t == FreeValue(st, d)
           s == Chain(st.lval, d.ref)
           n == Len(s)
           v == ChunkAt(st.lval, d.ref).piece[1]
           S == {s[j] : j \in 1..n}
<1>1. /\ Typed(st.lval) /\ Linked(st.lval) /\ Unjoined(st.lval) /\ Sized(st.lval) /\ Roomy(st.lval)
      /\ Accounted(st.lval, st.used)
  BY DEF StoreInv
<1>2. CASE d.flag = "inline"
  <2>1. t = st
    BY <1>2 DEF FreeValue
  <2> HIDE DEF t
  <2>2. Kept(st.lval, t.lval)
    BY <2>1 DEF Kept
  <2>3. QED
    BY <2>1, <2>2 DEF t
<1>3. CASE d.flag # "inline"
  <2>1. /\ v \in Values /\ RefsOf(st.lval, d) = s /\ s \in Seq(Refs) /\ n \in Nat \ {0} /\ s[1] = d.ref
        /\ \A j \in 1..n : /\ s[j] \in Live(st.lval)
                           /\ ChunkAt(st.lval, s[j]).piece = <<v, j>>
                           /\ ChunkAt(st.lval, s[j]).next = IF j = n THEN NoRef ELSE s[j + 1]
        /\ \A i, j \in 1..n : i # j => s[i] # s[j]
    BY <1>1, <1>3, HeadFacts
  <2>2. t = FoldLeft(FreeSlot, st, s)
    BY <1>3, <2>1 DEF FreeValue, RefsOf
  <2>3. /\ t \in Stores /\ t.ok = st.ok /\ t.ref = st.ref
        /\ Live(t.lval) = Live(st.lval) \ S
        /\ Kept(st.lval, t.lval) /\ Roomy(t.lval) /\ Accounted(t.lval, t.used)
    <3> HIDE DEF t, s
    <3>1. QED
      BY <1>1, <2>1, <2>2, FreeAll
  <2> HIDE DEF t, s, v
  <2>4. \A q \in Live(t.lval) : q \in Live(st.lval) /\ ChunkAt(t.lval, q) = ChunkAt(st.lval, q)
    BY <2>3 DEF Kept
  <2>5. ASSUME NEW q \in Live(t.lval) PROVE ChunkAt(st.lval, q).next \notin S
    <3>1. SUFFICES ASSUME NEW j \in 1..n, ChunkAt(st.lval, q).next = s[j] PROVE FALSE
      OBVIOUS
    <3>2. CASE j = 1
      BY <1>3, <2>1, <2>4, <3>1, <3>2 DEF Headed
    <3>3. CASE j # 1
      <4>1. j - 1 \in 1..n /\ j - 1 # n /\ (j - 1) + 1 = j
        BY <2>1, <3>3
      <4>2. s[j - 1] \in Live(st.lval) /\ ChunkAt(st.lval, s[j - 1]).next = s[j]
        BY <2>1, <4>1
      <4>3. s[j] # NoRef
        BY <2>1, ChunkAssumption DEF Live
      <4>4. q # s[j - 1]
        BY <2>3, <4>1
      <4>5. QED
        BY <1>1, <2>4, <3>1, <4>2, <4>3, <4>4 DEF Unjoined
    <3>4. QED
      BY <3>2, <3>3
  <2>6. Linked(t.lval)
    <3>1. ASSUME NEW q \in Live(t.lval)
          PROVE  LET c == ChunkAt(t.lval, q)
                 IN IF c.piece[2] = Len(Pieces(c.piece[1])) THEN c.next = NoRef
                    ELSE /\ c.next \in Live(t.lval)
                         /\ ChunkAt(t.lval, c.next).piece = <<c.piece[1], c.piece[2] + 1>>
      <4> DEFINE c == ChunkAt(st.lval, q)
      <4>1. q \in Live(st.lval) /\ ChunkAt(t.lval, q) = c /\ c.next \notin S
        BY <2>4, <2>5
      <4>2. IF c.piece[2] = Len(Pieces(c.piece[1])) THEN c.next = NoRef
            ELSE /\ c.next \in Live(st.lval)
                 /\ ChunkAt(st.lval, c.next).piece = <<c.piece[1], c.piece[2] + 1>>
        BY <1>1, <4>1 DEF Linked
      <4> HIDE DEF c
      <4>3. c.next \in Live(st.lval) => c.next \in Live(t.lval)
        BY <2>3, <4>1
      <4>4. QED
        BY <2>4, <4>1, <4>2, <4>3
    <3>2. QED
      BY <3>1 DEF Linked
  <2>7. Unjoined(t.lval)
    BY <1>1, <2>4 DEF Unjoined
  <2>8. Sized(t.lval)
    BY <1>1, <2>4 DEF Sized
  <2>9. Typed(t.lval) /\ t.used \subseteq Pages
    BY <2>3 DEF Stores, Typed
  <2>10. ASSUME NEW e \in Descs, Headed(st.lval, e), e.ref # d.ref PROVE Headed(t.lval, e)
    <3>1. e.ref \in Live(st.lval) /\ ChunkAt(st.lval, e.ref).piece[2] = 1
      BY <2>10 DEF Headed
    <3>2. e.ref \notin S
      <4>1. ASSUME NEW j \in 1..n, e.ref = s[j] PROVE FALSE
        <5>1. ChunkAt(st.lval, e.ref).piece = <<v, j>>
          BY <2>1, <4>1
        <5>2. j = 1
          <6>1. <<v, j>>[2] = 1
            BY <3>1, <5>1
          <6>2. QED
            BY <6>1
        <5>3. QED
          BY <2>1, <2>10, <4>1, <5>2
      <4>2. QED
        BY <4>1
    <3>3. e.ref \in Live(t.lval) /\ ChunkAt(t.lval, e.ref) = ChunkAt(st.lval, e.ref)
      BY <2>3, <2>4, <3>1, <3>2
    <3>4. \A q \in Live(t.lval) : ChunkAt(t.lval, q).next # e.ref
      BY <2>4, <2>10 DEF Headed
    <3>5. QED
      BY <2>10, <3>3, <3>4 DEF Headed
  <2>11. QED
    BY <1>3, <2>3, <2>6, <2>7, <2>8, <2>9, <2>10 DEF StoreInv, t
<1>4. QED
  BY <1>2, <1>3

-----------------------------------------------------------------------------
(* A value is written *)

\* The chunk t.ref, with the piece x, was put in front of the chunk st.ref.
Longer(st, t, x) ==
  /\ t \in Stores /\ t.ok = st.ok /\ StoreInv(t.lval, t.used)
  /\ t.ref \notin Live(st.lval) /\ Live(t.lval) = Live(st.lval) \cup {t.ref}
  /\ Kept(st.lval, t.lval)
  /\ ChunkAt(t.lval, t.ref).piece = x /\ ChunkAt(t.lval, t.ref).next = st.ref
  /\ \A q \in Live(t.lval) : ChunkAt(t.lval, q).next # t.ref

\* One more chunk in front of a chain, or the last of a new one.
LEMMA Lengthened ==
  ASSUME NEW st \in Stores, StoreInv(st.lval, st.used),
         NEW v \in Values, NEW k \in 1..Len(Pieces(v)), NEW len \in 1..ChunkMax, Target(st, len) # {},
         k = Len(Pieces(v)) => st.ref = NoRef,
         k # Len(Pieces(v)) => /\ st.ref \in Live(st.lval) /\ len = ChunkMax
                               /\ ChunkAt(st.lval, st.ref).piece = <<v, k + 1>>
                               /\ \A q \in Live(st.lval) : ChunkAt(st.lval, q).next # st.ref,
         k > 1 => len >= NextLen + 1,
         NEW t, t = Alloc(st, len, <<v, k>>)
  PROVE  Longer(st, t, <<v, k>>)
<1> DEFINE n == Len(Pieces(v))
<1>1. /\ Typed(st.lval) /\ Linked(st.lval) /\ Unjoined(st.lval) /\ Sized(st.lval) /\ Roomy(st.lval)
      /\ Accounted(st.lval, st.used)
  BY DEF StoreInv
<1>2. <<v, k>> \in AllPieces /\ n \in Nat /\ k \in Nat
  BY PieceFacts
<1>3. /\ t \in Stores /\ t.ok = st.ok
      /\ t.ref \in Refs /\ t.ref \notin Live(st.lval)
      /\ Live(t.lval) = Live(st.lval) \cup {t.ref}
      /\ Kept(st.lval, t.lval)
      /\ ChunkAt(t.lval, t.ref) = [live |-> TRUE, len |-> len, piece |-> <<v, k>>, next |-> st.ref]
      /\ Roomy(t.lval) /\ Accounted(t.lval, t.used)
  <2> DEFINE a == Alloc(st, len, <<v, k>>)
  <2>1. /\ a \in Stores /\ a.ok = st.ok
        /\ a.ref \in Refs /\ a.ref \notin Live(st.lval)
        /\ Live(a.lval) = Live(st.lval) \cup {a.ref}
        /\ Kept(st.lval, a.lval)
        /\ ChunkAt(a.lval, a.ref) = [live |-> TRUE, len |-> len, piece |-> <<v, k>>, next |-> st.ref]
        /\ Roomy(a.lval) /\ Accounted(a.lval, a.used)
    BY <1>1, <1>2, AllocFacts
  <2>2. t = a
    OBVIOUS
  <2> HIDE DEF a
  <2>3. QED
    BY <2>1, <2>2
<1> HIDE DEF n
<1>4. \A q \in Live(st.lval) : q \in Live(t.lval) /\ ChunkAt(t.lval, q) = ChunkAt(st.lval, q)
  BY <1>3 DEF Kept
<1>5. /\ ChunkAt(t.lval, t.ref).len = len /\ ChunkAt(t.lval, t.ref).piece = <<v, k>>
      /\ ChunkAt(t.lval, t.ref).next = st.ref
  BY <1>3
<1>6. NoRef \notin Live(st.lval) /\ NoRef \notin Live(t.lval) /\ t.ref # NoRef
  BY <1>3, ChunkAssumption DEF Live
<1>7. \A q \in Live(st.lval) : ChunkAt(st.lval, q).next \in Live(st.lval) \cup {NoRef}
  BY <1>1 DEF Linked
<1>8. \A q \in Live(t.lval) : ChunkAt(t.lval, q).next # t.ref
  <2>1. \A q \in Live(st.lval) : ChunkAt(t.lval, q).next # t.ref
    BY <1>3, <1>4, <1>6, <1>7
  <2>2. st.ref # t.ref
    BY <1>3, <1>6 DEF n
  <2>3. QED
    BY <1>3, <1>5, <2>1, <2>2
<1>9. Linked(t.lval)
  <2>1. ASSUME NEW q \in Live(t.lval)
        PROVE  LET c == ChunkAt(t.lval, q)
               IN IF c.piece[2] = Len(Pieces(c.piece[1])) THEN c.next = NoRef
                  ELSE /\ c.next \in Live(t.lval)
                       /\ ChunkAt(t.lval, c.next).piece = <<c.piece[1], c.piece[2] + 1>>
    <3> DEFINE c == ChunkAt(t.lval, q)
    <3>1. CASE q = t.ref
      <4>1. c.piece[1] = v /\ c.piece[2] = k /\ c.next = st.ref
        BY <1>5, <3>1
      <4> HIDE DEF c
      <4>2. CASE k = Len(Pieces(v))
        BY <4>1, <4>2 DEF c
      <4>3. CASE k # Len(Pieces(v))
        <5>1. st.ref \in Live(t.lval) /\ ChunkAt(t.lval, st.ref).piece = <<v, k + 1>>
          BY <1>4, <4>3
        <5>2. QED
          BY <4>1, <4>3, <5>1 DEF c
      <4>4. QED
        BY <4>2, <4>3
    <3>2. CASE q # t.ref
      <4>1. q \in Live(st.lval) /\ ChunkAt(t.lval, q) = ChunkAt(st.lval, q)
        BY <1>3, <1>4, <3>2
      <4> HIDE DEF c
      <4>2. IF c.piece[2] = Len(Pieces(c.piece[1])) THEN c.next = NoRef
            ELSE /\ c.next \in Live(st.lval)
                 /\ ChunkAt(st.lval, c.next).piece = <<c.piece[1], c.piece[2] + 1>>
        BY <1>1, <4>1 DEF Linked, c
      <4>3. QED
        BY <1>4, <4>2 DEF c
    <3>3. QED
      BY <3>1, <3>2
  <2>2. QED
    BY <2>1 DEF Linked
<1>10. Unjoined(t.lval)
  <2>1. ASSUME NEW q \in Live(t.lval), NEW r \in Live(t.lval), q # r, ChunkAt(t.lval, q).next # NoRef
        PROVE  ChunkAt(t.lval, q).next # ChunkAt(t.lval, r).next
    <3>1. CASE q # t.ref /\ r # t.ref
      BY <1>1, <1>3, <1>4, <2>1, <3>1 DEF Unjoined
    <3>2. st.ref # NoRef => \A p \in Live(st.lval) : ChunkAt(st.lval, p).next # st.ref
      OBVIOUS
    <3>3. CASE q = t.ref
      BY <1>3, <1>4, <1>5, <2>1, <3>2, <3>3
    <3>4. CASE r = t.ref
      BY <1>3, <1>4, <1>5, <2>1, <3>2, <3>4
    <3>5. QED
      BY <3>1, <3>3, <3>4
  <2>2. QED
    BY <2>1 DEF Unjoined
<1>11. Sized(t.lval)
  <2>1. ASSUME NEW q \in Live(t.lval)
        PROVE  /\ ChunkAt(t.lval, q).next # NoRef => ChunkAt(t.lval, q).len = ChunkMax
               /\ ChunkAt(t.lval, q).piece[2] > 1 => ChunkAt(t.lval, q).len >= NextLen + 1
    <3>1. CASE q = t.ref
      BY <1>5, <3>1
    <3>2. CASE q # t.ref
      BY <1>1, <1>3, <1>4, <3>2 DEF Sized
    <3>3. QED
      BY <3>1, <3>2
  <2>2. QED
    BY <2>1 DEF Sized
<1>12. Typed(t.lval) /\ t.used \subseteq Pages
  BY <1>3 DEF Stores, Typed
<1>13. QED
  BY <1>3, <1>5, <1>8, <1>9, <1>10, <1>11, <1>12 DEF StoreInv, Longer

\* The chunks of a value, last to first.
LEMMA PlanFacts ==
  ASSUME NEW v \in Values
  PROVE  LET n == Len(Pieces(v))
             s == Plan(v)
         IN /\ n \in Nat \ {0} /\ DOMAIN s = 1..n
            /\ \A k \in 1..n : /\ s[k].piece = <<v, n + 1 - k>> /\ s[k].len \in 1..ChunkMax
                               /\ k > 1 => s[k].len = ChunkMax
                               /\ n + 1 - k > 1 => s[k].len >= NextLen + 1
<1> DEFINE n == Len(Pieces(v))
           s == Plan(v)
<1>1. /\ LenOf[v] \in Nat \ {0} /\ PayloadMax \in Nat \ {0} /\ NextLen \in Nat
      /\ ChunkMax = PayloadMax + NextLen /\ ChunkMax \in Nat
  BY ChunkAssumption DEF ChunkMax
<1>2. /\ n \in Nat \ {0}
      /\ LenOf[v] <= ChunkMax => n = 1
      /\ LenOf[v] > ChunkMax => /\ \A k \in 1..n : PieceLen(v, k) \in 1..PayloadMax
                                /\ \A k \in 1..n : k # n => PieceLen(v, k) = PayloadMax
  BY PieceFacts
<1>3. CASE LenOf[v] <= ChunkMax
  <2>1. s = <<[len |-> LenOf[v], piece |-> <<v, 1>>]>>
    BY <1>3 DEF Plan
  <2>2. n = 1
    BY <1>2, <1>3
  <2> HIDE DEF s, n
  <2>3. DOMAIN s = 1..1 /\ s[1].len = LenOf[v] /\ s[1].piece = <<v, 1>>
    BY <2>1
  <2>4. \A k \in 1..1 : k = 1
    OBVIOUS
  <2>5. n + 1 - 1 = 1 /\ ~ (1 > 1)
    BY <2>2
  <2>6. LenOf[v] \in 1..ChunkMax
    BY <1>1, <1>3
  <2>7. QED
    BY <1>2, <2>2, <2>3, <2>4, <2>5, <2>6 DEF s, n
<1>4. CASE ~ (LenOf[v] <= ChunkMax)
  <2>1. s = [k \in 1..n |-> [len |-> NextLen + PieceLen(v, n + 1 - k), piece |-> <<v, n + 1 - k>>]]
    BY <1>4 DEF Plan
  <2>2. LenOf[v] > ChunkMax
    BY <1>1, <1>4
  <2> HIDE DEF s, n
  <2>3. ASSUME NEW k \in 1..n
        PROVE  /\ s[k].piece = <<v, n + 1 - k>> /\ s[k].len \in 1..ChunkMax
               /\ k > 1 => s[k].len = ChunkMax
               /\ n + 1 - k > 1 => s[k].len >= NextLen + 1
    <3>1. n + 1 - k \in 1..n /\ (k > 1 => n + 1 - k # n)
      BY <1>2
    <3>2. PieceLen(v, n + 1 - k) \in 1..PayloadMax /\ (k > 1 => PieceLen(v, n + 1 - k) = PayloadMax)
      BY <1>2, <2>2, <3>1
    <3> DEFINE l == PieceLen(v, n + 1 - k)
    <3> HIDE DEF l
    <3>3. l \in 1..PayloadMax /\ (k > 1 => l = PayloadMax)
      BY <3>2 DEF l
    <3>4. s[k].len = NextLen + l /\ s[k].piece = <<v, n + 1 - k>>
      BY <2>1 DEF l
    <3>5. NextLen + l \in 1..ChunkMax /\ NextLen + l >= NextLen + 1 /\ (k > 1 => NextLen + l = ChunkMax)
      BY <1>1, <3>3
    <3>6. QED
      BY <3>4, <3>5
  <2>4. DOMAIN s = 1..n
    BY <2>1
  <2>5. QED
    BY <1>2, <2>3, <2>4 DEF s, n
<1>5. QED
  BY <1>3, <1>4

\* The last m chunks of v are in the store u, and nothing else is new since st.
Stored(st, v, u, m) ==
  /\ StoreInv(u.lval, u.used)
  /\ Live(st.lval) \subseteq Live(u.lval) /\ Kept(st.lval, u.lval)
  /\ \A q \in Live(u.lval) \ Live(st.lval) : ChunkAt(u.lval, q).next \notin Live(st.lval)
  /\ m = 0 => u.ref = NoRef
  /\ m > 0 => /\ u.ref \in Live(u.lval) \ Live(st.lval)
              /\ ChunkAt(u.lval, u.ref).piece = <<v, Len(Pieces(v)) + 1 - m>>
              /\ \A q \in Live(u.lval) : ChunkAt(u.lval, q).next # u.ref

LEMMA StoreStep ==
  ASSUME NEW st, NEW v \in Values, NEW m \in Nat, m + 1 <= Len(Pieces(v)),
         NEW u \in Stores, Stored(st, v, u, m),
         NEW k, k = Len(Pieces(v)) - m, NEW len \in 1..ChunkMax, Target(u, len) # {},
         m + 1 > 1 => len = ChunkMax, k > 1 => len >= NextLen + 1,
         NEW w, w = Alloc(u, len, <<v, k>>)
  PROVE  w \in Stores /\ Stored(st, v, w, m + 1)
<1> DEFINE n == Len(Pieces(v))
<1>1. n \in Nat
  BY PieceFacts
<1>2. k \in 1..n /\ (k = n <=> m = 0) /\ (k # n => m > 0 /\ m + 1 > 1) /\ n + 1 - m = k + 1
      /\ m + 1 # 0 /\ m + 1 > 0 /\ n + 1 - (m + 1) = k
  BY <1>1
<1>3. StoreInv(u.lval, u.used)
  BY DEF Stored
<1>4. k = n => u.ref = NoRef
  BY <1>2 DEF Stored
<1>5. k # n => /\ u.ref \in Live(u.lval) /\ len = ChunkMax
               /\ ChunkAt(u.lval, u.ref).piece = <<v, k + 1>>
               /\ \A q \in Live(u.lval) : ChunkAt(u.lval, q).next # u.ref
               /\ u.ref \notin Live(st.lval)
  BY <1>2 DEF Stored
<1>6. /\ w \in Stores /\ w.ok = u.ok /\ StoreInv(w.lval, w.used)
      /\ w.ref \notin Live(u.lval) /\ Live(w.lval) = Live(u.lval) \cup {w.ref}
      /\ Kept(u.lval, w.lval)
      /\ ChunkAt(w.lval, w.ref).piece = <<v, k>> /\ ChunkAt(w.lval, w.ref).next = u.ref
      /\ \A q \in Live(w.lval) : ChunkAt(w.lval, q).next # w.ref
  <2>1. Longer(u, w, <<v, k>>)
    BY <1>2, <1>3, <1>4, <1>5, Lengthened
  <2>2. QED
    BY <2>1 DEF Longer
<1> HIDE DEF n
<1>7. /\ Live(st.lval) \subseteq Live(u.lval) /\ Kept(st.lval, u.lval)
      /\ \A q \in Live(u.lval) \ Live(st.lval) : ChunkAt(u.lval, q).next \notin Live(st.lval)
  BY DEF Stored
<1>8. Kept(st.lval, w.lval) /\ \A q \in Live(u.lval) : ChunkAt(w.lval, q) = ChunkAt(u.lval, q)
  BY <1>6, <1>7 DEF Kept
<1>9. u.ref \notin Live(st.lval)
  <2>1. NoRef \notin Live(st.lval)
    BY ChunkAssumption DEF Live
  <2>2. QED
    BY <1>4, <1>5, <2>1
<1>10. \A q \in Live(w.lval) \ Live(st.lval) : ChunkAt(w.lval, q).next \notin Live(st.lval)
  BY <1>6, <1>7, <1>8, <1>9
<1>11. w.ref \in Live(w.lval) \ Live(st.lval)
  BY <1>6, <1>7
<1>12. Stored(st, v, w, m + 1)
  BY <1>2, <1>6, <1>7, <1>8, <1>10, <1>11 DEF Stored, n
<1>13. QED
  BY <1>6, <1>12

LEMMA ChunkSteps ==
  ASSUME NEW base, NEW s, NEW n \in Nat, DOMAIN s = 1..n
  PROVE  \E h : ByChunk!Steps(0, h, base, s, n) /\ ByChunk!FoldTable(0, base, s)[DOMAIN s] = h[n]
  BY ByChunk!FoldSteps

\* A value that found room is a chain of its own, beside what was there.
LEMMA StoreFacts ==
  ASSUME NEW st \in Stores, StoreInv(st.lval, st.used), NEW v \in Values
  PROVE  LET t == Store(st, v)
         IN t \in Stores /\ (t.ok => Stored(st, v, t, Len(Pieces(v))))
<1> DEFINE n == Len(Pieces(v))
           s == Plan(v)
           base == [st EXCEPT !.ref = NoRef]
           t == Store(st, v)
           After(u, m) == u \in Stores /\ (u.ok => Stored(st, v, u, m))
<1>1. /\ n \in Nat \ {0} /\ DOMAIN s = 1..n
      /\ \A k \in 1..n : /\ s[k].piece = <<v, n + 1 - k>> /\ s[k].len \in 1..ChunkMax
                         /\ k > 1 => s[k].len = ChunkMax
                         /\ n + 1 - k > 1 => s[k].len >= NextLen + 1
  BY PlanFacts
<1>2. t = ByChunk!FoldTable(0, base, s)[DOMAIN s]
  BY DEF Store, FoldLeft, MapThenFoldSet, ByChunk!FoldTable, ByChunk!IsTable, ByChunk!FoldBy, Max, ByChunk!Max, ThenStore, StoreChunk
<1>3. /\ base \in Stores /\ base.ref = NoRef /\ base.lval = st.lval /\ base.used = st.used
  BY DEF Stores
<1> HIDE DEF n, s, base, t
<1>4. PICK h : ByChunk!Steps(0, h, base, s, n) /\ ByChunk!FoldTable(0, base, s)[DOMAIN s] = h[n]
  BY <1>1, ChunkSteps
<1>5. h[0] = base /\ \A k \in 1..n : h[k] = StoreChunk(h[k - 1], s[k])
  BY <1>4 DEF ByChunk!Steps, ThenStore
<1> DEFINE P == {m \in Nat : m <= n => After(h[m], m)}
<1>6. 0 \in P
  <2>1. Kept(st.lval, base.lval)
    BY <1>3 DEF Kept
  <2>2. Stored(st, v, base, 0)
    BY <1>3, <2>1 DEF Stored
  <2>3. QED
    BY <1>3, <1>5, <2>2
<1>7. ASSUME NEW m \in Nat, m \in P PROVE m + 1 \in P
  <2>1. SUFFICES ASSUME m + 1 <= n PROVE After(h[m + 1], m + 1)
    OBVIOUS
  <2>2. m + 1 \in 1..n /\ m <= n /\ (m + 1) - 1 = m /\ n + 1 - (m + 1) = n - m
    BY <1>1, <2>1
  <2>3. PICK u : u = h[m] /\ After(u, m)
    BY <1>7, <2>2
  <2>4. PICK w : w = h[m + 1] /\ w = StoreChunk(u, s[m + 1])
    BY <1>5, <2>2, <2>3
  <2>5. PICK len, k : len = s[m + 1].len /\ k = n - m
    OBVIOUS
  <2>6. /\ s[m + 1].piece = <<v, k>> /\ len \in 1..ChunkMax
        /\ m + 1 > 1 => len = ChunkMax
        /\ k > 1 => len >= NextLen + 1
    BY <1>1, <2>2, <2>5
  <2>7. w = IF u.ok /\ Target(u, len) # {} THEN Alloc(u, len, <<v, k>>) ELSE [u EXCEPT !.ok = FALSE]
    BY <2>4, <2>5, <2>6 DEF StoreChunk
  <2>8. u \in Stores /\ (u.ok => Stored(st, v, u, m))
    BY <2>3
  <2>9. CASE ~ (u.ok /\ Target(u, len) # {})
    <3>1. w = [u EXCEPT !.ok = FALSE]
      BY <2>7, <2>9
    <3>2. w \in Stores /\ w.ok = FALSE
      BY <2>8, <3>1 DEF Stores
    <3>3. QED
      BY <2>4, <3>2
  <2>10. CASE u.ok /\ Target(u, len) # {}
    <3>1. w = Alloc(u, len, <<v, k>>)
      BY <2>7, <2>10
    <3>2. w \in Stores /\ Stored(st, v, w, m + 1)
      BY <2>1, <2>5, <2>6, <2>8, <2>10, <3>1, StoreStep DEF n
    <3>3. QED
      BY <2>4, <3>2
  <2>11. QED
    BY <2>9, <2>10
<1> HIDE DEF P
<1>8. n \in P
  BY <1>1, <1>6, <1>7, Inductive
<1>9. After(t, n)
  BY <1>1, <1>2, <1>4, <1>8 DEF P
<1>10. QED
  BY <1>9 DEF t, n

\* A value that was written is where its descriptor says, beside all others.
LEMMA WriteFacts ==
  ASSUME NEW st \in Stores, StoreInv(st.lval, st.used), NEW v \in Values, Write(st, v).st.ok
  PROVE  LET t == Write(st, v).st
             d == Write(st, v).desc
         IN /\ t \in Stores /\ StoreInv(t.lval, t.used) /\ d \in Descs
            /\ Live(st.lval) \subseteq Live(t.lval) /\ Kept(st.lval, t.lval)
            /\ \A e \in Descs : Headed(st.lval, e) => Headed(t.lval, e)
            /\ d.flag = "inline" => d.value = Pieces(v)
            /\ d.flag # "inline" => /\ Headed(t.lval, d) /\ d.ref \notin Live(st.lval)
                                    /\ ChunkAt(t.lval, d.ref).piece[1] = v
<1> DEFINE t == Write(st, v).st
           d == Write(st, v).desc
<1>1. CASE LenOf[v] <= InlineMax
  <2>1. t = st /\ d = Inline(v)
    BY <1>1 DEF Write
  <2> HIDE DEF t, d
  <2>2. Kept(st.lval, t.lval)
    BY <2>1 DEF Kept
  <2>3. d.flag = "inline" /\ d.value = Pieces(v) /\ d \in Descs
    BY <2>1 DEF Inline, Descs
  <2>4. QED
    BY <2>1, <2>2, <2>3 DEF t, d
<1>2. CASE ~ (LenOf[v] <= InlineMax)
  <2> DEFINE f == IF LenOf[v] <= ChunkMax THEN "single" ELSE "multi"
  <2>1. t = Store(st, v) /\ d = [flag |-> f, value |-> <<>>, ref |-> Store(st, v).ref]
    BY <1>2 DEF Write
  <2>2. t.ok
    OBVIOUS
  <2> HIDE DEF t, d
  <2>3. /\ t \in Stores /\ StoreInv(t.lval, t.used)
        /\ Live(st.lval) \subseteq Live(t.lval) /\ Kept(st.lval, t.lval)
        /\ \A q \in Live(t.lval) \ Live(st.lval) : ChunkAt(t.lval, q).next \notin Live(st.lval)
        /\ t.ref \in Live(t.lval) \ Live(st.lval)
        /\ ChunkAt(t.lval, t.ref).piece = <<v, 1>>
        /\ \A q \in Live(t.lval) : ChunkAt(t.lval, q).next # t.ref
    <3> DEFINE n == Len(Pieces(v))
    <3>1. t \in Stores /\ Stored(st, v, t, n)
      BY <2>1, <2>2, StoreFacts
    <3>2. n \in Nat /\ n > 0 /\ n + 1 - n = 1
      BY PieceFacts
    <3>3. QED
      BY <3>1, <3>2 DEF Stored
  <2>4. d.flag = f /\ d.ref = t.ref /\ d.flag # "inline" /\ d.flag \in {"single", "multi"}
    BY <2>1
  <2>5. d \in Descs
    <3>1. t.ref \in Refs
      BY <2>3 DEF Live
    <3>2. QED
      BY <2>1, <3>1 DEF Descs
  <2>6. Headed(t.lval, d)
    BY <2>3, <2>4 DEF Headed
  <2>7. ASSUME NEW e \in Descs, Headed(st.lval, e) PROVE Headed(t.lval, e)
    <3>1. e.ref \in Live(st.lval) /\ \A q \in Live(st.lval) : ChunkAt(st.lval, q).next # e.ref
      BY <2>7 DEF Headed
    <3>2. \A q \in Live(st.lval) : q \in Live(t.lval) /\ ChunkAt(t.lval, q) = ChunkAt(st.lval, q)
      BY <2>3 DEF Kept
    <3>3. \A q \in Live(t.lval) : ChunkAt(t.lval, q).next # e.ref
      BY <2>3, <3>1, <3>2
    <3>4. QED
      BY <2>7, <3>1, <3>2, <3>3 DEF Headed
  <2>8. QED
    BY <2>3, <2>4, <2>5, <2>6, <2>7 DEF t, d
<1>3. QED
  BY <1>1, <1>2

-----------------------------------------------------------------------------
(* The rows *)

LEMMA RowFacts ==
  ASSUME NEW rs \in Seq(Row)
  PROVE  /\ Len(rs) \in Nat /\ DOMAIN rs = 1..Len(rs)
         /\ \A j \in DOMAIN rs : rs[j] \in Row /\ rs[j].desc \in Descs
<1>1. Len(rs) \in Nat /\ DOMAIN rs = 1..Len(rs) /\ \A j \in DOMAIN rs : rs[j] \in Row
  OBVIOUS
<1>2. \A row \in Row : row.desc \in Descs
  BY DEF Row
<1>3. QED
  BY <1>1, <1>2

ValueOf(pages, d) == IF d.flag = "inline" THEN d.value ELSE Pieces(ChunkAt(pages, d.ref).piece[1])

\* The value of a row is freed, those of other rows stay.
LEMMA FreeRowFacts ==
  ASSUME NEW st \in Stores, StoreInv(st.lval, st.used), rows \in Seq(Row),
         NEW I, I \subseteq DOMAIN rows, Held(st.lval, rows, I),
         NEW i \in DOMAIN rows, rows[i].alive => i \in I
  PROVE  LET t == FreeRow(st, i)
         IN /\ t \in Stores /\ t.ok = st.ok /\ t.ref = st.ref /\ StoreInv(t.lval, t.used)
            /\ Held(t.lval, rows, I \ {i})
            /\ \A j \in I \ {i} : ValueOf(t.lval, rows[j].desc) = ValueOf(st.lval, rows[j].desc)
<1> DEFINE t == FreeRow(st, i)
           d == rows[i].desc
<1>1. \A j \in DOMAIN rows : rows[j].desc \in Descs
  BY RowFacts
<1>2. CASE ~ (rows[i].alive /\ Found(i))
  <2>1. t = st
    BY <1>2 DEF FreeRow
  <2>2. Held(st.lval, rows, I \ {i})
    BY DEF Held
  <2> HIDE DEF t
  <2>3. QED
    BY <2>1, <2>2 DEF t
<1>3. CASE rows[i].alive /\ Found(i)
  <2>1. t = FreeValue(st, d) /\ i \in I
    BY <1>3 DEF FreeRow
  <2>2. d \in Descs /\ (d.flag # "inline" => Headed(st.lval, d))
    BY <1>1, <2>1 DEF Held
  <2> HIDE DEF t, d
  <2>3. /\ t \in Stores /\ t.ok = st.ok /\ t.ref = st.ref /\ StoreInv(t.lval, t.used)
        /\ Kept(st.lval, t.lval)
        /\ \A e \in Descs : Headed(st.lval, e) /\ (d.flag # "inline" => e.ref # d.ref)
                            => Headed(t.lval, e)
    BY <2>1, <2>2, FreeFacts
  <2>4. ASSUME NEW j \in I \ {i}, rows[j].desc.flag # "inline"
        PROVE  /\ Headed(t.lval, rows[j].desc)
               /\ ChunkAt(t.lval, rows[j].desc.ref) = ChunkAt(st.lval, rows[j].desc.ref)
    <3>1. Headed(st.lval, rows[j].desc) /\ (d.flag # "inline" => rows[j].desc.ref # d.ref)
      BY <2>1, <2>4 DEF Held, d
    <3>2. Headed(t.lval, rows[j].desc)
      BY <1>1, <2>3, <3>1
    <3>3. QED
      BY <2>3, <3>1, <3>2 DEF Headed, Kept
  <2>5. Held(t.lval, rows, I \ {i})
    BY <2>4 DEF Held
  <2>6. \A j \in I \ {i} : ValueOf(t.lval, rows[j].desc) = ValueOf(st.lval, rows[j].desc)
    BY <2>4 DEF ValueOf
  <2>7. QED
    BY <2>3, <2>5, <2>6 DEF t
<1>4. QED
  BY <1>2, <1>3

\* A value is written beside those of the rows in I.
LEMMA PutFacts ==
  ASSUME NEW st \in Stores, StoreInv(st.lval, st.used), rows \in Seq(Row),
         NEW I, I \subseteq DOMAIN rows, Held(st.lval, rows, I),
         NEW v \in Values, Write(st, v).st.ok
  PROVE  LET t == Write(st, v).st
             d == Write(st, v).desc
         IN /\ t \in Stores /\ StoreInv(t.lval, t.used) /\ d \in Descs
            /\ d.flag # "inline" => Headed(t.lval, d)
            /\ ValueOf(t.lval, d) = Pieces(v)
            /\ Held(t.lval, rows, I)
            /\ \A j \in I : ValueOf(t.lval, rows[j].desc) = ValueOf(st.lval, rows[j].desc)
            /\ \A j \in I : d.flag # "inline" /\ rows[j].desc.flag # "inline"
                            => d.ref # rows[j].desc.ref
<1> DEFINE t == Write(st, v).st
           d == Write(st, v).desc
<1>1. /\ t \in Stores /\ StoreInv(t.lval, t.used) /\ d \in Descs
      /\ Live(st.lval) \subseteq Live(t.lval) /\ Kept(st.lval, t.lval)
      /\ \A e \in Descs : Headed(st.lval, e) => Headed(t.lval, e)
      /\ d.flag = "inline" => d.value = Pieces(v)
      /\ d.flag # "inline" => /\ Headed(t.lval, d) /\ d.ref \notin Live(st.lval)
                              /\ ChunkAt(t.lval, d.ref).piece[1] = v
  BY WriteFacts
<1> HIDE DEF t, d
<1>2. \A j \in I : rows[j].desc \in Descs
  BY RowFacts
<1>3. \A j \in I : rows[j].desc.flag # "inline" =>
        /\ Headed(t.lval, rows[j].desc) /\ rows[j].desc.ref \in Live(st.lval)
        /\ ChunkAt(t.lval, rows[j].desc.ref) = ChunkAt(st.lval, rows[j].desc.ref)
  BY <1>1, <1>2 DEF Held, Headed, Kept
<1>4. Held(t.lval, rows, I)
  BY <1>3 DEF Held
<1>5. \A j \in I : ValueOf(t.lval, rows[j].desc) = ValueOf(st.lval, rows[j].desc)
  BY <1>3 DEF ValueOf
<1>6. ValueOf(t.lval, d) = Pieces(v)
  BY <1>1 DEF ValueOf
<1>7. QED
  BY <1>1, <1>3, <1>4, <1>5, <1>6 DEF t, d

LEMMA StateFacts ==
  ASSUME LInv
  PROVE  /\ State \in Stores /\ State.lval = lval /\ State.used = used /\ State.ok = TRUE
         /\ StoreInv(State.lval, State.used) /\ Held(State.lval, rows, Alive)
         /\ rows \in Seq(Row) /\ Alive \subseteq DOMAIN rows
  BY DEF LInv, StoreInv, Typed, State, Stores, Alive

\* Freeing the values of all rows.
LEMMA DropFacts ==
  ASSUME LInv
  PROVE  LET t == FoldLeft(FreeRow, State, [i \in DOMAIN rows |-> i])
         IN t \in Stores /\ StoreInv(t.lval, t.used)
<1> DEFINE s == [i \in DOMAIN rows |-> i]
           n == Len(rows)
           t == FoldLeft(FreeRow, State, s)
           Rest1(m) == {j \in Alive : j > m}
           After(u, m) == u \in Stores /\ StoreInv(u.lval, u.used) /\ Held(u.lval, rows, Rest1(m))
<1>1. rows \in Seq(Row) /\ n \in Nat /\ DOMAIN rows = 1..n /\ Alive \subseteq 1..n
  BY StateFacts
<1>2. DOMAIN s = 1..n /\ \A k \in 1..n : s[k] = k
  BY <1>1
<1>3. t = ByRow!FoldTable(0, State, s)[DOMAIN s]
  BY DEF FoldLeft, MapThenFoldSet, ByRow!FoldTable, ByRow!IsTable, ByRow!FoldBy, Max, ByRow!Max, ThenFreeRow
<1> HIDE DEF n, s, t
<1>4. PICK h : ByRow!Steps(0, h, State, s, n) /\ ByRow!FoldTable(0, State, s)[DOMAIN s] = h[n]
  BY <1>1, <1>2, ByRow!FoldSteps
<1>5. h[0] = State /\ \A k \in 1..n : h[k] = FreeRow(h[k - 1], s[k])
  BY <1>4 DEF ByRow!Steps, ThenFreeRow
<1> DEFINE P == {m \in Nat : m <= n => After(h[m], m)}
<1>6. 0 \in P
  <2>1. Rest1(0) = Alive
    <3>1. \A j \in Alive : j > 0
      BY <1>1
    <3>2. QED
      BY <3>1
  <2>2. QED
    BY <1>5, <2>1, StateFacts
<1>7. ASSUME NEW m \in Nat, m \in P PROVE m + 1 \in P
  <2>1. SUFFICES ASSUME m + 1 <= n PROVE After(h[m + 1], m + 1)
    OBVIOUS
  <2>2. m + 1 \in 1..n /\ m <= n /\ (m + 1) - 1 = m
    BY <1>1, <2>1
  <2>3. After(h[m], m)
    BY <1>7, <2>2
  <2>4. h[m + 1] = FreeRow(h[m], m + 1)
    BY <1>2, <1>5, <2>2
  <2>5. /\ Rest1(m) \subseteq DOMAIN rows /\ (rows[m + 1].alive => m + 1 \in Rest1(m))
        /\ Rest1(m) \ {m + 1} = Rest1(m + 1)
    <3>1. rows[m + 1].alive => m + 1 \in Alive
      BY <1>1, <2>2 DEF Alive
    <3>2. m + 1 > m /\ \A j \in 1..n : j > m /\ j # m + 1 <=> j > m + 1
      BY <1>1, <1>7
    <3>3. QED
      BY <1>1, <3>1, <3>2
  <2> DEFINE u == h[m]
             I == Rest1(m)
             t1 == FreeRow(u, m + 1)
  <2> HIDE DEF Rest1
  <2>a. u \in Stores /\ StoreInv(u.lval, u.used) /\ Held(u.lval, rows, I)
    BY <2>3
  <2>b. m + 1 \in DOMAIN rows
    BY <1>1, <2>2
  <2> HIDE DEF u, I
  <2>c. I \subseteq DOMAIN rows /\ (rows[m + 1].alive => m + 1 \in I) /\ I \ {m + 1} = Rest1(m + 1)
    BY <2>5 DEF I
  <2>d. t1 \in Stores /\ StoreInv(t1.lval, t1.used) /\ Held(t1.lval, rows, I \ {m + 1})
    BY <1>1, <2>a, <2>b, <2>c, FreeRowFacts
  <2>6. After(FreeRow(h[m], m + 1), m + 1)
    BY <2>c, <2>d DEF u
  <2>7. QED
    BY <2>4, <2>6
<1> HIDE DEF P
<1>8. n \in P
  BY <1>1, <1>6, <1>7, Inductive
<1>9. After(t, n)
  BY <1>1, <1>3, <1>4, <1>8 DEF P
<1>10. QED
  BY <1>9 DEF t, s

LEMMA LInit == Init => LInv
<1> SUFFICES ASSUME Init PROVE LInv
  OBVIOUS
<1>1. lval = [p \in Pages |-> <<>>] /\ used = {} /\ rows = <<>>
  BY DEF Init
<1>2. Typed(lval) /\ used \subseteq Pages
  BY <1>1 DEF Typed
<1>3. Live(lval) = {}
  <2>1. ASSUME NEW r \in Refs PROVE ~ Readable(lval, r)
    <3>1. r[1] \in Pages /\ r[2] \in Nat
      BY ChunkAssumption DEF Refs
    <3>2. lval[r[1]] = <<>>
      BY <1>1, <3>1
    <3>3. ~ (r[2] < Len(lval[r[1]]))
      BY <3>1, <3>2
    <3>4. QED
      BY <3>3 DEF Readable
  <2>2. QED
    BY <2>1 DEF Live
<1>4. Linked(lval) /\ Unjoined(lval) /\ Sized(lval)
  BY <1>3 DEF Linked, Unjoined, Sized
<1>5. Roomy(lval) /\ Accounted(lval, used)
  BY <1>1 DEF Roomy, Accounted
<1>6. rows \in Seq(Row) /\ Alive = {}
  BY <1>1 DEF Alive
<1>7. QED
  BY <1>2, <1>4, <1>5, <1>6 DEF LInv, StoreInv, Held

LEMMA ReadsAs ==
  ASSUME NEW pages, NEW taken, StoreInv(pages, taken), NEW rs \in Seq(Row),
         NEW I, Held(pages, rs, I), NEW j \in DOMAIN rs, j \in I
  PROVE  ReadValue(pages, rs[j].desc) = ValueOf(pages, rs[j].desc)
<1>1. rs[j].desc \in Descs
  BY RowFacts
<1>2. rs[j].desc.flag # "inline" => Headed(pages, rs[j].desc)
  BY DEF Held
<1>3. QED
  BY <1>1, <1>2, ReadIs DEF StoreInv, ValueOf

\* What an Insert leaves: the rows that were, and one more with the value v.
LEMMA InsertStep ==
  ASSUME LInv, NEW v \in Values, Insert(v)
  PROVE  /\ LInv' /\ DOMAIN rows' = 1..(Len(rows) + 1) /\ Alive' = Alive \cup {Len(rows) + 1}
         /\ \A j \in Alive : ValueOf(lval', rows'[j].desc) = ValueOf(lval, rows[j].desc)
         /\ ValueOf(lval', rows'[Len(rows) + 1].desc) = Pieces(v)
<1> DEFINE n == Len(rows)
           t == Write(State, v).st
           d == Write(State, v).desc
           row == [alive |-> TRUE, packed |-> FALSE, desc |-> d]
<1>1. t.ok /\ lval' = t.lval /\ used' = t.used /\ rows' = Append(rows, row)
  BY DEF Insert, Becomes
<1>2. rows \in Seq(Row) /\ Alive \subseteq DOMAIN rows /\ n \in Nat /\ DOMAIN rows = 1..n
  BY StateFacts
<1>3. /\ t \in Stores /\ StoreInv(t.lval, t.used) /\ d \in Descs
      /\ d.flag # "inline" => Headed(t.lval, d)
      /\ ValueOf(t.lval, d) = Pieces(v)
      /\ Held(t.lval, rows, Alive)
      /\ \A j \in Alive : ValueOf(t.lval, rows[j].desc) = ValueOf(State.lval, rows[j].desc)
      /\ \A j \in Alive : d.flag # "inline" /\ rows[j].desc.flag # "inline"
                          => d.ref # rows[j].desc.ref
  BY <1>1, StateFacts, PutFacts
<1> HIDE DEF t, d, n
<1>4. row \in Row /\ row.alive /\ row.desc = d
  BY <1>3 DEF Row
<1> HIDE DEF row
<1>5. /\ rows' \in Seq(Row) /\ DOMAIN rows' = 1..(n + 1) /\ rows'[n + 1] = row
      /\ \A j \in 1..n : rows'[j] = rows[j]
  BY <1>1, <1>2, <1>4 DEF n
<1>6. Alive' = Alive \cup {n + 1}
  <2>1. 1..(n + 1) = (1..n) \cup {n + 1}
    BY <1>2
  <2>2. Alive' = {j \in 1..(n + 1) : rows'[j].alive}
    BY <1>5 DEF Alive
  <2>3. Alive = {j \in 1..n : rows[j].alive}
    BY <1>2 DEF Alive
  <2>4. QED
    BY <1>4, <1>5, <2>1, <2>2, <2>3
<1>7. n + 1 \notin Alive /\ \A j \in Alive : rows'[j] = rows[j]
  BY <1>2, <1>5
<1>8. Held(lval', rows', Alive')
  <2>1. ASSUME NEW j \in Alive', rows'[j].desc.flag # "inline" PROVE Headed(lval', rows'[j].desc)
    <3>1. CASE j = n + 1
      BY <1>1, <1>3, <1>4, <1>5, <2>1, <3>1
    <3>2. CASE j \in Alive
      BY <1>1, <1>3, <1>7, <2>1, <3>2 DEF Held
    <3>3. QED
      BY <1>6, <3>1, <3>2
  <2>2. ASSUME NEW j \in Alive', NEW k \in Alive', j # k,
               rows'[j].desc.flag # "inline", rows'[k].desc.flag # "inline"
        PROVE  rows'[j].desc.ref # rows'[k].desc.ref
    <3>1. CASE j \in Alive /\ k \in Alive
      BY <1>3, <1>7, <2>2, <3>1 DEF Held
    <3>2. CASE j = n + 1 /\ k \in Alive
      BY <1>3, <1>4, <1>5, <1>7, <2>2, <3>2
    <3>3. CASE k = n + 1 /\ j \in Alive
      BY <1>3, <1>4, <1>5, <1>7, <2>2, <3>3
    <3>4. QED
      BY <1>6, <2>2, <3>1, <3>2, <3>3
  <2>3. QED
    BY <2>1, <2>2 DEF Held
<1>9. LInv'
  <2>1. StoreInv(lval', used')
    BY <1>1, <1>3
  <2>2. QED
    BY <1>5, <1>8, <2>1 DEF LInv
<1>10. \A j \in Alive : ValueOf(lval', rows'[j].desc) = ValueOf(lval, rows[j].desc)
  BY <1>1, <1>3, <1>7, StateFacts
<1>11. ValueOf(lval', rows'[n + 1].desc) = Pieces(v)
  BY <1>1, <1>3, <1>4, <1>5
<1>12. QED
  BY <1>5, <1>6, <1>9, <1>10, <1>11 DEF n

\* What an Update of row i leaves: every row but i has the value it had, and i has v.
LEMMA UpdateStep ==
  ASSUME LInv, NEW i \in DOMAIN rows, NEW v \in Values, Update(i, v)
  PROVE  /\ LInv' /\ DOMAIN rows' = DOMAIN rows /\ Alive' = Alive /\ i \in Alive
         /\ \A j \in Alive \ {i} : ValueOf(lval', rows'[j].desc) = ValueOf(lval, rows[j].desc)
         /\ ValueOf(lval', rows'[i].desc) = Pieces(v)
<1> DEFINE I == Alive \ {i}
           u == FreeRow(State, i)
           t == Write(u, v).st
           d == Write(u, v).desc
<1>1. rows[i].alive /\ t.ok /\ lval' = t.lval /\ used' = t.used
  BY DEF Update, Becomes
<1>2. rows \in Seq(Row) /\ Alive \subseteq DOMAIN rows /\ i \in Alive
  BY <1>1, StateFacts DEF Alive
<1>3. /\ u \in Stores /\ StoreInv(u.lval, u.used) /\ Held(u.lval, rows, I)
      /\ \A j \in I : ValueOf(u.lval, rows[j].desc) = ValueOf(State.lval, rows[j].desc)
  BY <1>2, StateFacts, FreeRowFacts
<1>4. I \subseteq DOMAIN rows
  BY <1>2
<1> HIDE DEF u, I
<1>5. /\ t \in Stores /\ StoreInv(t.lval, t.used) /\ d \in Descs
      /\ d.flag # "inline" => Headed(t.lval, d)
      /\ ValueOf(t.lval, d) = Pieces(v)
      /\ Held(t.lval, rows, I)
      /\ \A j \in I : ValueOf(t.lval, rows[j].desc) = ValueOf(u.lval, rows[j].desc)
      /\ \A j \in I : d.flag # "inline" /\ rows[j].desc.flag # "inline"
                      => d.ref # rows[j].desc.ref
  BY <1>1, <1>2, <1>3, <1>4, PutFacts
<1>6. rows' = [j \in DOMAIN rows |-> IF j = i THEN [rows[i] EXCEPT !.desc = d]
                                     ELSE [rows[j] EXCEPT !.packed = ~ rows[j].alive]]
  BY DEF Update, u
<1> HIDE DEF t, d
<1>7. \A j \in DOMAIN rows : rows[j] \in Row
  BY <1>2
<1>8. /\ DOMAIN rows' = DOMAIN rows
      /\ rows'[i] \in Row /\ rows'[i].alive = rows[i].alive /\ rows'[i].desc = d
      /\ \A j \in DOMAIN rows \ {i} : /\ rows'[j] \in Row /\ rows'[j].alive = rows[j].alive
                                      /\ rows'[j].desc = rows[j].desc
  <2>1. \A j \in DOMAIN rows \ {i} : rows'[j] = [rows[j] EXCEPT !.packed = ~ rows[j].alive]
    BY <1>6
  <2>2. rows'[i] = [rows[i] EXCEPT !.desc = d]
    BY <1>6
  <2>3. /\ rows'[i] \in Row /\ rows'[i].alive = rows[i].alive /\ rows'[i].desc = d
    BY <1>5, <1>7, <2>2 DEF Row
  <2>4. ASSUME NEW j \in DOMAIN rows \ {i}
        PROVE  rows'[j] \in Row /\ rows'[j].alive = rows[j].alive /\ rows'[j].desc = rows[j].desc
    <3> DEFINE row == rows[j]
               b == ~ row.alive
    <3>1. row \in Row /\ b \in BOOLEAN /\ rows'[j] = [row EXCEPT !.packed = b]
      BY <1>7, <2>1
    <3> HIDE DEF row, b
    <3>2. rows'[j] \in Row /\ rows'[j].alive = row.alive /\ rows'[j].desc = row.desc
      BY <3>1 DEF Row
    <3>3. QED
      BY <3>2 DEF row
  <2>5. DOMAIN rows' = DOMAIN rows
    BY <1>6
  <2>6. QED
    BY <2>3, <2>4, <2>5
<1>9. rows' \in Seq(Row)
  <2>1. DOMAIN rows' = 1..Len(rows) /\ Len(rows) \in Nat
    BY <1>2, <1>8
  <2>2. \A j \in 1..Len(rows) : rows'[j] \in Row
    BY <1>8, <2>1
  <2>3. rows' = [j \in 1..Len(rows) |-> rows'[j]]
    BY <1>6, <2>1
  <2>4. QED
    BY <2>1, <2>2, <2>3
<1>10. Alive' = Alive
  BY <1>8 DEF Alive
<1>11. \A j \in I : j # i /\ rows'[j].desc = rows[j].desc /\ Alive = I \cup {i}
  BY <1>2, <1>8 DEF I
<1>12. Held(lval', rows', Alive')
  <2>1. ASSUME NEW j \in Alive, rows'[j].desc.flag # "inline" PROVE Headed(lval', rows'[j].desc)
    <3>1. CASE j = i
      BY <1>1, <1>5, <1>8, <2>1, <3>1
    <3>2. CASE j # i
      <4>1. j \in I
        BY <3>2 DEF I
      <4>2. QED
        BY <1>1, <1>5, <1>11, <2>1, <4>1 DEF Held
    <3>3. QED
      BY <3>1, <3>2
  <2>2. ASSUME NEW j \in Alive, NEW k \in Alive, j # k,
               rows'[j].desc.flag # "inline", rows'[k].desc.flag # "inline"
        PROVE  rows'[j].desc.ref # rows'[k].desc.ref
    <3>1. CASE j # i /\ k # i
      <4>1. j \in I /\ k \in I
        BY <3>1 DEF I
      <4>2. QED
        BY <1>5, <1>11, <2>2, <4>1 DEF Held
    <3>2. CASE j = i
      <4>1. k \in I
        BY <2>2, <3>2 DEF I
      <4>2. QED
        BY <1>5, <1>8, <1>11, <2>2, <3>2, <4>1
    <3>3. CASE k = i
      <4>1. j \in I
        BY <2>2, <3>3 DEF I
      <4>2. QED
        BY <1>5, <1>8, <1>11, <2>2, <3>3, <4>1
    <3>4. QED
      BY <3>1, <3>2, <3>3
  <2>3. QED
    BY <1>10, <2>1, <2>2 DEF Held
<1>13. LInv'
  <2>1. StoreInv(lval', used')
    BY <1>1, <1>5
  <2>2. QED
    BY <1>9, <1>12, <2>1 DEF LInv
<1>14. ASSUME NEW j \in Alive \ {i} PROVE ValueOf(lval', rows'[j].desc) = ValueOf(lval, rows[j].desc)
  <2>1. j \in I
    BY DEF I
  <2>2. QED
    BY <1>1, <1>3, <1>5, <1>11, <2>1, StateFacts
<1>15. ValueOf(lval', rows'[i].desc) = Pieces(v)
  BY <1>1, <1>5, <1>8
<1>16. QED
  BY <1>2, <1>8, <1>10, <1>13, <1>14, <1>15

\* What a Delete of row i leaves: every other row has the value it had.
LEMMA DeleteStep ==
  ASSUME LInv, NEW i \in DOMAIN rows, Delete(i)
  PROVE  /\ LInv' /\ DOMAIN rows' = DOMAIN rows /\ Alive' = Alive \ {i} /\ i \in Alive
         /\ \A j \in Alive \ {i} : ValueOf(lval', rows'[j].desc) = ValueOf(lval, rows[j].desc)
<1> DEFINE I == Alive \ {i}
           t == FreeRow(State, i)
<1>1. rows[i].alive /\ lval' = t.lval /\ used' = t.used /\ rows' = [rows EXCEPT ![i].alive = FALSE]
  BY DEF Delete, Becomes
<1>2. rows \in Seq(Row) /\ Alive \subseteq DOMAIN rows /\ i \in Alive
  BY <1>1, StateFacts DEF Alive
<1>3. /\ t \in Stores /\ StoreInv(t.lval, t.used) /\ Held(t.lval, rows, I)
      /\ \A j \in I : ValueOf(t.lval, rows[j].desc) = ValueOf(State.lval, rows[j].desc)
  BY <1>2, StateFacts, FreeRowFacts
<1> HIDE DEF t
<1>4. rows[i] \in Row
  BY <1>2
<1>5. /\ rows' \in Seq(Row) /\ DOMAIN rows' = DOMAIN rows /\ ~ rows'[i].alive
      /\ \A j \in DOMAIN rows \ {i} : rows'[j] = rows[j]
  <2> DEFINE row == [rows[i] EXCEPT !.alive = FALSE]
  <2>1. row \in Row /\ ~ row.alive
    BY <1>4 DEF Row
  <2>2. rows' = [rows EXCEPT ![i] = row]
    BY <1>1
  <2> HIDE DEF row
  <2>3. QED
    BY <1>2, <2>1, <2>2
<1>6. Alive' = I
  BY <1>5 DEF Alive
<1>7. \A j \in I : rows'[j] = rows[j]
  BY <1>2, <1>5
<1> HIDE DEF I
<1>8. Held(lval', rows', Alive')
  BY <1>1, <1>3, <1>6, <1>7 DEF Held
<1>9. LInv'
  <2>1. StoreInv(lval', used')
    BY <1>1, <1>3
  <2>2. QED
    BY <1>5, <1>8, <2>1 DEF LInv
<1>10. \A j \in I : ValueOf(lval', rows'[j].desc) = ValueOf(lval, rows[j].desc)
  BY <1>1, <1>3, <1>7, StateFacts
<1>11. QED
  BY <1>2, <1>5, <1>6, <1>9, <1>10 DEF I

LEMMA DropStep ==
  ASSUME LInv, DropTable
  PROVE  LInv' /\ rows' = <<>>
<1> DEFINE t == FoldLeft(FreeRow, State, [i \in DOMAIN rows |-> i])
<1>1. lval' = t.lval /\ used' = t.used /\ rows' = <<>>
  BY DEF DropTable, Becomes
<1>2. StoreInv(t.lval, t.used)
  BY DropFacts
<1> HIDE DEF t
<1>3. Alive' = {} /\ rows' \in Seq(Row)
  BY <1>1 DEF Alive
<1>4. StoreInv(lval', used') /\ Held(lval', rows', Alive')
  BY <1>1, <1>2, <1>3 DEF Held
<1>5. QED
  BY <1>1, <1>3, <1>4 DEF LInv

LEMMA LNext == LInv /\ [Next]_vars => LInv'
<1> SUFFICES ASSUME LInv, [Next]_vars PROVE LInv'
  OBVIOUS
<1>1. CASE \E v \in Values : Insert(v)
  BY <1>1, InsertStep
<1>2. CASE \E i \in DOMAIN rows : Delete(i)
  BY <1>2, DeleteStep
<1>3. CASE \E i \in DOMAIN rows, v \in Values : Update(i, v)
  BY <1>3, UpdateStep
<1>4. CASE DropTable
  BY <1>4, DropStep
<1>5. CASE UNCHANGED vars
  <2>1. lval' = lval /\ used' = used /\ rows' = rows
    BY <1>5 DEF vars
  <2>2. Alive' = Alive
    BY <2>1 DEF Alive
  <2>3. QED
    BY <2>1, <2>2 DEF LInv
<1>6. QED
  BY <1>1, <1>2, <1>3, <1>4, <1>5 DEF Next

-----------------------------------------------------------------------------
(* What holds in every state *)

\* Chains keep their form, every value its chain, and the usage map its account, whatever
\* writeLongValue and freeLongValue are called with.
THEOREM ChainInvariance == Spec => []LInv
<1>1. QED
  BY LInit, LNext, PTL DEF Spec

\* The pages, the usage map and the rows have their types: no chunk refers to a page or a
\* record outside the database.
THEOREM TypeCorrect == Spec => []TypeOK
<1>1. LInv => TypeOK
  BY DEF LInv, StoreInv, Typed, TypeOK
<1>2. QED
  BY <1>1, ChainInvariance, PTL

\* A page is taken as long as a chunk on it lives, and free as soon as none does: what
\* allocateLVALSlot and freeLVALSlot tell the usage map is what is on the pages.
THEOREM AccountTrue == Spec => []PagesAccounted
<1>1. LInv => PagesAccounted
  BY DEF LInv, StoreInv, Accounted, PagesAccounted
<1>2. QED
  BY <1>1, ChainInvariance, PTL

\* No chain has two chunks on a page, so the readers' test for circles
\* (readMultiLongValue, freeLongValue) never cuts one short.
THEOREM SpreadTrue == Spec => []ChainsSpread
<1>1. LInv => ChainsSpread
  <2> SUFFICES ASSUME LInv, NEW r \in LiveRefs
               PROVE  LET refs == Chain(lval, r)
                          last == refs[Len(refs)]
                      IN Readable(lval, last) /\ ChunkAt(lval, last).next = NoRef
    BY DEF ChainsSpread
  <2> DEFINE s == Chain(lval, r)
             v == ChunkAt(lval, r).piece[1]
             k == ChunkAt(lval, r).piece[2]
             n == Len(Pieces(v))
  <2>1. Typed(lval) /\ Linked(lval) /\ Sized(lval) /\ Roomy(lval) /\ r \in Live(lval)
    BY DEF LInv, StoreInv, LiveRefs, Live
  <2>2. Links(lval, r, s)
    BY <2>1, ChainFacts
  <2>3. v \in Values /\ k \in 1..n
    BY <2>1, ReadableFacts, PieceOf
  <2>4. n \in Nat
    BY <2>3, PieceFacts
  <2>5. /\ Len(s) = n - k + 1
        /\ \A j \in 1..Len(s) : /\ s[j] \in Live(lval)
                                /\ ChunkAt(lval, s[j]).next = IF j = Len(s) THEN NoRef ELSE s[j + 1]
    BY <2>2 DEF Links
  <2> HIDE DEF s, v, k, n
  <2>6. Len(s) \in 1..Len(s)
    BY <2>3, <2>4, <2>5
  <2>7. s[Len(s)] \in Live(lval) /\ ChunkAt(lval, s[Len(s)]).next = NoRef
    BY <2>5, <2>6
  <2>8. QED
    BY <2>7 DEF Live, s
<1>2. QED
  BY <1>1, ChainInvariance, PTL

\* Two rows never reach the same chunk: whatever is freed and allocated again for one row
\* is not taken from another.
THEOREM UnsharedTrue == Spec => []ChunksUnshared
<1>1. LInv => ChunksUnshared
  <2> SUFFICES ASSUME LInv PROVE ChunksUnshared
    OBVIOUS
  <2>1. /\ Typed(lval) /\ Linked(lval) /\ Unjoined(lval) /\ Sized(lval) /\ Roomy(lval)
        /\ Held(lval, rows, Alive) /\ rows \in Seq(Row)
    BY DEF LInv, StoreInv
  <2>2. ASSUME NEW i \in External
        PROVE  LET s == Chain(lval, rows[i].desc.ref)
                   v == ChunkAt(lval, rows[i].desc.ref).piece[1]
               IN /\ i \in Alive /\ rows[i].desc.flag # "inline" /\ Headed(lval, rows[i].desc)
                  /\ Reached(i) = {s[j] : j \in 1..Len(s)} /\ s[1] = rows[i].desc.ref
                  /\ Len(s) \in Nat
                  /\ \A j \in 1..Len(s) : /\ s[j] \in Live(lval)
                                          /\ ChunkAt(lval, s[j]).piece = <<v, j>>
                                          /\ ChunkAt(lval, s[j]).next = IF j = Len(s) THEN NoRef ELSE s[j + 1]
    <3> DEFINE d == rows[i].desc
               s == Chain(lval, d.ref)
    <3>1. i \in Alive /\ d.flag # "inline"
      BY DEF External
    <3>2. d \in Descs
      BY <2>1, <3>1, RowFacts DEF Alive
    <3>3. Headed(lval, d)
      BY <2>1, <3>1 DEF Held
    <3>4. /\ RefsOf(lval, d) = s /\ Len(s) \in Nat /\ DOMAIN s = 1..Len(s) /\ s[1] = d.ref
          /\ \A j \in 1..Len(s) :
               /\ s[j] \in Live(lval)
               /\ ChunkAt(lval, s[j]).piece = <<ChunkAt(lval, d.ref).piece[1], j>>
               /\ ChunkAt(lval, s[j]).next = IF j = Len(s) THEN NoRef ELSE s[j + 1]
      <4> HIDE DEF d
      <4>1. QED
        BY <2>1, <3>1, <3>2, <3>3, HeadFacts
    <3>5. Reached(i) = ToSet(s)
      BY <3>4 DEF Reached, RefsOf
    <3> HIDE DEF s
    <3>6. ToSet(s) = {s[j] : j \in 1..Len(s)}
      BY <3>4 DEF ToSet
    <3>7. QED
      BY <3>1, <3>3, <3>4, <3>5, <3>6 DEF s
  <2>3. ASSUME NEW i \in External, NEW j \in External, i # j PROVE Reached(i) \cap Reached(j) = {}
    <3> DEFINE s == Chain(lval, rows[i].desc.ref)
               z == Chain(lval, rows[j].desc.ref)
               v == ChunkAt(lval, rows[i].desc.ref).piece[1]
               w == ChunkAt(lval, rows[j].desc.ref).piece[1]
               P == {m \in Nat : m + 1 \in 1..Len(s) /\ m + 1 \in 1..Len(z) => s[m + 1] # z[m + 1]}
    <3>1. /\ i \in Alive /\ rows[i].desc.flag # "inline"
          /\ Reached(i) = {s[a] : a \in 1..Len(s)} /\ s[1] = rows[i].desc.ref /\ Len(s) \in Nat
          /\ \A a \in 1..Len(s) : /\ s[a] \in Live(lval) /\ ChunkAt(lval, s[a]).piece = <<v, a>>
                                  /\ ChunkAt(lval, s[a]).next = IF a = Len(s) THEN NoRef ELSE s[a + 1]
      BY <2>2
    <3>2. /\ j \in Alive /\ rows[j].desc.flag # "inline"
          /\ Reached(j) = {z[a] : a \in 1..Len(z)} /\ z[1] = rows[j].desc.ref /\ Len(z) \in Nat
          /\ \A a \in 1..Len(z) : /\ z[a] \in Live(lval) /\ ChunkAt(lval, z[a]).piece = <<w, a>>
                                  /\ ChunkAt(lval, z[a]).next = IF a = Len(z) THEN NoRef ELSE z[a + 1]
      BY <2>2
    <3>3. rows[i].desc.ref # rows[j].desc.ref
      BY <2>1, <2>3, <3>1, <3>2 DEF Held
    <3> HIDE DEF s, z, v, w
    <3>4. 0 \in P
      BY <3>1, <3>2, <3>3
    <3>5. ASSUME NEW m \in Nat, m \in P PROVE m + 1 \in P
      <4>1. SUFFICES ASSUME m + 2 \in 1..Len(s), m + 2 \in 1..Len(z), s[m + 2] = z[m + 2] PROVE FALSE
        <5>1. (m + 1) + 1 = m + 2
          OBVIOUS
        <5>2. QED
          BY <5>1
      <4>2. m + 1 \in 1..Len(s) /\ m + 1 \in 1..Len(z) /\ m + 1 # Len(s) /\ m + 1 # Len(z)
            /\ (m + 1) + 1 = m + 2
        BY <3>1, <3>2, <4>1
      <4>3. s[m + 1] # z[m + 1]
        BY <3>5, <4>2
      <4>4. /\ s[m + 1] \in Live(lval) /\ ChunkAt(lval, s[m + 1]).next = s[m + 2]
            /\ z[m + 1] \in Live(lval) /\ ChunkAt(lval, z[m + 1]).next = z[m + 2]
        BY <3>1, <3>2, <4>2
      <4>5. s[m + 2] # NoRef
        <5>1. s[m + 2] \in Live(lval)
          BY <3>1, <4>1
        <5>2. QED
          BY <5>1, ChunkAssumption DEF Live
      <4>6. QED
        BY <2>1, <4>1, <4>3, <4>4, <4>5 DEF Unjoined
    <3> HIDE DEF P
    <3>6. Nat \subseteq P
      BY <3>4, <3>5, Inductive
    <3>7. ASSUME NEW a \in 1..Len(s), NEW b \in 1..Len(z), s[a] = z[b] PROVE FALSE
      <4>1. <<v, a>> = <<w, b>>
        BY <3>1, <3>2, <3>7
      <4>2. a = b /\ a - 1 \in Nat /\ (a - 1) + 1 = a
        BY <3>1, <4>1
      <4>3. a - 1 \in P
        BY <3>6, <4>2
      <4>4. s[a] # z[a]
        BY <4>2, <4>3 DEF P
      <4>5. QED
        BY <3>7, <4>2, <4>4
    <3>8. QED
      BY <3>1, <3>2, <3>7
  <2>4. \A r, q \in LiveRefs : r # q /\ ChunkAt(lval, r).next # NoRef
                               => ChunkAt(lval, r).next # ChunkAt(lval, q).next
    BY <2>1 DEF Unjoined, LiveRefs, Live
  <2>5. \A i \in External, r \in LiveRefs : ChunkAt(lval, r).next # rows[i].desc.ref
    BY <2>2 DEF Headed, LiveRefs, Live
  <2>6. QED
    BY <2>3, <2>4, <2>5 DEF ChunksUnshared
<1>2. QED
  BY <1>1, ChainInvariance, PTL

-----------------------------------------------------------------------------
(* The values of the rows: LongValue implements LongStore *)

Vals(pages, rs) == [i \in DOMAIN rs |-> IF rs[i].alive THEN ReadValue(pages, rs[i].desc) ELSE Gone]

LEMMA ValsAre ==
  ASSUME NEW pages, NEW taken, StoreInv(pages, taken), NEW rs \in Seq(Row),
         NEW I, I = {i \in DOMAIN rs : rs[i].alive}, Held(pages, rs, I)
  PROVE  /\ DOMAIN Vals(pages, rs) = DOMAIN rs
         /\ \A i \in DOMAIN rs : Vals(pages, rs)[i] = IF i \in I THEN ValueOf(pages, rs[i].desc) ELSE Gone
<1>1. \A i \in I : ReadValue(pages, rs[i].desc) = ValueOf(pages, rs[i].desc)
  BY ReadsAs
<1>2. QED
  BY <1>1 DEF Vals

LEMMA ValueIs ==
  ASSUME NEW pages, Typed(pages), NEW d \in Descs, d.flag # "inline" => Headed(pages, d)
  PROVE  ValueOf(pages, d) \in {Pieces(v) : v \in Values} /\ ValueOf(pages, d) # Gone
<1>1. ValueOf(pages, d) \in {Pieces(v) : v \in Values}
  <2>1. CASE d.flag = "inline"
    <3>1. \E v \in Values : d = Inline(v)
      BY <2>1 DEF Descs
    <3>2. QED
      BY <2>1, <3>1 DEF ValueOf, Inline
  <2>2. CASE d.flag # "inline"
    <3>1. ChunkAt(pages, d.ref).piece[1] \in Values
      BY <2>2, ReadableFacts, PieceOf DEF Headed
    <3>2. QED
      BY <2>2, <3>1 DEF ValueOf
  <2>3. QED
    BY <2>1, <2>2
<1>2. QED
  BY <1>1, ChunkAssumption

\* Every row reads back, in full, the value it was last given, whatever is written to,
\* freed for or dropped with other rows: the store of long values implements a function
\* from rows to values.
THEOREM ReadsBackTrue == Spec => ValuesReadBack
<1>1. Init => Values1!Init
  <2> SUFFICES ASSUME Init PROVE Values1!Init
    OBVIOUS
  <2>1. DOMAIN rows = {}
    BY DEF Init
  <2>2. QED
    BY <2>1 DEF Values1!Init
<1>2. ASSUME LInv, LInv', [Next]_vars PROVE [Values1!Next]_(Values1!vars)
  <2> DEFINE was == Vals(lval, rows)
             now == Vals(lval', rows')
             Contents == {Pieces(v) : v \in Values}
  <2>1. /\ DOMAIN was = DOMAIN rows
        /\ \A i \in DOMAIN rows : was[i] = IF i \in Alive THEN ValueOf(lval, rows[i].desc) ELSE Gone
    BY <1>2, ValsAre DEF LInv, Alive
  <2>2. /\ DOMAIN now = DOMAIN rows'
        /\ \A i \in DOMAIN rows' : now[i] = IF i \in Alive' THEN ValueOf(lval', rows'[i].desc) ELSE Gone
    BY <1>2, ValsAre DEF LInv, Alive
  <2>3. /\ Values1!vars = was /\ (Values1!vars)' = now
        /\ Values1!Insert <=> \E c \in Contents : now = Append(was, c)
        /\ \A i, E : Values1!Change(i, E) <=> /\ was[i] # Gone
                                              /\ DOMAIN now = DOMAIN was
                                              /\ now[i] \in E
                                              /\ \A j \in DOMAIN was \ {i} : now[j] = was[j]
        /\ Values1!Drop <=> now = <<>>
    BY DEF Values1!vars, Values1!Insert, Values1!Change, Values1!Drop, Vals
  <2>4. rows \in Seq(Row) /\ DOMAIN rows = 1..Len(rows) /\ Len(rows) \in Nat
    BY <1>2 DEF LInv
  <2>5. \A i \in Alive : was[i] # Gone /\ i \in DOMAIN rows
    <3>1. ASSUME NEW i \in Alive PROVE ValueOf(lval, rows[i].desc) # Gone /\ i \in DOMAIN rows
      <4>1. i \in DOMAIN rows /\ rows[i].desc \in Descs
        BY <2>4, RowFacts DEF Alive
      <4>2. Typed(lval) /\ (rows[i].desc.flag # "inline" => Headed(lval, rows[i].desc))
        BY <1>2 DEF LInv, StoreInv, Held
      <4>3. QED
        BY <4>1, <4>2, ValueIs
    <3>2. QED
      BY <2>1, <3>1
  <2> HIDE DEF was, now
  <2>6. ASSUME NEW v \in Values, Insert(v) PROVE Values1!Next
    <3>1. /\ DOMAIN rows' = 1..(Len(rows) + 1) /\ Alive' = Alive \cup {Len(rows) + 1}
          /\ \A j \in Alive : ValueOf(lval', rows'[j].desc) = ValueOf(lval, rows[j].desc)
          /\ ValueOf(lval', rows'[Len(rows) + 1].desc) = Pieces(v)
      BY <1>2, <2>6, InsertStep
    <3>2. DOMAIN now = 1..(Len(rows) + 1) /\ now[Len(rows) + 1] = Pieces(v)
      BY <2>2, <2>4, <3>1
    <3>3. ASSUME NEW j \in 1..Len(rows) PROVE now[j] = was[j]
      <4>1. j \in DOMAIN rows /\ j \in DOMAIN rows' /\ (j \in Alive' <=> j \in Alive)
        BY <2>4, <3>1
      <4>2. QED
        BY <2>1, <2>2, <3>1, <4>1
    <3>4. now = Append(was, Pieces(v))
      <4>1. was \in Seq(Contents \cup {Gone}) /\ Len(was) = Len(rows)
        <5>1. \A i \in DOMAIN rows : was[i] \in Contents \cup {Gone}
          <6>1. ASSUME NEW i \in Alive PROVE ValueOf(lval, rows[i].desc) \in Contents
            <7>1. i \in DOMAIN rows /\ rows[i].desc \in Descs
              BY <2>4, RowFacts DEF Alive
            <7>2. Typed(lval) /\ (rows[i].desc.flag # "inline" => Headed(lval, rows[i].desc))
              BY <1>2 DEF LInv, StoreInv, Held
            <7>3. QED
              BY <7>1, <7>2, ValueIs
          <6>2. QED
            BY <2>1, <6>1
        <5>2. was = [i \in 1..Len(rows) |-> was[i]]
          BY <2>1, <2>4 DEF was, Vals
        <5> HIDE DEF Contents
        <5>3. QED
          BY <2>4, <5>1, <5>2
      <4>2. now = [i \in 1..(Len(rows) + 1) |-> now[i]]
        BY <3>2 DEF now, Vals
      <4> DEFINE c == Pieces(v)
      <4> HIDE DEF c, Contents
      <4>3. c \in Contents \cup {Gone}
        BY DEF c, Contents
      <4>4. now[Len(rows) + 1] = c
        BY <3>2 DEF c
      <4>5. now = Append(was, c)
        <5> DEFINE S == Contents \cup {Gone}
                   n == Len(was)
        <5>1. was \in Seq(S) /\ c \in S /\ n = Len(rows)
          BY <4>1, <4>3
        <5>2. /\ now = [k \in 1..(n + 1) |-> now[k]] /\ now[n + 1] = c
              /\ \A k \in 1..n : now[k] = was[k]
          BY <3>3, <4>2, <4>4, <5>1
        <5> HIDE DEF S
        <5>3. \A k \in 1..(n + 1) : now[k] \in S
          <6>1. \A k \in 1..(n + 1) : k \in 1..n \/ k = n + 1
            BY <2>4, <5>1
          <6>2. \A k \in 1..n : was[k] \in S
            BY <5>1
          <6>3. QED
            BY <5>1, <5>2, <6>1, <6>2
        <5>4. now \in Seq(S) /\ Len(now) = n + 1
          BY <2>4, <5>1, <5>2, <5>3
        <5> HIDE DEF n
        <5>5. now[n + 1] = c /\ \A k \in 1..n : now[k] = was[k]
          BY <5>2
        <5>6. QED
          BY <5>1, <5>4, <5>5 DEF n
      <4>6. QED
        BY <4>5 DEF c
    <3>5. Values1!Insert
      BY <2>3, <3>4
    <3>6. QED
      BY <3>5 DEF Values1!Next
  <2>7. ASSUME NEW i \in DOMAIN rows, NEW v \in Values, Update(i, v) PROVE Values1!Next
    <3>1. /\ DOMAIN rows' = DOMAIN rows /\ Alive' = Alive /\ i \in Alive
          /\ \A j \in Alive \ {i} : ValueOf(lval', rows'[j].desc) = ValueOf(lval, rows[j].desc)
          /\ ValueOf(lval', rows'[i].desc) = Pieces(v)
      BY <1>2, <2>7, UpdateStep
    <3>2. was[i] # Gone /\ DOMAIN now = DOMAIN was /\ now[i] = Pieces(v) /\ i \in DOMAIN was
      BY <2>1, <2>2, <2>5, <3>1
    <3>3. \A j \in DOMAIN was \ {i} : now[j] = was[j]
      BY <2>1, <2>2, <3>1
    <3>4. Values1!Change(i, Contents)
      BY <2>3, <3>2, <3>3
    <3>5. Values1!Update
      BY <2>1, <2>3, <3>4 DEF Values1!Update, was, Vals
    <3>6. QED
      BY <3>5 DEF Values1!Next
  <2>8. ASSUME NEW i \in DOMAIN rows, Delete(i) PROVE Values1!Next
    <3>1. /\ DOMAIN rows' = DOMAIN rows /\ Alive' = Alive \ {i} /\ i \in Alive
          /\ \A j \in Alive \ {i} : ValueOf(lval', rows'[j].desc) = ValueOf(lval, rows[j].desc)
      BY <1>2, <2>8, DeleteStep
    <3>2. was[i] # Gone /\ DOMAIN now = DOMAIN was /\ now[i] = Gone /\ i \in DOMAIN was
      BY <2>1, <2>2, <2>5, <3>1
    <3>3. \A j \in DOMAIN was \ {i} : now[j] = was[j]
      BY <2>1, <2>2, <3>1
    <3>4. Values1!Change(i, {Gone})
      BY <2>3, <3>2, <3>3
    <3>5. Values1!Delete
      BY <2>1, <2>3, <3>4 DEF Values1!Delete, was, Vals
    <3>6. QED
      BY <3>5 DEF Values1!Next
  <2>9. ASSUME DropTable PROVE Values1!Next
    <3>1. rows' = <<>>
      BY <1>2, <2>9, DropStep
    <3>2. DOMAIN rows' = {}
      BY <3>1
    <3>3. now = <<>>
      BY <3>2 DEF now, Vals
    <3>4. QED
      BY <2>3, <3>3 DEF Values1!Next
  <2>10. CASE UNCHANGED vars
    <3>1. lval' = lval /\ rows' = rows
      BY <2>10 DEF vars
    <3>2. now = was
      BY <3>1 DEF now, was
    <3>3. QED
      BY <2>3, <3>2
  <2>11. QED
    BY <1>2, <2>6, <2>7, <2>8, <2>9, <2>10 DEF Next
<1>3. QED
  BY <1>1, <1>2, ChainInvariance, PTL DEF Spec, ValuesReadBack, Values1!Spec
=============================================================================
