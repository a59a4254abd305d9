--------------------------- MODULE TableTxnProofs ---------------------------
(***************************************************************************)
(* What holds of TableTxn for every value of its constants: its slots,     *)
(* pointers and index entries in every state, and, in the second half,     *)
(* what calls do to the rows of the table: their count, the effect of a    *)
(* call on many rows, the promise of TableStore, the free space of the     *)
(* pages, and the index entries of the rows.                               *)
(***************************************************************************)
EXTENDS TableTxn, FiniteSetTheorems, WellFoundedInduction, TLAPS

Add(e, m, x) == m + x
INSTANCE Folding WITH Op <- Add

-----------------------------------------------------------------------------
(* The inductive invariant *)

\* A page has no more slots than its directory has room for, and an unused page none.
RoomOK(d) == \A p \in Pages : /\ SlotLen * Len(d.slots[p]) + d.free[p] <= PageCap
                              /\ p \notin d.own => d.slots[p] = <<>>

\* What the fields of a slot mean for its kind.
KindOK(d) == \A a \in Addrs : Has(d, a) =>
               /\ SlotAt(d, a).kind \in {"row", "payload"} => SlotAt(d, a).key \in Keys
               /\ SlotAt(d, a).kind = "ptr" => SlotAt(d, a).to \in Addrs

IsPtr(d, a) == Has(d, a) /\ SlotAt(d, a).kind = "ptr"

\* Each overflow pointer leads to a payload, and to one of its own.
TargetsOK(d) == \A a \in Addrs : IsPtr(d, a) =>
                  Has(d, SlotAt(d, a).to) /\ SlotAt(d, SlotAt(d, a).to).kind = "payload"
UnsharedOK(d) == \A a, b \in Addrs : IsPtr(d, a) /\ IsPtr(d, b) =>
                   (SlotAt(d, a).to = SlotAt(d, b).to => a = b)

\* The index names live rows by their keys.
IdxOK(d) == \A e \in d.idx : IsRow(d, e.loc) /\ KeyAt(d, e.loc) = e.key

PagesOK(d) == d \in Databases /\ RoomOK(d) /\ KindOK(d) /\ TargetsOK(d) /\ UnsharedOK(d)

Changes == [loc : Addrs, old : Keys, key : Keys, len : Nat]

\* A planned change is still about the row it was planned for, and about no row twice.
PlanOK(d, plan) == \A c \in plan : /\ IsRow(d, c.loc)
                                   /\ KeyAt(d, c.loc) = c.old
                                   /\ \A e \in plan : e.loc = c.loc => e = c

IInv == /\ unique \in BOOLEAN
        /\ call \in {"none", "update", "delete"}
        /\ batch \subseteq Changes /\ todo \subseteq batch
        /\ PagesOK(db) /\ IdxOK(db)
        /\ PagesOK(w) /\ IdxOK(w)
        /\ PlanOK(w, todo)

-----------------------------------------------------------------------------
(* Addresses *)

\* A slot that exists has an address.
LEMMA SlotAddr ==
  ASSUME NEW d \in Databases, RoomOK(d), NEW a \in Pages \X Nat, Has(d, a)
  PROVE  a \in Addrs
<1>1. /\ a[1] \in Pages /\ a[2] \in Nat /\ a = <<a[1], a[2]>>
      /\ a[2] < Len(d.slots[a[1]])
  BY DEF Has
<1>2. /\ Len(d.slots[a[1]]) \in Nat /\ d.free[a[1]] \in Nat
      /\ SlotLen * Len(d.slots[a[1]]) + d.free[a[1]] <= PageCap
  BY <1>1 DEF Databases, RoomOK
<1>3. a[2] \in 0..PageCap /\ SlotLen * a[2] <= PageCap
  BY <1>1, <1>2, SizesAssumption DEF SlotLen
<1>4. QED
  BY <1>1, <1>3 DEF Addrs

LEMMA AddrFields ==
  ASSUME NEW a \in Addrs
  PROVE  a[1] \in Pages /\ a[2] \in Nat /\ a = <<a[1], a[2]>>
  BY SizesAssumption DEF Addrs

\* The page and the place in its directory of a slot that exists.
LEMMA SlotPlace ==
  ASSUME NEW d \in Databases, NEW a \in Addrs, Has(d, a)
  PROVE  /\ a[1] \in Pages /\ a[1] \in d.own /\ a[2] \in Nat /\ a = <<a[1], a[2]>>
         /\ d.slots[a[1]] \in Seq(Slots)
         /\ Len(d.slots[a[1]]) \in Nat
         /\ a[2] + 1 \in 1..Len(d.slots[a[1]])
<1>1. a[1] \in Pages /\ a[2] \in Nat /\ a = <<a[1], a[2]>>
  BY AddrFields
<1>2. d.slots[a[1]] \in Seq(Slots) /\ Len(d.slots[a[1]]) \in Nat
  BY <1>1 DEF Databases
<1>3. QED
  BY <1>1, <1>2 DEF Has

LEMMA SlotType ==
  ASSUME NEW d \in Databases, NEW a \in Addrs, Has(d, a)
  PROVE  SlotAt(d, a) \in Slots
  BY SlotPlace DEF SlotAt

\* Under a live row's address is a slot with its key.
LEMMA RowFacts ==
  ASSUME NEW d, PagesOK(d), NEW a \in Addrs, Has(d, a)
  PROVE  /\ IsRow(d, a) <=> SlotAt(d, a).kind \in {"row", "ptr"}
         /\ IsRow(d, a) => /\ Holder(d, a) \in Addrs
                           /\ Has(d, Holder(d, a))
                           /\ KeyAt(d, a) \in Keys /\ LenAt(d, a) \in Nat
<1>1. SlotAt(d, a) \in Slots
  BY SlotType DEF PagesOK
<1>2. CASE SlotAt(d, a).kind = "ptr"
  <2>1. SlotAt(d, a).to \in Addrs /\ Has(d, SlotAt(d, a).to)
        /\ SlotAt(d, SlotAt(d, a).to).kind = "payload"
    BY <1>2 DEF PagesOK, KindOK, TargetsOK, IsPtr
  <2>2. SlotAt(d, SlotAt(d, a).to) \in Slots
    BY <2>1, SlotType DEF PagesOK
  <2>3. SlotAt(d, SlotAt(d, a).to).key \in Keys
    BY <2>1 DEF PagesOK, KindOK
  <2>4. QED
    BY <1>2, <2>1, <2>2, <2>3 DEF IsRow, Holder, KeyAt, LenAt, Slots
<1>3. CASE SlotAt(d, a).kind # "ptr"
  BY <1>1, <1>3 DEF PagesOK, KindOK, IsRow, Holder, KeyAt, LenAt, Slots
<1>4. QED
  BY <1>2, <1>3

-----------------------------------------------------------------------------
(* The page operations *)

\* writeRowToPage adds one slot and touches no other.
LEMMA AppendFacts ==
  ASSUME NEW d \in Databases, RoomOK(d), NEW p \in Pages, NEW s \in Slots,
         CanAppend(d, p, s.len)
  PROVE  LET n == AppendSlot(d, p, s)
             a == NextAddr(d, p)
         IN /\ n \in Databases /\ RoomOK(n)
            /\ a \in Addrs /\ ~ Has(d, a) /\ Has(n, a) /\ SlotAt(n, a) = s
            /\ \A b \in Addrs : Has(d, b) => Has(n, b) /\ SlotAt(n, b) = SlotAt(d, b)
            /\ \A b \in Addrs : Has(n, b) => b = a \/ Has(d, b)
            /\ n.idx = d.idx /\ n.count = d.count
<1> DEFINE c == Claim(d, p)
           n == AppendSlot(d, p, s)
           a == NextAddr(d, p)
<1>1. /\ c \in Databases /\ RoomOK(c) /\ p \in c.own
      /\ c.slots = d.slots /\ c.own = d.own \cup {p}
      /\ c.idx = d.idx /\ c.count = d.count
  <2>1. CASE p \in d.own
    BY <2>1 DEF Claim
  <2>2. CASE p \notin d.own
    <3>1. Cardinality({q \in d.own : d.age[q] > 0}) \in Nat
      <4>1. IsFiniteSet(Pages)
        BY FS_Interval, SizesAssumption DEF Pages
      <4>2. {q \in d.own : d.age[q] > 0} \subseteq Pages
        BY DEF Databases
      <4>3. QED
        BY <4>1, <4>2, FS_Subset, FS_CardinalityType
    <3>2. Len(d.slots[p]) = 0
      BY <2>2 DEF RoomOK
    <3>3. /\ c \in Databases
          /\ c.slots = d.slots /\ c.own = d.own \cup {p}
          /\ c.free = [d.free EXCEPT ![p] = PageCap]
          /\ c.idx = d.idx /\ c.count = d.count
      <4>1. c = [d EXCEPT !.own = d.own \cup {p}, !.free[p] = PageCap,
                          !.age[p] = 1 + Cardinality({q \in d.own : d.age[q] > 0})]
        BY <2>2 DEF Claim
      <4>2. 1 + Cardinality({q \in d.own : d.age[q] > 0}) \in Nat /\ PageCap \in Nat
        BY <3>1, SizesAssumption
      <4> HIDE DEF c
      <4>3. QED
        BY <4>1, <4>2 DEF Databases
    <3>4. RoomOK(c)
      BY <3>2, <3>3, SizesAssumption DEF Databases, RoomOK, SlotLen
    <3>5. QED
      BY <3>3, <3>4
  <2>3. QED
    BY <2>1, <2>2
<1>2. /\ c.free[p] >= s.len + SlotLen
      /\ n = [c EXCEPT !.slots[p] = Append(c.slots[p], s),
                       !.free[p] = c.free[p] - (s.len + SlotLen)]
  BY DEF CanAppend, AppendSlot
<1> HIDE DEF c, n
<1>3. /\ s.len \in Nat /\ c.free[p] \in Nat
      /\ c.slots[p] \in Seq(Slots) /\ Len(c.slots[p]) \in Nat
      /\ SlotLen * Len(c.slots[p]) + c.free[p] <= PageCap
  <2>1. s.len \in Nat
    BY DEF Slots
  <2>2. c.free[p] \in Nat /\ c.slots[p] \in Seq(Slots)
    BY <1>1 DEF Databases
  <2>3. QED
    BY <1>1, <2>1, <2>2 DEF RoomOK
<1>4. c.free[p] - (s.len + SlotLen) \in Nat /\ Append(c.slots[p], s) \in Seq(Slots)
  BY <1>2, <1>3 DEF SlotLen
<1>5. /\ n \in Databases
      /\ n.slots = [c.slots EXCEPT ![p] = Append(c.slots[p], s)]
      /\ n.free = [c.free EXCEPT ![p] = c.free[p] - (s.len + SlotLen)]
      /\ n.own = c.own /\ n.idx = c.idx /\ n.count = c.count
  <2> DEFINE ss == Append(c.slots[p], s)
             f == c.free[p] - (s.len + SlotLen)
  <2>1. /\ ss \in Seq(Slots) /\ f \in Nat /\ c \in Databases
        /\ n = [c EXCEPT !.slots[p] = ss, !.free[p] = f]
    BY <1>1, <1>2, <1>4
  <2> HIDE DEF ss, f
  <2>2. /\ n \in Databases
        /\ n.slots = [c.slots EXCEPT ![p] = ss] /\ n.free = [c.free EXCEPT ![p] = f]
        /\ n.own = c.own /\ n.idx = c.idx /\ n.count = c.count
    BY <1>1, <2>1 DEF Databases
  <2>3. QED
    BY <2>2 DEF ss, f
<1>6. RoomOK(n)
  <2>1. /\ Len(Append(c.slots[p], s)) = Len(c.slots[p]) + 1
    BY <1>3
  <2>3. /\ SlotLen * (Len(c.slots[p]) + 1) + (c.free[p] - (s.len + SlotLen)) <= PageCap
    <3>1. \A len, f, l \in Nat : 2 * len + f <= PageCap => 2 * (len + 1) + (f - (l + 2)) <= PageCap
      BY SizesAssumption
    <3>2. QED
      BY <1>3, <3>1 DEF SlotLen
  <2>2. QED
    BY <1>1, <1>5, <2>1, <2>3 DEF RoomOK, Databases
<1>7. a \in Addrs /\ ~ Has(d, a) /\ Has(n, a) /\ SlotAt(n, a) = s
  <2>1. /\ Len(c.slots[p]) \in 0..PageCap /\ SlotLen * Len(c.slots[p]) <= PageCap
    BY <1>3, SizesAssumption DEF SlotLen
  <2>2. a = <<p, Len(c.slots[p])>> /\ a[1] = p /\ a[2] = Len(c.slots[p])
    BY <1>1 DEF NextAddr
  <2>3. n.slots[p] = Append(c.slots[p], s)
    BY <1>1, <1>5 DEF Databases
  <2>4. a \in Addrs
    BY <2>1, <2>2 DEF Addrs
  <2>5. QED
    BY <1>1, <1>3, <1>5, <2>2, <2>3, <2>4 DEF Has, SlotAt
<1>8. ASSUME NEW b \in Addrs
      PROVE  /\ Has(d, b) => Has(n, b) /\ SlotAt(n, b) = SlotAt(d, b)
             /\ Has(n, b) => b = a \/ Has(d, b)
  <2>1. b[1] \in Pages /\ b[2] \in Nat /\ b = <<b[1], b[2]>>
    BY AddrFields
  <2>2. CASE b[1] = p
    <3>1. n.slots[p] = Append(c.slots[p], s) /\ a = <<p, Len(c.slots[p])>>
      BY <1>1, <1>5 DEF NextAddr, Databases
    <3>2. p \notin d.own => Len(c.slots[p]) = 0
      BY <1>1 DEF RoomOK
    <3>3. QED
      BY <1>1, <1>3, <1>5, <2>1, <2>2, <3>1, <3>2 DEF Has, SlotAt
  <2>3. CASE b[1] # p
    BY <1>1, <1>5, <2>1, <2>3 DEF Has, SlotAt, Databases
  <2>4. QED
    BY <2>2, <2>3
<1>9. QED
  BY <1>1, <1>5, <1>6, <1>7, <1>8 DEF n

\* rebuildDataPage replaces one slot; the others keep their rows and their numbers.
LEMMA RebuildFacts ==
  ASSUME NEW d \in Databases, RoomOK(d), NEW a \in Addrs, Has(d, a), NEW s \in Slots,
         RebuildFits(d, a, s)
  PROVE  LET n == Rebuild(d, a, s)
         IN /\ n \in Databases /\ RoomOK(n)
            /\ SlotAt(n, a) = s
            /\ \A b \in Addrs : Has(n, b) <=> Has(d, b)
            /\ \A b \in Addrs : Has(d, b) /\ b # a =>
                 /\ SlotAt(n, b).kind = SlotAt(d, b).kind
                 /\ SlotAt(n, b).key = SlotAt(d, b).key
                 /\ SlotAt(n, b).to = SlotAt(d, b).to
            /\ n.idx = d.idx /\ n.count = d.count
<1> DEFINE p == a[1]
           i == a[2] + 1
           ss == Repacked(d.slots[p], i, s)
           n == Rebuild(d, a, s)
<1>1. /\ p \in Pages /\ a[2] \in Nat /\ a = <<p, a[2]>> /\ p \in d.own
      /\ i \in 1..Len(d.slots[p])
      /\ d.slots[p] \in Seq(Slots)
  BY SizesAssumption DEF Addrs, Has, Databases
<1>2. /\ ss \in Seq(Slots) /\ Len(ss) = Len(d.slots[p])
      /\ ss[i] = s
      /\ \A j \in 1..Len(ss) : j # i => /\ ss[j].kind = d.slots[p][j].kind
                                        /\ ss[j].key = d.slots[p][j].key
                                        /\ ss[j].to = d.slots[p][j].to
  <2>1. DOMAIN d.slots[p] = 1..Len(d.slots[p]) /\ Len(d.slots[p]) \in Nat
    BY <1>1
  <2>2. ASSUME NEW j \in 1..Len(d.slots[p]), j # i
        PROVE  /\ ss[j] \in Slots
               /\ ss[j].kind = d.slots[p][j].kind
               /\ ss[j].key = d.slots[p][j].key
               /\ ss[j].to = d.slots[p][j].to
    <3>1. d.slots[p][j] \in Slots
      BY <1>1
    <3>2. ss[j] = IF d.slots[p][j].kind = "dead"
                  THEN [d.slots[p][j] EXCEPT !.len = 0] ELSE d.slots[p][j]
      BY <2>1, <2>2 DEF Repacked
    <3>3. QED
      BY <3>1, <3>2 DEF Slots
  <2>3. ss[i] = s
    BY <1>1, <2>1 DEF Repacked
  <2>4. ss \in Seq(Slots) /\ Len(ss) = Len(d.slots[p])
    <3>1. ss = [j \in 1..Len(d.slots[p]) |-> ss[j]]
      BY <2>1 DEF Repacked
    <3>2. \A j \in 1..Len(d.slots[p]) : ss[j] \in Slots
      BY <2>2, <2>3
    <3>3. QED
      BY <2>1, <3>1, <3>2
  <2>5. QED
    BY <2>2, <2>3, <2>4
<1>3. RowBytes(ss) \in 0..(PageCap - SlotLen * Len(ss))
  BY DEF RebuildFits, RowArea
<1>4. /\ Len(ss) \in Nat
      /\ PageCap - SlotLen * Len(ss) - RowBytes(ss) \in Nat
      /\ SlotLen * Len(ss) + (PageCap - SlotLen * Len(ss) - RowBytes(ss)) <= PageCap
  BY <1>2, <1>3, SizesAssumption DEF SlotLen
<1>5. /\ n \in Databases
      /\ n.slots = [d.slots EXCEPT ![p] = ss]
      /\ n.free = [d.free EXCEPT ![p] = PageCap - SlotLen * Len(ss) - RowBytes(ss)]
      /\ n.own = d.own /\ n.idx = d.idx /\ n.count = d.count
  <2>1. n = [d EXCEPT !.slots[p] = ss,
                      !.free[p] = PageCap - SlotLen * Len(ss) - RowBytes(ss)]
    BY DEF Rebuild
  <2> DEFINE f == PageCap - SlotLen * Len(ss) - RowBytes(ss)
  <2>2. ss \in Seq(Slots) /\ f \in Nat /\ n = [d EXCEPT !.slots[p] = ss, !.free[p] = f]
    BY <1>2, <1>4, <2>1
  <2> HIDE DEF n, ss, f
  <2>3. /\ n \in Databases
        /\ n.slots = [d.slots EXCEPT ![p] = ss] /\ n.free = [d.free EXCEPT ![p] = f]
        /\ n.own = d.own /\ n.idx = d.idx /\ n.count = d.count
    BY <1>1, <2>2 DEF Databases
  <2>4. QED
    BY <2>3 DEF f
<1>10. RoomOK(n)
  BY <1>1, <1>4, <1>5 DEF Databases, RoomOK
<1>6. SlotAt(n, a) = s
  BY <1>1, <1>2, <1>5 DEF SlotAt, Databases
<1>7. ASSUME NEW b \in Addrs
      PROVE  Has(n, b) <=> Has(d, b)
  <2>1. b[1] \in Pages
    BY AddrFields
  <2>2. QED
    BY <1>1, <1>2, <1>5, <2>1 DEF Has, Databases
<1>8. ASSUME NEW b \in Addrs, Has(d, b), b # a
      PROVE  /\ SlotAt(n, b).kind = SlotAt(d, b).kind
             /\ SlotAt(n, b).key = SlotAt(d, b).key
             /\ SlotAt(n, b).to = SlotAt(d, b).to
  <2>1. b[1] \in Pages /\ b[2] \in Nat /\ b = <<b[1], b[2]>> /\ b[2] < Len(d.slots[b[1]])
    BY <1>8, SlotPlace DEF Has
  <2>2. CASE b[1] = p
    <3>1. b[2] + 1 \in 1..Len(ss) /\ b[2] + 1 # i
      BY <1>1, <1>2, <1>8, <2>1, <2>2
    <3>2. QED
      BY <1>1, <1>2, <1>5, <2>2, <3>1 DEF SlotAt, Databases
  <2>3. CASE b[1] # p
    BY <1>1, <1>5, <2>1, <2>3 DEF SlotAt, Databases
  <2>4. QED
    BY <2>2, <2>3
<1>9. QED
  BY <1>5, <1>6, <1>7, <1>8, <1>10

\* deleteAt's flag changes one slot.
LEMMA KillFacts ==
  ASSUME NEW d \in Databases, RoomOK(d), NEW a \in Addrs, Has(d, a)
  PROVE  LET n == Kill(d, a)
         IN /\ n \in Databases /\ RoomOK(n)
            /\ SlotAt(n, a).kind = "dead"
            /\ \A b \in Addrs : Has(n, b) <=> Has(d, b)
            /\ \A b \in Addrs : Has(d, b) /\ b # a => SlotAt(n, b) = SlotAt(d, b)
            /\ n.idx = d.idx /\ n.count = d.count
<1> DEFINE p == a[1]
           i == a[2] + 1
           s == DeadSlot(d.slots[p][i])
           n == Kill(d, a)
<1>1. /\ p \in Pages /\ a[2] \in Nat /\ a = <<p, a[2]>> /\ p \in d.own
      /\ i \in 1..Len(d.slots[p])
      /\ d.slots[p] \in Seq(Slots)
  BY SizesAssumption DEF Addrs, Has, Databases
<1>2. s \in Slots /\ s.kind = "dead"
  <2>1. d.slots[p][i] \in Slots
    BY <1>1
  <2>2. QED
    BY <2>1 DEF DeadSlot, RowSlot, Slots
<1>3. /\ n.slots = [d.slots EXCEPT ![p] = [d.slots[p] EXCEPT ![i] = s]]
      /\ n.free = d.free
      /\ n.own = d.own /\ n.age = d.age /\ n.idx = d.idx /\ n.count = d.count
  BY <1>1 DEF Kill, Databases
<1>4. /\ n.slots[p] \in Seq(Slots) /\ Len(n.slots[p]) = Len(d.slots[p])
      /\ n.slots[p][i] = s
      /\ \A j \in 1..Len(d.slots[p]) : j # i => n.slots[p][j] = d.slots[p][j]
      /\ \A q \in Pages : q # p => n.slots[q] = d.slots[q]
      /\ n.slots \in [Pages -> Seq(Slots)]
  BY <1>1, <1>2, <1>3 DEF Databases
<1>10. n \in Databases
  <2>1. [d.slots[p] EXCEPT ![i] = s] \in Seq(Slots)
    BY <1>1, <1>2
  <2>2. QED
    BY <1>1, <2>1 DEF Kill, Databases
<1>5. n \in Databases /\ RoomOK(n)
  BY <1>1, <1>3, <1>4, <1>10 DEF Databases, RoomOK
<1>6. SlotAt(n, a).kind = "dead"
  BY <1>1, <1>2, <1>4 DEF SlotAt
<1>7. ASSUME NEW b \in Addrs
      PROVE  Has(n, b) <=> Has(d, b)
  <2>1. b[1] \in Pages
    BY AddrFields
  <2>2. QED
    BY <1>1, <1>3, <1>4, <2>1 DEF Has
<1>8. ASSUME NEW b \in Addrs, Has(d, b), b # a
      PROVE  SlotAt(n, b) = SlotAt(d, b)
  <2>1. b[1] \in Pages /\ b[2] \in Nat /\ b = <<b[1], b[2]>> /\ b[2] < Len(d.slots[b[1]])
    BY <1>8, SlotPlace DEF Has
  <2>2. b[1] = p => b[2] + 1 \in 1..Len(d.slots[p]) /\ b[2] + 1 # i
    BY <1>1, <1>8, <2>1
  <2>3. QED
    BY <1>4, <2>1, <2>2 DEF SlotAt
<1>9. QED
  BY <1>3, <1>5, <1>6, <1>7, <1>8

-----------------------------------------------------------------------------
(* What the operations do to the rows *)

\* Every row but the one at a is the row it was.
KeepsRows(d, n, a) == \A b \in Addrs : IsRow(d, b) /\ b # a =>
                        IsRow(n, b) /\ KeyAt(n, b) = KeyAt(d, b)

\* The rows are a matter of the pages alone.
LEMMA SamePages ==
  ASSUME NEW d, NEW n, n.own = d.own, n.slots = d.slots
  PROVE  \A a : /\ Has(n, a) <=> Has(d, a)
                /\ SlotAt(n, a) = SlotAt(d, a)
                /\ IsRow(n, a) <=> IsRow(d, a)
                /\ KeyAt(n, a) = KeyAt(d, a)
                /\ LenAt(n, a) = LenAt(d, a)
  BY DEF Has, SlotAt, IsRow, KeyAt, LenAt, Holder

\* Another index or another count on the same pages.
LEMMA SamePagesOK ==
  ASSUME NEW d, PagesOK(d), NEW n \in Databases,
         n.own = d.own, n.slots = d.slots, n.free = d.free
  PROVE  PagesOK(n)
<1>1. \A a : (Has(n, a) <=> Has(d, a)) /\ SlotAt(n, a) = SlotAt(d, a)
  BY SamePages
<1>2. RoomOK(n)
  BY DEF PagesOK, RoomOK
<1>3. KindOK(n)
  BY <1>1 DEF PagesOK, KindOK
<1>4. TargetsOK(n) /\ UnsharedOK(n)
  BY <1>1 DEF PagesOK, TargetsOK, UnsharedOK, IsPtr
<1>5. QED
  BY <1>2, <1>3, <1>4 DEF PagesOK

\* A new row or payload disturbs nothing.
LEMMA AppendRows ==
  ASSUME NEW d, PagesOK(d), NEW p \in Pages, NEW s \in Slots, CanAppend(d, p, s.len),
         s.kind \in {"row", "payload"}, s.key \in Keys
  PROVE  LET n == AppendSlot(d, p, s)
             a == NextAddr(d, p)
         IN /\ PagesOK(n)
            /\ a \in Addrs /\ ~ Has(d, a) /\ Has(n, a) /\ SlotAt(n, a) = s
            /\ \A b \in Addrs : Has(d, b) => Has(n, b) /\ SlotAt(n, b) = SlotAt(d, b)
            /\ \A b \in Addrs : Has(n, b) => b = a \/ Has(d, b)
            /\ KeepsRows(d, n, a)
            /\ n.idx = d.idx /\ n.count = d.count
<1> DEFINE n == AppendSlot(d, p, s)
           a == NextAddr(d, p)
<1>1. /\ n \in Databases /\ RoomOK(n)
      /\ a \in Addrs /\ ~ Has(d, a) /\ Has(n, a) /\ SlotAt(n, a) = s
      /\ \A b \in Addrs : Has(d, b) => Has(n, b) /\ SlotAt(n, b) = SlotAt(d, b)
      /\ \A b \in Addrs : Has(n, b) => b = a \/ Has(d, b)
      /\ n.idx = d.idx /\ n.count = d.count
  BY AppendFacts DEF PagesOK
<1> HIDE DEF n, a
<1>2. KindOK(n)
  BY <1>1 DEF PagesOK, KindOK
<1>3. \A b \in Addrs : IsPtr(n, b) => IsPtr(d, b) /\ SlotAt(n, b) = SlotAt(d, b)
  BY <1>1 DEF IsPtr
<1>6. TargetsOK(n)
  BY <1>1, <1>3 DEF PagesOK, KindOK, TargetsOK, IsPtr
<1>7. UnsharedOK(n)
  BY <1>3 DEF PagesOK, UnsharedOK
<1>4. KeepsRows(d, n, a)
  <2>1. SUFFICES ASSUME NEW b \in Addrs, IsRow(d, b)
        PROVE  IsRow(n, b) /\ KeyAt(n, b) = KeyAt(d, b)
    BY DEF KeepsRows
  <2>2. Has(d, b) /\ Holder(d, b) \in Addrs /\ Has(d, Holder(d, b))
    BY <2>1, RowFacts DEF IsRow
  <2>3. QED
    BY <1>1, <2>1, <2>2 DEF IsRow, KeyAt, Holder
<1>5. QED
  BY <1>1, <1>2, <1>4, <1>6, <1>7 DEF PagesOK, n, a

\* Rewriting a row in place changes that row, whatever its slot was before.
LEMMA RebuildRow ==
  ASSUME NEW d, PagesOK(d), NEW a \in Addrs, IsRow(d, a), NEW k \in Keys, NEW l \in Nat,
         RebuildFits(d, a, RowSlot("row", k, l))
  PROVE  LET n == Rebuild(d, a, RowSlot("row", k, l))
         IN /\ PagesOK(n)
            /\ IsRow(n, a) /\ KeyAt(n, a) = k
            /\ KeepsRows(d, n, a)
            /\ n.idx = d.idx /\ n.count = d.count
<1> DEFINE s == RowSlot("row", k, l)
           n == Rebuild(d, a, s)
<1>1. s \in Slots /\ s.kind = "row" /\ s.key = k
  BY DEF RowSlot, Slots
<1>2. Has(d, a) /\ SlotAt(d, a).kind \in {"row", "ptr"}
  BY DEF IsRow
<1>3. /\ n \in Databases /\ RoomOK(n)
      /\ SlotAt(n, a) = s
      /\ \A b \in Addrs : Has(n, b) <=> Has(d, b)
      /\ \A b \in Addrs : Has(d, b) /\ b # a => /\ SlotAt(n, b).kind = SlotAt(d, b).kind
                                                /\ SlotAt(n, b).key = SlotAt(d, b).key
                                                /\ SlotAt(n, b).to = SlotAt(d, b).to
      /\ n.idx = d.idx /\ n.count = d.count
  BY <1>1, <1>2, RebuildFacts DEF PagesOK
<1> HIDE DEF n, s
<1>4. KindOK(n)
  BY <1>1, <1>3 DEF PagesOK, KindOK
<1>5. \A b \in Addrs : IsPtr(n, b) => IsPtr(d, b) /\ b # a /\ SlotAt(n, b).to = SlotAt(d, b).to
  BY <1>1, <1>3 DEF IsPtr
<1>9. TargetsOK(n)
  <2>1. SUFFICES ASSUME NEW b \in Addrs, IsPtr(n, b)
        PROVE  Has(n, SlotAt(n, b).to) /\ SlotAt(n, SlotAt(n, b).to).kind = "payload"
    BY DEF TargetsOK
  <2>2. /\ SlotAt(n, b).to = SlotAt(d, b).to /\ SlotAt(d, b).to \in Addrs
        /\ Has(d, SlotAt(d, b).to) /\ SlotAt(d, SlotAt(d, b).to).kind = "payload"
    BY <1>5, <2>1 DEF PagesOK, KindOK, TargetsOK, IsPtr
  <2>3. QED
    BY <1>2, <1>3, <2>2
<1>10. UnsharedOK(n)
  BY <1>5 DEF PagesOK, UnsharedOK
<1>6. IsRow(n, a) /\ KeyAt(n, a) = k
  BY <1>1, <1>2, <1>3 DEF IsRow, KeyAt, Holder
<1>7. KeepsRows(d, n, a)
  <2>1. SUFFICES ASSUME NEW b \in Addrs, IsRow(d, b), b # a
        PROVE  IsRow(n, b) /\ KeyAt(n, b) = KeyAt(d, b)
    BY DEF KeepsRows
  <2>2. Has(d, b) /\ Holder(d, b) \in Addrs /\ Has(d, Holder(d, b))
    BY <2>1, RowFacts DEF IsRow
  <2>3. Holder(d, b) # a
    BY <1>2, <2>1 DEF PagesOK, TargetsOK, IsPtr, IsRow, Holder
  <2>4. QED
    BY <1>3, <2>1, <2>2, <2>3 DEF IsRow, KeyAt, Holder
<1>8. QED
  BY <1>3, <1>4, <1>6, <1>7, <1>9, <1>10 DEF PagesOK, n, s

\* Turning a row into a pointer moves that row to the payload, provided that no other
\* pointer has it.
LEMMA RebuildPtr ==
  ASSUME NEW d, PagesOK(d), NEW a \in Addrs, IsRow(d, a),
         NEW t \in Addrs, Has(d, t), SlotAt(d, t).kind = "payload",
         \A b \in Addrs : IsPtr(d, b) => SlotAt(d, b).to # t,
         RebuildFits(d, a, PtrSlot(t))
  PROVE  LET n == Rebuild(d, a, PtrSlot(t))
         IN /\ PagesOK(n)
            /\ IsRow(n, a) /\ KeyAt(n, a) = SlotAt(d, t).key
            /\ KeepsRows(d, n, a)
            /\ n.idx = d.idx /\ n.count = d.count
<1> DEFINE s == PtrSlot(t)
           n == Rebuild(d, a, s)
<1>1. s \in Slots /\ s.kind = "ptr" /\ s.to = t
  BY DEF PtrSlot, PtrLen, Slots
<1>2. Has(d, a) /\ SlotAt(d, a).kind \in {"row", "ptr"} /\ a # t
  BY DEF IsRow
<1>3. /\ n \in Databases /\ RoomOK(n)
      /\ SlotAt(n, a) = s
      /\ \A b \in Addrs : Has(n, b) <=> Has(d, b)
      /\ \A b \in Addrs : Has(d, b) /\ b # a => /\ SlotAt(n, b).kind = SlotAt(d, b).kind
                                                /\ SlotAt(n, b).key = SlotAt(d, b).key
                                                /\ SlotAt(n, b).to = SlotAt(d, b).to
      /\ n.idx = d.idx /\ n.count = d.count
  BY <1>1, <1>2, RebuildFacts DEF PagesOK
<1> HIDE DEF n, s
<1>4. KindOK(n)
  BY <1>1, <1>3 DEF PagesOK, KindOK
<1>5. Has(n, t) /\ SlotAt(n, t).kind = "payload" /\ SlotAt(n, t).key = SlotAt(d, t).key
  BY <1>2, <1>3
<1>6. \A b \in Addrs : b # a /\ IsPtr(n, b) =>
        IsPtr(d, b) /\ SlotAt(n, b).to = SlotAt(d, b).to /\ SlotAt(n, b).to # t
  BY <1>3 DEF IsPtr
<1>7. TargetsOK(n)
  <2>1. SUFFICES ASSUME NEW b \in Addrs, IsPtr(n, b)
        PROVE  Has(n, SlotAt(n, b).to) /\ SlotAt(n, SlotAt(n, b).to).kind = "payload"
    BY DEF TargetsOK
  <2>2. CASE b = a
    BY <1>1, <1>3, <1>5, <2>2
  <2>3. CASE b # a
    <3>1. /\ SlotAt(n, b).to = SlotAt(d, b).to /\ SlotAt(d, b).to \in Addrs
          /\ Has(d, SlotAt(d, b).to) /\ SlotAt(d, SlotAt(d, b).to).kind = "payload"
      BY <1>6, <2>1, <2>3 DEF PagesOK, KindOK, TargetsOK, IsPtr
    <3>2. QED
      BY <1>2, <1>3, <3>1
  <2>4. QED
    BY <2>2, <2>3
<1>11. UnsharedOK(n)
  <2>1. SUFFICES ASSUME NEW b \in Addrs, NEW e \in Addrs, IsPtr(n, b), IsPtr(n, e),
                        SlotAt(n, b).to = SlotAt(n, e).to
        PROVE  b = e
    BY DEF UnsharedOK
  <2>2. SlotAt(n, a).to = t
    BY <1>1, <1>3
  <2>3. CASE b # a /\ e # a
    BY <1>6, <2>1, <2>3 DEF PagesOK, UnsharedOK
  <2>4. CASE b = a \/ e = a
    BY <1>6, <2>1, <2>2, <2>4
  <2>5. QED
    BY <2>3, <2>4
<1>8. IsRow(n, a) /\ KeyAt(n, a) = SlotAt(d, t).key
  BY <1>1, <1>2, <1>3, <1>5 DEF IsRow, KeyAt, Holder
<1>9. KeepsRows(d, n, a)
  <2>1. SUFFICES ASSUME NEW b \in Addrs, IsRow(d, b), b # a
        PROVE  IsRow(n, b) /\ KeyAt(n, b) = KeyAt(d, b)
    BY DEF KeepsRows
  <2>2. Has(d, b) /\ Holder(d, b) \in Addrs /\ Has(d, Holder(d, b))
    BY <2>1, RowFacts DEF IsRow
  <2>3. Holder(d, b) # a
    BY <1>2, <2>1 DEF PagesOK, TargetsOK, IsPtr, IsRow, Holder
  <2>4. QED
    BY <1>3, <2>1, <2>2, <2>3 DEF IsRow, KeyAt, Holder
<1>10. QED
  BY <1>3, <1>4, <1>7, <1>8, <1>9, <1>11 DEF PagesOK, n, s

\* A deleted row takes its overflow payload along, and nothing else.
LEMMA DeleteRows ==
  ASSUME NEW d, PagesOK(d), NEW a \in Addrs, IsRow(d, a)
  PROVE  LET n == DeleteRow(d, a)
         IN /\ PagesOK(n)
            /\ KeepsRows(d, n, a)
            /\ n.idx = d.idx
<1> DEFINE t == SlotAt(d, a).to
           m == IF SlotAt(d, a).kind = "ptr" THEN Kill(d, t) ELSE d
           g == Kill(m, a)
           n == DeleteRow(d, a)
<1>1. Has(d, a) /\ SlotAt(d, a).kind \in {"row", "ptr"} /\ d \in Databases /\ RoomOK(d)
  BY DEF IsRow, PagesOK
\* Which slots die: a, and the payload if a is a pointer.
<1>2. /\ m \in Databases /\ RoomOK(m) /\ Has(m, a) /\ m.idx = d.idx /\ m.count = d.count
      /\ \A b \in Addrs : Has(m, b) <=> Has(d, b)
      /\ \A b \in Addrs : Has(d, b) =>
           \/ SlotAt(m, b) = SlotAt(d, b)
           \/ SlotAt(d, a).kind = "ptr" /\ b = t /\ SlotAt(m, b).kind = "dead"
  <2>1. CASE SlotAt(d, a).kind = "ptr"
    <3>1. t \in Addrs /\ Has(d, t)
      BY <1>1, <2>1 DEF PagesOK, KindOK, TargetsOK, IsPtr
    <3>2. QED
      BY <1>1, <2>1, <3>1, KillFacts
  <2>2. CASE SlotAt(d, a).kind # "ptr"
    BY <1>1, <2>2
  <2>3. QED
    BY <2>1, <2>2
<1> HIDE DEF m
<1>3. /\ g \in Databases /\ RoomOK(g) /\ g.idx = d.idx /\ g.count = d.count
      /\ SlotAt(g, a).kind = "dead"
      /\ \A b \in Addrs : Has(g, b) <=> Has(d, b)
      /\ \A b \in Addrs : Has(d, b) /\ b # a =>
           \/ SlotAt(g, b) = SlotAt(d, b)
           \/ SlotAt(d, a).kind = "ptr" /\ b = t /\ SlotAt(g, b).kind = "dead"
  BY <1>2, KillFacts
<1> HIDE DEF g
<1>4. KindOK(g)
  BY <1>3 DEF PagesOK, KindOK
\* A pointer that survives is another one than a, so its payload is not t.
<1>5. ASSUME NEW b \in Addrs, IsPtr(d, b), b # a
      PROVE  /\ SlotAt(d, b).to \in Addrs
             /\ Has(d, SlotAt(d, b).to)
             /\ SlotAt(d, SlotAt(d, b).to).kind = "payload"
             /\ SlotAt(g, SlotAt(d, b).to) = SlotAt(d, SlotAt(d, b).to)
  <2>1. /\ SlotAt(d, b).to \in Addrs /\ Has(d, SlotAt(d, b).to)
        /\ SlotAt(d, SlotAt(d, b).to).kind = "payload"
    BY <1>5 DEF PagesOK, KindOK, TargetsOK, IsPtr
  <2>2. SlotAt(d, b).to # a
    BY <1>1, <2>1
  <2>3. SlotAt(d, a).kind = "ptr" => SlotAt(d, b).to # t
    BY <1>1, <1>5 DEF PagesOK, UnsharedOK, IsPtr
  <2>4. QED
    BY <1>3, <2>1, <2>2, <2>3
<1>6. \A b \in Addrs : IsPtr(g, b) => IsPtr(d, b) /\ b # a /\ SlotAt(g, b) = SlotAt(d, b)
  BY <1>3 DEF IsPtr
<1>12. TargetsOK(g)
  BY <1>3, <1>5, <1>6 DEF TargetsOK
<1>13. UnsharedOK(g)
  BY <1>6 DEF PagesOK, UnsharedOK
<1>7. KeepsRows(d, g, a)
  <2>1. SUFFICES ASSUME NEW b \in Addrs, IsRow(d, b), b # a
        PROVE  IsRow(g, b) /\ KeyAt(g, b) = KeyAt(d, b)
    BY DEF KeepsRows
  <2>2. Has(d, b) /\ SlotAt(d, b).kind \in {"row", "ptr"}
    BY <2>1 DEF IsRow
  <2>3. SlotAt(g, b) = SlotAt(d, b)
    BY <1>1, <1>3, <2>1, <2>2 DEF PagesOK, TargetsOK, IsPtr
  <2>4. CASE SlotAt(d, b).kind = "ptr"
    BY <1>3, <1>5, <2>1, <2>2, <2>3, <2>4 DEF IsRow, KeyAt, Holder, IsPtr
  <2>5. CASE SlotAt(d, b).kind = "row"
    BY <1>3, <2>1, <2>2, <2>3, <2>5 DEF IsRow, KeyAt, Holder
  <2>6. QED
    BY <2>2, <2>4, <2>5
<1>8. PagesOK(g)
  BY <1>3, <1>4, <1>12, <1>13 DEF PagesOK
<1>9. PagesOK(n) /\ n.own = g.own /\ n.slots = g.slots /\ n.idx = g.idx
  <2> DEFINE c == IF g.count > 0 THEN g.count - 1 ELSE 0
  <2>1. n = [g EXCEPT !.count = c]
    BY DEF DeleteRow, g, m
  <2>4. c \in Nat
    BY <1>3 DEF Databases
  <2> HIDE DEF n, c
  <2>2. /\ n \in Databases /\ n.own = g.own /\ n.slots = g.slots /\ n.free = g.free
        /\ n.idx = g.idx
    BY <1>3, <2>1, <2>4 DEF Databases
  <2>3. QED
    BY <1>8, <2>2, SamePagesOK
<1> HIDE DEF n
<1>10. KeepsRows(d, n, a)
  BY <1>7, <1>9, SamePages DEF KeepsRows
<1>11. QED
  BY <1>3, <1>9, <1>10 DEF n

-----------------------------------------------------------------------------
(* What the operations do to the index and to the plan *)

\* Read back from its bytes, a database has the same rows and, when row numbers fit
\* their byte, the same index.
LEMMA ReloadOK ==
  ASSUME NEW d, PagesOK(d), IdxOK(d), \A p \in d.own : Len(d.slots[p]) <= RowMod
  PROVE  /\ PagesOK(Reload(d)) /\ IdxOK(Reload(d))
         /\ Reload(d).own = d.own /\ Reload(d).slots = d.slots /\ Reload(d).idx = d.idx
<1> DEFINE n == Reload(d)
           I == {[key |-> e.key, loc |-> Byte(e.loc)] : e \in d.idx}
<1>1. I = d.idx
  <2>1. ASSUME NEW e \in d.idx
        PROVE  [key |-> e.key, loc |-> Byte(e.loc)] = e
    <3>1. /\ e.loc \in Addrs /\ e = [key |-> e.key, loc |-> e.loc]
          /\ Has(d, e.loc) /\ d \in Databases /\ RoomOK(d)
      BY DEF PagesOK, Databases, IdxOK, IsRow
    <3>2. e.loc[1] \in Pages /\ e.loc[2] \in Nat /\ e.loc = <<e.loc[1], e.loc[2]>>
      BY <3>1, AddrFields
    <3>3. e.loc[2] < RowMod
      <4>1. /\ e.loc[1] \in d.own /\ e.loc[2] < Len(d.slots[e.loc[1]])
            /\ Len(d.slots[e.loc[1]]) \in Nat
        BY <3>1, SlotPlace DEF Has
      <4>2. Len(d.slots[e.loc[1]]) <= RowMod
        BY <4>1
      <4>3. QED
        BY <3>2, <4>1, <4>2, SizesAssumption
    <3>4. e.loc[2] % RowMod = e.loc[2]
      BY <3>2, <3>3, SizesAssumption
    <3>5. QED
      BY <3>1, <3>2, <3>4 DEF Byte
  <2>2. QED
    BY <2>1
<1>2. /\ n \in Databases /\ n.own = d.own /\ n.slots = d.slots /\ n.free = d.free
      /\ n.idx = d.idx
  <2>1. n = [d EXCEPT !.idx = d.idx, !.age = [p \in Pages |-> 0]]
    BY <1>1 DEF Reload
  <2> HIDE DEF n
  <2>2. QED
    BY <2>1 DEF PagesOK, Databases
<1> HIDE DEF n
<1>3. IdxOK(n)
  BY <1>2, SamePages DEF IdxOK
<1>4. QED
  BY <1>2, <1>3, SamePagesOK DEF n

\* One round of an update: the row at c.loc has its new key, the others are the rows
\* they were, and the index still names rows by their keys.
LEMMA ReindexOK ==
  ASSUME NEW d, PagesOK(d), IdxOK(d), NEW c \in Changes,
         IsRow(d, c.loc), KeyAt(d, c.loc) = c.old,
         NEW n, PagesOK(n), n.idx = d.idx,
         IsRow(n, c.loc), KeyAt(n, c.loc) = c.key, KeepsRows(d, n, c.loc)
  PROVE  LET m == [n EXCEPT !.idx = Reindex(n.idx, c)]
         IN PagesOK(m) /\ IdxOK(m) /\ m.own = n.own /\ m.slots = n.slots
<1> DEFINE I == Reindex(n.idx, c)
           m == [n EXCEPT !.idx = I]
<1>1. c.loc \in Addrs /\ c.key \in Keys /\ c.old \in Keys
  BY DEF Changes
<1>2. d.idx \subseteq [key : Keys, loc : Addrs]
  BY DEF PagesOK, Databases
<1>3. /\ I \subseteq [key : Keys, loc : Addrs]
      /\ \A e \in I : \/ e \in d.idx /\ (c.key # c.old => e # Entry(c.old, c.loc))
                      \/ e = Entry(c.key, c.loc)
  BY <1>1, <1>2 DEF Reindex, Entry
<1>4. /\ m \in Databases /\ m.own = n.own /\ m.slots = n.slots /\ m.free = n.free
      /\ m.idx = I
  BY <1>3 DEF PagesOK, Databases
<1> HIDE DEF m, I
<1>5. ASSUME NEW e \in I
      PROVE  IsRow(n, e.loc) /\ KeyAt(n, e.loc) = e.key
  <2>1. CASE e = Entry(c.key, c.loc)
    BY <2>1 DEF Entry
  <2>2. CASE e \in d.idx /\ e.loc # c.loc
    BY <1>2, <2>2 DEF IdxOK, KeepsRows
  <2>3. CASE e \in d.idx /\ e.loc = c.loc
    <3>1. e = Entry(c.old, c.loc)
      BY <1>2, <2>3 DEF IdxOK, Entry
    <3>2. c.key = c.old \/ e = Entry(c.key, c.loc)
      BY <1>3, <1>5, <3>1
    <3>3. QED
      BY <3>1, <3>2 DEF Entry
  <2>4. QED
    BY <1>3, <1>5, <2>1, <2>2, <2>3
<1>6. IdxOK(m)
  BY <1>4, <1>5, SamePages DEF IdxOK
<1>7. QED
  BY <1>4, <1>6, SamePagesOK DEF m, I

\* The removal of a deleted row's entry leaves no entry for its address.
LEMMA UnindexOK ==
  ASSUME NEW d, PagesOK(d), IdxOK(d), NEW a \in Addrs, NEW k, IsRow(d, a), KeyAt(d, a) = k,
         NEW n, PagesOK(n), n.idx = d.idx, KeepsRows(d, n, a)
  PROVE  LET m == [n EXCEPT !.idx = n.idx \ {Entry(k, a)}]
         IN PagesOK(m) /\ IdxOK(m) /\ m.own = n.own /\ m.slots = n.slots
<1> DEFINE I == n.idx \ {Entry(k, a)}
           m == [n EXCEPT !.idx = I]
<1>1. d.idx \subseteq [key : Keys, loc : Addrs]
  BY DEF PagesOK, Databases
<1>2. /\ m \in Databases /\ m.own = n.own /\ m.slots = n.slots /\ m.free = n.free
      /\ m.idx = I
  BY <1>1 DEF PagesOK, Databases
<1> HIDE DEF m
<1>3. ASSUME NEW e \in I
      PROVE  IsRow(n, e.loc) /\ KeyAt(n, e.loc) = e.key
  <2>1. e.loc = a => e = Entry(k, a)
    BY <1>1, <1>3 DEF IdxOK, Entry
  <2>2. QED
    BY <1>1, <1>3, <2>1 DEF IdxOK, KeepsRows
<1>4. IdxOK(m)
  BY <1>2, <1>3, SamePages DEF IdxOK
<1>5. QED
  BY <1>2, <1>4, SamePagesOK DEF m

\* What is left of a plan when one of its rows is done.
LEMMA PlanRest ==
  ASSUME NEW d, NEW n, NEW plan \in SUBSET Changes, NEW c \in plan,
         PlanOK(d, plan), KeepsRows(d, n, c.loc)
  PROVE  PlanOK(n, plan \ {c})
<1>1. ASSUME NEW e \in plan \ {c}
      PROVE  /\ IsRow(n, e.loc) /\ KeyAt(n, e.loc) = e.old
             /\ \A f \in plan \ {c} : f.loc = e.loc => f = e
  <2>1. e.loc \in Addrs /\ e.loc # c.loc
    BY <1>1 DEF Changes, PlanOK
  <2>2. QED
    BY <2>1 DEF PlanOK, KeepsRows
<1>2. QED
  BY <1>1 DEF PlanOK

-----------------------------------------------------------------------------
(* Each action keeps the invariant *)

LEMMA InitInv == Init => IInv
<1> SUFFICES ASSUME Init PROVE IInv
  OBVIOUS
<1>1. NewTable \in Databases /\ NewTable.own = {} /\ NewTable.idx = {}
      /\ NewTable.slots = [p \in Pages |-> <<>>] /\ NewTable.free = [p \in Pages |-> 0]
  BY DEF NewTable, Databases
<1>2. \A a : ~ Has(NewTable, a)
  BY <1>1 DEF Has
<1>3. PagesOK(NewTable)
  <2>1. RoomOK(NewTable)
    BY <1>1, SizesAssumption DEF RoomOK, SlotLen
  <2>2. KindOK(NewTable) /\ TargetsOK(NewTable) /\ UnsharedOK(NewTable)
    BY <1>2 DEF KindOK, TargetsOK, UnsharedOK, IsPtr
  <2>3. QED
    BY <1>1, <2>1, <2>2 DEF PagesOK
<1>4. IdxOK(NewTable) /\ PlanOK(NewTable, {})
  BY <1>1 DEF IdxOK, PlanOK
<1>5. QED
  BY <1>3, <1>4, KeysAssumption DEF Init, IInv

\* A committed database in order is all that a transaction leaves behind.
LEMMA InstallInv ==
  ASSUME IInv, NEW d, PagesOK(d), IdxOK(d), Install(d)
  PROVE  IInv'
  BY DEF IInv, Install, PlanOK

\* First fit finds a page of the database, and one with room.
LEMMA PlacementFacts ==
  ASSUME NEW d \in Databases, NEW len \in Nat, NEW p \in Placement(d, len)
  PROVE  p \in Pages /\ (len + SlotLen <= PageCap => CanAppend(d, p, len))
<1>1. CASE p \in Roomy(d, len)
  BY <1>1 DEF Roomy, CanAppend, Claim, Databases
<1>2. CASE Roomy(d, len) = {}
  <2>1. p \in Pages /\ p \notin d.own
    BY <1>2 DEF Placement
  <2> DEFINE c == 1 + Cardinality({q \in d.own : d.age[q] > 0})
  <2>2. Claim(d, p) = [d EXCEPT !.own = @ \cup {p}, !.free[p] = PageCap, !.age[p] = c]
    BY <2>1 DEF Claim
  <2> HIDE DEF c
  <2>3. Claim(d, p).free[p] = PageCap
    BY <2>1, <2>2 DEF Databases
  <2>4. QED
    BY <2>1, <2>3 DEF CanAppend
<1>3. QED
  BY <1>1, <1>2 DEF Placement

LEMMA InsertInv ==
  ASSUME IInv, RowNumbersFit, NEW k \in Keys, NEW len \in Lens, Insert(k, len)
  PROVE  IInv'
<1> DEFINE d == Reload(db)
           s == RowSlot("row", k, len)
<1>1. PagesOK(d) /\ IdxOK(d)
  BY ReloadOK DEF IInv, RowNumbersFit
<1> HIDE DEF d
<1>2. PICK p \in Placement(d, len) :
        /\ len + SlotLen <= PageCap
        /\ Install([AppendSlot(d, p, s) EXCEPT !.idx = @ \cup {Entry(k, NextAddr(d, p))},
                                               !.count = @ + 1])
  BY DEF Insert, d
<1> DEFINE n == AppendSlot(d, p, s)
           a == NextAddr(d, p)
           I == n.idx \cup {Entry(k, a)}
           m == [n EXCEPT !.idx = I, !.count = n.count + 1]
<1>3. s \in Slots /\ s.kind = "row" /\ s.key = k /\ s.len = len /\ len \in Nat
  BY SizesAssumption DEF RowSlot, Slots
<1>4. p \in Pages /\ CanAppend(d, p, s.len)
  BY <1>1, <1>2, <1>3, PlacementFacts DEF PagesOK
<1> HIDE DEF s
<1>5. /\ PagesOK(n) /\ KeepsRows(d, n, a)
      /\ a \in Addrs /\ ~ Has(d, a) /\ Has(n, a) /\ SlotAt(n, a) = s
      /\ n.idx = d.idx
  BY <1>1, <1>3, <1>4, AppendRows
<1> HIDE DEF n, a
<1>6. I \subseteq [key : Keys, loc : Addrs] /\ n.count + 1 \in Nat
  BY <1>5 DEF PagesOK, Databases, Entry
<1>7. /\ m \in Databases /\ m.own = n.own /\ m.slots = n.slots /\ m.free = n.free
      /\ m.idx = I
  <2> HIDE DEF I
  <2>1. QED
    BY <1>5, <1>6 DEF PagesOK, Databases
<1>8. PagesOK(m)
  BY <1>5, <1>7, SamePagesOK
<1>9. ASSUME NEW e \in I
      PROVE  IsRow(n, e.loc) /\ KeyAt(n, e.loc) = e.key
  <2>1. CASE e = Entry(k, a)
    BY <1>3, <1>5, <2>1 DEF Entry, IsRow, KeyAt, Holder
  <2>2. CASE e \in d.idx
    <3>1. e.loc \in Addrs /\ IsRow(d, e.loc) /\ KeyAt(d, e.loc) = e.key
      BY <1>1, <2>2 DEF PagesOK, Databases, IdxOK
    <3>2. QED
      BY <1>5, <3>1 DEF KeepsRows, IsRow
  <2>3. QED
    BY <1>5, <1>9, <2>1, <2>2
<1>10. IdxOK(m)
  BY <1>7, <1>9, SamePages DEF IdxOK
<1>11. Install(m)
  BY <1>2 DEF n, a, s
<1>12. QED
  BY <1>8, <1>10, <1>11, InstallInv

\* A plan made from a scan is about rows, each of them once.
LEMMA ScanPlan ==
  ASSUME NEW d, PagesOK(d), NEW S \in SUBSET RowAddrs(d),
         NEW k \in Keys \cup {Keep}, NEW len \in Lens \cup {Keep}
  PROVE  LET plan == {Change(d, a, k, len) : a \in S}
         IN plan \subseteq Changes /\ PlanOK(d, plan)
<1>1. ASSUME NEW a \in S
      PROVE  /\ a \in Addrs /\ IsRow(d, a)
             /\ Change(d, a, k, len) \in Changes
             /\ Change(d, a, k, len).loc = a /\ Change(d, a, k, len).old = KeyAt(d, a)
  <2>1. IsRow(d, a) /\ Has(d, a) /\ a \in AllAddrs(d)
    BY DEF RowAddrs, IsRow
  <2>2. a \in Addrs
    <3>1. PICK p \in d.own : a \in {p} \X (0..Len(d.slots[p]) - 1)
      BY <2>1 DEF AllAddrs
    <3>2. a \in Pages \X Nat
      BY <3>1 DEF PagesOK, Databases
    <3>3. QED
      BY <2>1, <3>2, SlotAddr DEF PagesOK
  <2>3. KeyAt(d, a) \in Keys /\ LenAt(d, a) \in Nat
    BY <2>1, <2>2, RowFacts
  <2>4. QED
    BY <2>1, <2>2, <2>3, SizesAssumption DEF Change, Changes
<1>2. QED
  BY <1>1 DEF PlanOK

LEMMA BeginUpdateInv ==
  ASSUME IInv, RowNumbersFit, NEW k \in Keys \cup {Keep}, NEW len \in Lens \cup {Keep},
         BeginUpdate(k, len)
  PROVE  IInv'
<1>1. PagesOK(Reload(db)) /\ IdxOK(Reload(db))
  BY ReloadOK DEF IInv, RowNumbersFit
<1>2. PICK S \in SUBSET RowAddrs(Reload(db)) :
        Begin("update", {Change(Reload(db), a, k, len) : a \in S})
  BY DEF BeginUpdate, Selections
<1> DEFINE plan == {Change(Reload(db), a, k, len) : a \in S}
<1>3. plan \subseteq Changes /\ PlanOK(Reload(db), plan)
  BY <1>1, ScanPlan
<1> HIDE DEF plan
<1>4. Begin("update", plan)
  BY <1>2 DEF plan
<1>5. QED
  BY <1>1, <1>3, <1>4 DEF IInv, Begin

LEMMA BeginDeleteInv ==
  ASSUME IInv, RowNumbersFit, BeginDelete
  PROVE  IInv'
<1>1. PagesOK(Reload(db)) /\ IdxOK(Reload(db))
  BY ReloadOK DEF IInv, RowNumbersFit
<1>2. PICK S \in SUBSET RowAddrs(Reload(db)) :
        Begin("delete", {Change(Reload(db), a, Keep, Keep) : a \in S})
  BY DEF BeginDelete, Selections
<1> DEFINE plan == {Change(Reload(db), a, Keep, Keep) : a \in S}
<1>3. plan \subseteq Changes /\ PlanOK(Reload(db), plan)
  BY <1>1, ScanPlan
<1> HIDE DEF plan
<1>4. Begin("delete", plan)
  BY <1>2 DEF plan
<1>5. QED
  BY <1>1, <1>3, <1>4 DEF IInv, Begin

LEMMA UpdateInPlaceInv ==
  ASSUME IInv, UpdateInPlace
  PROVE  IInv'
<1>1. PICK c \in todo :
        /\ RebuildFits(w, c.loc, RowSlot("row", c.key, c.len))
        /\ w' = [Rebuild(w, c.loc, RowSlot("row", c.key, c.len)) EXCEPT !.idx = Reindex(@, c)]
        /\ todo' = todo \ {c}
        /\ UNCHANGED <<unique, db, call, batch>>
  BY DEF UpdateInPlace
<1> DEFINE n == Rebuild(w, c.loc, RowSlot("row", c.key, c.len))
           m == [n EXCEPT !.idx = Reindex(n.idx, c)]
<1>2. /\ c \in Changes /\ c.loc \in Addrs /\ c.key \in Keys /\ c.len \in Nat
      /\ IsRow(w, c.loc) /\ KeyAt(w, c.loc) = c.old
      /\ PagesOK(w) /\ IdxOK(w) /\ PlanOK(w, todo) /\ todo \in SUBSET Changes
  BY DEF IInv, Changes, PlanOK
<1>3. /\ PagesOK(n) /\ IsRow(n, c.loc) /\ KeyAt(n, c.loc) = c.key
      /\ KeepsRows(w, n, c.loc) /\ n.idx = w.idx
  BY <1>1, <1>2, RebuildRow
<1> HIDE DEF n
<1>4. PagesOK(m) /\ IdxOK(m) /\ m.own = n.own /\ m.slots = n.slots
  BY <1>2, <1>3, ReindexOK
<1>5. w' = m
  BY <1>1 DEF n
<1> HIDE DEF m
<1>6. PlanOK(m, todo \ {c})
  <2>1. KeepsRows(w, m, c.loc)
    BY <1>3, <1>4, SamePages DEF KeepsRows
  <2>2. QED
    BY <1>2, <2>1, PlanRest
<1>7. QED
  BY <1>1, <1>4, <1>5, <1>6 DEF IInv

LEMMA UpdateOverflowInv ==
  ASSUME IInv, UpdateOverflow
  PROVE  IInv'
<1> DEFINE Step(c, p) ==
             LET a == NextAddr(w, p)
                 d == AppendSlot(w, p, RowSlot("payload", c.key, c.len))
             IN /\ CanAppend(w, p, c.len)
                /\ RebuildFits(d, c.loc, PtrSlot(a))
                /\ w' = [Rebuild(d, c.loc, PtrSlot(a)) EXCEPT !.idx = Reindex(@, c)]
                /\ todo' = todo \ {c}
                /\ UNCHANGED <<unique, db, call, batch>>
<1>0. \E c \in todo : \E p \in Placement(w, c.len) : Step(c, p)
  BY DEF UpdateOverflow
<1>01. PICK c \in todo : \E p \in Placement(w, c.len) : Step(c, p)
  BY <1>0
<1>1. PICK p \in Placement(w, c.len) : Step(c, p)
  BY <1>01
<1> DEFINE s == RowSlot("payload", c.key, c.len)
           a == NextAddr(w, p)
           d == AppendSlot(w, p, s)
           n == Rebuild(d, c.loc, PtrSlot(a))
           m == [n EXCEPT !.idx = Reindex(n.idx, c)]
<1>2. /\ c \in Changes /\ c.loc \in Addrs /\ c.key \in Keys /\ c.len \in Nat
      /\ IsRow(w, c.loc) /\ KeyAt(w, c.loc) = c.old
      /\ PagesOK(w) /\ IdxOK(w) /\ PlanOK(w, todo) /\ todo \in SUBSET Changes
  BY DEF IInv, Changes, PlanOK
<1>3. s \in Slots /\ s.kind = "payload" /\ s.key = c.key /\ s.len = c.len
  BY <1>2 DEF RowSlot, Slots
<1>4. p \in Pages /\ CanAppend(w, p, s.len)
  BY <1>1, <1>2, <1>3, PlacementFacts DEF PagesOK
<1>5. RebuildFits(d, c.loc, PtrSlot(a)) /\ w' = m
  BY <1>1
<1> HIDE DEF s
<1>6. /\ PagesOK(d)
      /\ a \in Addrs /\ ~ Has(w, a) /\ Has(d, a) /\ SlotAt(d, a) = s
      /\ \A b \in Addrs : Has(w, b) => Has(d, b) /\ SlotAt(d, b) = SlotAt(w, b)
      /\ \A b \in Addrs : Has(d, b) => b = a \/ Has(w, b)
      /\ KeepsRows(w, d, a)
      /\ d.idx = w.idx
  BY <1>2, <1>3, <1>4, AppendRows
<1> HIDE DEF a, d
\* The new payload is not yet anybody's.
<1>7. \A b \in Addrs : IsPtr(d, b) => SlotAt(d, b).to # a
  <2>1. SUFFICES ASSUME NEW b \in Addrs, IsPtr(d, b)
        PROVE  SlotAt(d, b).to # a
    OBVIOUS
  <2>2. IsPtr(w, b) /\ SlotAt(d, b) = SlotAt(w, b)
    BY <1>3, <1>6, <2>1 DEF IsPtr
  <2>3. Has(w, SlotAt(w, b).to)
    BY <1>2, <2>2 DEF PagesOK, TargetsOK
  <2>4. QED
    BY <1>6, <2>2, <2>3
<1>8. IsRow(d, c.loc) /\ c.loc # a
  BY <1>2, <1>6 DEF KeepsRows, IsRow
<1>9. /\ PagesOK(n) /\ IsRow(n, c.loc) /\ KeyAt(n, c.loc) = c.key
      /\ KeepsRows(d, n, c.loc) /\ n.idx = w.idx
  BY <1>2, <1>3, <1>5, <1>6, <1>7, <1>8, RebuildPtr
<1> HIDE DEF n
<1>10. KeepsRows(w, n, c.loc)
  <2>1. ASSUME NEW b \in Addrs, IsRow(w, b), b # c.loc
        PROVE  IsRow(n, b) /\ KeyAt(n, b) = KeyAt(w, b)
    <3>1. b # a
      BY <1>6, <2>1 DEF IsRow
    <3>2. QED
      BY <1>6, <1>9, <2>1, <3>1 DEF KeepsRows
  <2>2. QED
    BY <2>1 DEF KeepsRows
<1>11. PagesOK(m) /\ IdxOK(m) /\ m.own = n.own /\ m.slots = n.slots
  BY <1>2, <1>9, <1>10, ReindexOK
<1> HIDE DEF m
<1>12. PlanOK(m, todo \ {c})
  <2>1. KeepsRows(w, m, c.loc)
    BY <1>10, <1>11, SamePages DEF KeepsRows
  <2>2. QED
    BY <1>2, <2>1, PlanRest
<1>13. QED
  BY <1>1, <1>5, <1>11, <1>12 DEF IInv

LEMMA DeleteNextInv ==
  ASSUME IInv, DeleteNext
  PROVE  IInv'
<1>1. PICK c \in todo :
        /\ w' = [DeleteRow(w, c.loc) EXCEPT !.idx = @ \ {Entry(c.old, c.loc)}]
        /\ todo' = todo \ {c}
        /\ UNCHANGED <<unique, db, call, batch>>
  BY DEF DeleteNext
<1> DEFINE n == DeleteRow(w, c.loc)
           m == [n EXCEPT !.idx = n.idx \ {Entry(c.old, c.loc)}]
<1>2. /\ c.loc \in Addrs /\ IsRow(w, c.loc) /\ KeyAt(w, c.loc) = c.old
      /\ PagesOK(w) /\ IdxOK(w) /\ PlanOK(w, todo) /\ todo \in SUBSET Changes
  BY DEF IInv, Changes, PlanOK
<1>3. PagesOK(n) /\ KeepsRows(w, n, c.loc) /\ n.idx = w.idx
  BY <1>2, DeleteRows
<1> HIDE DEF n
<1>4. PagesOK(m) /\ IdxOK(m) /\ m.own = n.own /\ m.slots = n.slots
  BY <1>2, <1>3, UnindexOK
<1>5. w' = m
  BY <1>1 DEF n
<1> HIDE DEF m
<1>6. PlanOK(m, todo \ {c})
  <2>1. KeepsRows(w, m, c.loc)
    BY <1>3, <1>4, SamePages DEF KeepsRows
  <2>2. QED
    BY <1>2, <2>1, PlanRest
<1>7. QED
  BY <1>1, <1>4, <1>5, <1>6 DEF IInv

LEMMA DeleteAtInv ==
  ASSUME IInv, RowNumbersFit, NEW a \in Addrs, DeleteAt(a)
  PROVE  IInv'
<1> DEFINE d == Reload(db)
           n == DeleteRow(d, a)
           k == KeyAt(d, a)
           m == [n EXCEPT !.idx = n.idx \ {Entry(k, a)}]
<1>1. PagesOK(d) /\ IdxOK(d)
  BY ReloadOK DEF IInv, RowNumbersFit
<1>2. IsRow(d, a) /\ Install(m)
  BY DEF DeleteAt
<1> HIDE DEF d
<1>3. PagesOK(n) /\ KeepsRows(d, n, a) /\ n.idx = d.idx
  BY <1>1, <1>2, DeleteRows
<1> HIDE DEF n
<1>4. PagesOK(m) /\ IdxOK(m)
  BY <1>1, <1>2, <1>3, UnindexOK
<1>5. QED
  BY <1>2, <1>4, InstallInv

LEMMA StepInv ==
  ASSUME IInv, RowNumbersFit, [Next]_vars
  PROVE  IInv'
<1>1. ASSUME NEW k \in Keys, NEW len \in Lens, Insert(k, len) PROVE IInv'
  BY <1>1, InsertInv
<1>2. ASSUME NEW k \in Keys \cup {Keep}, NEW len \in Lens \cup {Keep}, BeginUpdate(k, len)
      PROVE  IInv'
  BY <1>2, BeginUpdateInv
<1>3. CASE BeginDelete
  BY <1>3, BeginDeleteInv
<1>4. ASSUME NEW a \in Addrs, DeleteAt(a) PROVE IInv'
  BY <1>4, DeleteAtInv
<1>5. CASE UpdateInPlace
  BY <1>5, UpdateInPlaceInv
<1>6. CASE UpdateOverflow
  BY <1>6, UpdateOverflowInv
<1>7. CASE DeleteNext
  BY <1>7, DeleteNextInv
<1>8. CASE Commit
  BY <1>8, InstallInv DEF Commit, IInv
<1>9. CASE Abort
  BY <1>9, InstallInv DEF Abort, IInv
<1>10. CASE UNCHANGED vars
  BY <1>10 DEF vars, IInv
<1>11. QED
  BY <1>1, <1>2, <1>3, <1>4, <1>5, <1>6, <1>7, <1>8, <1>9, <1>10 DEF Next

-----------------------------------------------------------------------------
(* The theorems *)

\* The invariant holds throughout every behaviour in which no committed page has more rows
\* than the row byte of an index entry can tell apart (index.go:447).
THEOREM Invariance == Spec /\ []RowNumbersFit => []IInv
<1>1. Init => IInv
  BY InitInv
<1>2. IInv /\ RowNumbersFit /\ [Next]_vars => IInv'
  BY StepInv
<1>3. QED
  BY <1>1, <1>2, PTL DEF Spec

\* Every variable keeps its type, working copy and plan included.
THEOREM TypeCorrect == Spec /\ []RowNumbersFit => []TypeOK
<1>1. IInv => TypeOK
  BY DEF IInv, TypeOK, PagesOK, Changes
<1>2. QED
  BY <1>1, Invariance, PTL

\* What an index entry names is a live row with the entry's key, for every table, page
\* size and sequence of calls: also when an Update of several rows is refused entries by
\* its index on the way (index.go:331-343), which costs completeness but not soundness.
THEOREM IndexSoundness == Spec /\ []RowNumbersFit => []IndexSound
<1>1. IInv => IndexSound
  BY DEF IInv, IdxOK, IndexSound
<1>2. QED
  BY <1>1, Invariance, PTL

\* Overflow pointers and payloads stay paired off one to one.
THEOREM PointersPaired == Spec /\ []RowNumbersFit => []PointersExact
<1>1. ASSUME IInv PROVE PointersExact
  <2>1. ASSUME NEW a \in AllAddrs(db), SlotAt(db, a).kind = "ptr"
        PROVE  a \in Addrs /\ IsPtr(db, a)
    <3>1. PICK p \in db.own : a \in {p} \X (0..Len(db.slots[p]) - 1)
      BY DEF AllAddrs
    <3>2. p \in Pages /\ db \in Databases /\ RoomOK(db) /\ Len(db.slots[p]) \in Nat
      BY <1>1, <3>1 DEF IInv, PagesOK, Databases
    <3>3. a \in Pages \X Nat /\ Has(db, a)
      BY <3>1, <3>2 DEF Has
    <3>4. QED
      BY <2>1, <3>2, <3>3, SlotAddr DEF IsPtr
  <2>2. QED
    BY <1>1, <2>1 DEF PointersExact, IInv, PagesOK, TargetsOK, UnsharedOK
<1>2. IInv => PointersExact
  BY <1>1
<1>3. QED
  BY <1>2, Invariance, PTL

-----------------------------------------------------------------------------
(* Rows *)

\* The row at a, if there is one, is the same in d and n.
SameRow(d, n, a) == /\ IsRow(n, a) <=> IsRow(d, a)
                    /\ IsRow(d, a) => KeyAt(n, a) = KeyAt(d, a) /\ LenAt(n, a) = LenAt(d, a)

SameElse(d, n, a) == \A b \in Addrs : b # a => SameRow(d, n, b)

\* Whether there is a row is a matter of its own slot.
LEMMA RowBySlot ==
  ASSUME NEW d, PagesOK(d), NEW a \in Addrs
  PROVE  IsRow(d, a) <=> Has(d, a) /\ SlotAt(d, a).kind \in {"row", "ptr"}
  BY RowFacts DEF IsRow

\* Slots that are the same make rows that are the same, as payloads are in place.
LEMMA SameSlots ==
  ASSUME NEW d, PagesOK(d), NEW n, PagesOK(n), NEW b \in Addrs,
         Has(n, b) <=> Has(d, b),
         Has(d, b) => /\ SlotAt(n, b).kind = SlotAt(d, b).kind
                      /\ SlotAt(d, b).kind # "dead" => SlotAt(n, b) = SlotAt(d, b),
         IsPtr(d, b) => SlotAt(n, SlotAt(d, b).to) = SlotAt(d, SlotAt(d, b).to)
  PROVE  SameRow(d, n, b)
<1>1. IsRow(n, b) <=> IsRow(d, b)
  BY RowBySlot
<1>2. ASSUME IsRow(d, b) PROVE KeyAt(n, b) = KeyAt(d, b) /\ LenAt(n, b) = LenAt(d, b)
  <2>1. Has(d, b) /\ SlotAt(d, b).kind \in {"row", "ptr"}
    BY <1>2 DEF IsRow
  <2>2. SlotAt(n, b) = SlotAt(d, b)
    BY <2>1
  <2>3. SlotAt(d, b).kind = "ptr" => SlotAt(n, SlotAt(d, b).to) = SlotAt(d, SlotAt(d, b).to)
    BY <2>1 DEF IsPtr
  <2>4. QED
    BY <2>1, <2>2, <2>3 DEF KeyAt, LenAt, Holder
<1>3. QED
  BY <1>1, <1>2 DEF SameRow

\* A new slot: its address had no row, and has one unless the slot is a payload.
LEMMA AppendSame ==
  ASSUME NEW d, PagesOK(d), NEW p \in Pages, NEW s \in Slots, CanAppend(d, p, s.len),
         s.kind \in {"row", "payload"}, s.key \in Keys
  PROVE  LET n == AppendSlot(d, p, s)
             a == NextAddr(d, p)
         IN /\ SameElse(d, n, a)
            /\ ~ IsRow(d, a)
            /\ IsRow(n, a) <=> s.kind = "row"
            /\ s.kind = "row" => KeyAt(n, a) = s.key /\ LenAt(n, a) = s.len
<1> DEFINE n == AppendSlot(d, p, s)
           a == NextAddr(d, p)
<1>1. /\ PagesOK(n)
      /\ a \in Addrs /\ ~ Has(d, a) /\ Has(n, a) /\ SlotAt(n, a) = s
      /\ \A b \in Addrs : Has(d, b) => Has(n, b) /\ SlotAt(n, b) = SlotAt(d, b)
      /\ \A b \in Addrs : Has(n, b) => b = a \/ Has(d, b)
  BY AppendRows
<1> HIDE DEF n, a
<1>2. ASSUME NEW b \in Addrs, b # a PROVE SameRow(d, n, b)
  <2>1. (Has(n, b) <=> Has(d, b)) /\ (Has(d, b) => SlotAt(n, b) = SlotAt(d, b))
    BY <1>1, <1>2
  <2>2. IsPtr(d, b) => SlotAt(n, SlotAt(d, b).to) = SlotAt(d, SlotAt(d, b).to)
    BY <1>1 DEF PagesOK, KindOK, TargetsOK, IsPtr
  <2>3. QED
    BY <1>1, <2>1, <2>2, SameSlots
<1>3. ~ IsRow(d, a) /\ (IsRow(n, a) <=> s.kind = "row")
  BY <1>1, RowBySlot DEF IsRow
<1>4. s.kind = "row" => KeyAt(n, a) = s.key /\ LenAt(n, a) = s.len
  BY <1>1 DEF KeyAt, LenAt, Holder
<1>5. QED
  BY <1>2, <1>3, <1>4 DEF SameElse, n, a

\* A rebuilt page keeps its other slots, except that deleted ones lose their bytes.
LEMMA RebuildSlots ==
  ASSUME NEW d \in Databases, NEW a \in Addrs, Has(d, a), NEW s,
         NEW b \in Addrs, Has(d, b), b # a, SlotAt(d, b).kind # "dead"
  PROVE  SlotAt(Rebuild(d, a, s), b) = SlotAt(d, b)
<1> DEFINE p == a[1]
           ss == Repacked(d.slots[p], a[2] + 1, s)
<1>1. /\ a[1] \in Pages /\ a = <<a[1], a[2]>> /\ a[2] \in Nat
      /\ b[1] \in Pages /\ b = <<b[1], b[2]>> /\ b[2] \in Nat
      /\ b[2] + 1 \in DOMAIN d.slots[b[1]]
  BY SlotPlace
<1>2. Rebuild(d, a, s).slots = [d.slots EXCEPT ![p] = ss]
  BY DEF Rebuild, Databases
<1>3. CASE b[1] = p
  <2>1. b[2] + 1 # a[2] + 1
    BY <1>1, <1>3
  <2>2. d.slots[p][b[2] + 1].kind # "dead"
    BY <1>3 DEF SlotAt
  <2>3. ss[b[2] + 1] = d.slots[p][b[2] + 1]
    BY <1>1, <1>3, <2>1, <2>2 DEF Repacked
  <2>4. QED
    BY <1>1, <1>2, <1>3, <2>3 DEF SlotAt, Databases
<1>4. CASE b[1] # p
  BY <1>1, <1>2, <1>4 DEF SlotAt, Databases
<1>5. QED
  BY <1>3, <1>4

LEMMA RebuildSame ==
  ASSUME NEW d, PagesOK(d), NEW a \in Addrs, IsRow(d, a), NEW s \in Slots,
         RebuildFits(d, a, s), PagesOK(Rebuild(d, a, s))
  PROVE  LET n == Rebuild(d, a, s)
         IN /\ SameElse(d, n, a)
            /\ SlotAt(n, a) = s
            /\ \A b \in Addrs : Has(n, b) <=> Has(d, b)
            /\ \A b \in Addrs : Has(d, b) /\ b # a /\ SlotAt(d, b).kind # "dead"
                                  => SlotAt(n, b) = SlotAt(d, b)
            /\ n.count = d.count
<1> DEFINE n == Rebuild(d, a, s)
<1>1. Has(d, a) /\ SlotAt(d, a).kind \in {"row", "ptr"} /\ d \in Databases /\ RoomOK(d)
  BY DEF IsRow, PagesOK
<1>2. /\ SlotAt(n, a) = s /\ n.count = d.count
      /\ \A b \in Addrs : Has(n, b) <=> Has(d, b)
      /\ \A b \in Addrs : Has(d, b) /\ b # a => SlotAt(n, b).kind = SlotAt(d, b).kind
  BY <1>1, RebuildFacts
<1>3. \A b \in Addrs : Has(d, b) /\ b # a /\ SlotAt(d, b).kind # "dead"
                         => SlotAt(n, b) = SlotAt(d, b)
  BY <1>1, RebuildSlots
<1>4. PagesOK(n)
  OBVIOUS
<1> HIDE DEF n
<1>5. ASSUME NEW b \in Addrs, b # a PROVE SameRow(d, n, b)
  <2>1. ASSUME IsPtr(d, b) PROVE SlotAt(n, SlotAt(d, b).to) = SlotAt(d, SlotAt(d, b).to)
    <3>1. /\ SlotAt(d, b).to \in Addrs /\ Has(d, SlotAt(d, b).to)
          /\ SlotAt(d, SlotAt(d, b).to).kind = "payload"
      BY <2>1 DEF PagesOK, KindOK, TargetsOK, IsPtr
    <3>2. SlotAt(d, b).to # a
      BY <1>1, <3>1
    <3>3. QED
      BY <1>3, <3>1, <3>2
  <2>2. QED
    BY <1>2, <1>3, <1>4, <1>5, <2>1, SameSlots
<1>6. QED
  BY <1>2, <1>3, <1>5 DEF SameElse, n

\* Rewriting a row in place ...
LEMMA RebuildRowSame ==
  ASSUME NEW d, PagesOK(d), NEW a \in Addrs, IsRow(d, a), NEW k \in Keys, NEW l \in Nat,
         RebuildFits(d, a, RowSlot("row", k, l))
  PROVE  LET n == Rebuild(d, a, RowSlot("row", k, l))
         IN /\ SameElse(d, n, a) /\ LenAt(n, a) = l /\ n.count = d.count
            /\ \A b \in Addrs : Has(n, b) <=> Has(d, b)
<1> DEFINE s == RowSlot("row", k, l)
           n == Rebuild(d, a, s)
<1>1. s \in Slots /\ s.kind = "row" /\ s.len = l
  BY DEF RowSlot, Slots
<1>2. PagesOK(n)
  BY RebuildRow
<1> HIDE DEF s
<1>3. /\ SameElse(d, n, a) /\ SlotAt(n, a) = s /\ n.count = d.count
      /\ \A b \in Addrs : Has(n, b) <=> Has(d, b)
  BY <1>1, <1>2, RebuildSame DEF s
<1>4. LenAt(n, a) = l
  BY <1>1, <1>3 DEF LenAt, Holder
<1>5. QED
  BY <1>3, <1>4 DEF s

\* ... or turning it into a pointer changes that row alone.
LEMMA RebuildPtrSame ==
  ASSUME NEW d, PagesOK(d), NEW a \in Addrs, IsRow(d, a),
         NEW t \in Addrs, Has(d, t), SlotAt(d, t).kind = "payload",
         \A b \in Addrs : IsPtr(d, b) => SlotAt(d, b).to # t,
         RebuildFits(d, a, PtrSlot(t))
  PROVE  LET n == Rebuild(d, a, PtrSlot(t))
         IN /\ SameElse(d, n, a) /\ LenAt(n, a) = SlotAt(d, t).len /\ n.count = d.count
            /\ \A b \in Addrs : Has(n, b) <=> Has(d, b)
<1> DEFINE s == PtrSlot(t)
           n == Rebuild(d, a, s)
<1>1. s \in Slots /\ s.kind = "ptr" /\ s.to = t
  BY DEF PtrSlot, PtrLen, Slots
<1>2. PagesOK(n)
  BY RebuildPtr
<1>3. t # a
  BY DEF IsRow
<1> HIDE DEF s
<1>4. /\ SameElse(d, n, a) /\ SlotAt(n, a) = s /\ n.count = d.count
      /\ \A b \in Addrs : Has(n, b) <=> Has(d, b)
      /\ SlotAt(n, t) = SlotAt(d, t)
  BY <1>1, <1>2, <1>3, RebuildSame DEF s
<1>5. LenAt(n, a) = SlotAt(d, t).len
  BY <1>1, <1>4 DEF LenAt, Holder
<1>6. QED
  BY <1>4, <1>5 DEF s

\* Deleting a row removes it, takes one off the count, and leaves the other rows.
LEMMA DeleteSame ==
  ASSUME NEW d, PagesOK(d), NEW a \in Addrs, IsRow(d, a)
  PROVE  LET n == DeleteRow(d, a)
         IN /\ SameElse(d, n, a) /\ ~ IsRow(n, a)
            /\ n.count = IF d.count > 0 THEN d.count - 1 ELSE 0
            /\ \A b \in Addrs : Has(n, b) <=> Has(d, b)
<1> DEFINE t == SlotAt(d, a).to
           m == IF SlotAt(d, a).kind = "ptr" THEN Kill(d, t) ELSE d
           g == Kill(m, a)
           n == DeleteRow(d, a)
<1>1. Has(d, a) /\ SlotAt(d, a).kind \in {"row", "ptr"} /\ d \in Databases /\ RoomOK(d)
  BY DEF IsRow, PagesOK
<1>2. /\ m \in Databases /\ RoomOK(m) /\ Has(m, a) /\ m.count = d.count
      /\ \A b \in Addrs : Has(m, b) <=> Has(d, b)
      /\ \A b \in Addrs : Has(d, b) /\ ~ (SlotAt(d, a).kind = "ptr" /\ b = t)
                            => SlotAt(m, b) = SlotAt(d, b)
      /\ SlotAt(d, a).kind = "ptr" => /\ t \in Addrs /\ Has(d, t) /\ t # a
                                      /\ SlotAt(m, t).kind = "dead"
  <2>1. CASE SlotAt(d, a).kind = "ptr"
    <3>1. t \in Addrs /\ Has(d, t) /\ SlotAt(d, t).kind = "payload"
      BY <1>1, <2>1 DEF PagesOK, KindOK, TargetsOK, IsPtr
    <3>2. t # a
      BY <2>1, <3>1
    <3>3. QED
      BY <1>1, <2>1, <3>1, <3>2, KillFacts
  <2>2. CASE SlotAt(d, a).kind # "ptr"
    BY <1>1, <2>2
  <2>3. QED
    BY <2>1, <2>2
<1> HIDE DEF m
<1>3. /\ g.count = d.count /\ SlotAt(g, a).kind = "dead"
      /\ \A b \in Addrs : Has(g, b) <=> Has(d, b)
      /\ \A b \in Addrs : Has(d, b) /\ b # a /\ ~ (SlotAt(d, a).kind = "ptr" /\ b = t)
                            => SlotAt(g, b) = SlotAt(d, b)
      /\ SlotAt(d, a).kind = "ptr" => SlotAt(g, t).kind = "dead"
  BY <1>2, KillFacts
<1>4. n = [g EXCEPT !.count = IF g.count > 0 THEN g.count - 1 ELSE 0] /\ g \in Databases
  BY <1>2, KillFacts DEF DeleteRow, m
<1> HIDE DEF g
<1>5. /\ n.own = g.own /\ n.slots = g.slots
      /\ n.count = IF d.count > 0 THEN d.count - 1 ELSE 0
  BY <1>3, <1>4 DEF Databases
<1>6. PagesOK(n)
  BY DeleteRows
<1> HIDE DEF n
<1>7. /\ SlotAt(n, a).kind = "dead"
      /\ \A b \in Addrs : Has(n, b) <=> Has(d, b)
      /\ \A b \in Addrs : Has(d, b) /\ b # a /\ ~ (SlotAt(d, a).kind = "ptr" /\ b = t)
                            => SlotAt(n, b) = SlotAt(d, b)
      /\ SlotAt(d, a).kind = "ptr" => SlotAt(n, t).kind = "dead"
  BY <1>3, <1>5, SamePages
<1>8. ~ IsRow(n, a)
  BY <1>7 DEF IsRow
<1>9. ASSUME NEW b \in Addrs, b # a PROVE SameRow(d, n, b)
  <2>1. CASE SlotAt(d, a).kind = "ptr" /\ b = t
    <3>1. SlotAt(d, b).kind = "payload" /\ Has(d, b)
      BY <1>1, <2>1 DEF PagesOK, TargetsOK, IsPtr
    <3>2. ~ IsRow(d, b)
      BY <3>1 DEF IsRow
    <3>3. ~ IsRow(n, b)
      BY <1>7, <2>1 DEF IsRow
    <3>4. QED
      BY <3>2, <3>3 DEF SameRow
  <2>2. CASE ~ (SlotAt(d, a).kind = "ptr" /\ b = t)
    <3>1. Has(d, b) => SlotAt(n, b) = SlotAt(d, b)
      BY <1>7, <1>9, <2>2
    <3>2. ASSUME IsPtr(d, b) PROVE SlotAt(n, SlotAt(d, b).to) = SlotAt(d, SlotAt(d, b).to)
      <4>1. /\ SlotAt(d, b).to \in Addrs /\ Has(d, SlotAt(d, b).to)
            /\ SlotAt(d, SlotAt(d, b).to).kind = "payload"
        BY <3>2 DEF PagesOK, KindOK, TargetsOK, IsPtr
      <4>2. SlotAt(d, b).to # a
        BY <1>1, <4>1
      <4>3. SlotAt(d, a).kind = "ptr" => SlotAt(d, b).to # t
        BY <1>1, <1>9, <3>2 DEF PagesOK, UnsharedOK, IsPtr
      <4>4. QED
        BY <1>7, <4>1, <4>2, <4>3
    <3>3. QED
      BY <1>6, <1>7, <3>1, <3>2, SameSlots
  <2>3. QED
    BY <2>1, <2>2
<1>10. QED
  BY <1>5, <1>7, <1>8, <1>9 DEF SameElse, n

-----------------------------------------------------------------------------
(* How many rows there are *)

LEMMA AddrSets ==
  ASSUME NEW d, PagesOK(d)
  PROVE  /\ AllAddrs(d) = {a \in Addrs : Has(d, a)}
         /\ RowAddrs(d) = {a \in Addrs : IsRow(d, a)}
<1>1. d \in Databases /\ RoomOK(d)
  BY DEF PagesOK
<1>2. ASSUME NEW a \in AllAddrs(d) PROVE a \in Addrs /\ Has(d, a)
  <2>1. PICK p \in d.own : a \in {p} \X (0..Len(d.slots[p]) - 1)
    BY DEF AllAddrs
  <2>2. p \in Pages /\ Len(d.slots[p]) \in Nat
    BY <1>1, <2>1 DEF Databases
  <2>3. a \in Pages \X Nat /\ Has(d, a)
    BY <2>1, <2>2 DEF Has
  <2>4. QED
    BY <1>1, <2>3, SlotAddr
<1>3. ASSUME NEW a \in Addrs, Has(d, a) PROVE a \in AllAddrs(d)
  <2>1. /\ a[1] \in d.own /\ a[2] \in Nat /\ a = <<a[1], a[2]>>
        /\ Len(d.slots[a[1]]) \in Nat /\ a[2] + 1 \in 1..Len(d.slots[a[1]])
    BY <1>1, <1>3, SlotPlace
  <2>2. a[2] \in 0..Len(d.slots[a[1]]) - 1
    BY <2>1
  <2>3. a \in {a[1]} \X (0..Len(d.slots[a[1]]) - 1)
    BY <2>1, <2>2
  <2>4. QED
    BY <2>1, <2>3 DEF AllAddrs
<1>4. AllAddrs(d) = {a \in Addrs : Has(d, a)}
  BY <1>2, <1>3
<1>5. \A a \in Addrs : IsRow(d, a) => Has(d, a)
  BY DEF IsRow
<1>6. QED
  BY <1>4, <1>5 DEF RowAddrs

LEMMA FiniteRows ==
  ASSUME NEW d, PagesOK(d)
  PROVE  IsFiniteSet(RowAddrs(d)) /\ Cardinality(RowAddrs(d)) \in Nat
<1>1. IsFiniteSet(Pages) /\ IsFiniteSet(0..PageCap)
  BY FS_Interval, SizesAssumption DEF Pages
<1>2. IsFiniteSet(Pages \X (0..PageCap))
  BY <1>1, FS_Product
<1>3. Addrs \subseteq Pages \X (0..PageCap)
  BY DEF Addrs
<1>4. RowAddrs(d) \subseteq Pages \X (0..PageCap)
  BY <1>3, AddrSets
<1>5. QED
  BY <1>2, <1>4, FS_Subset, FS_CardinalityType

CountOK(d) == d.count = Cardinality(RowAddrs(d))

\* The count goes with the rows.
LEMMA CountSame ==
  ASSUME NEW d, PagesOK(d), CountOK(d), NEW n, PagesOK(n), n.count = d.count,
         \A a \in Addrs : IsRow(n, a) <=> IsRow(d, a)
  PROVE  CountOK(n)
<1>1. RowAddrs(n) = RowAddrs(d)
  BY AddrSets
<1>2. QED
  BY <1>1 DEF CountOK

LEMMA CountMore ==
  ASSUME NEW d, PagesOK(d), CountOK(d), NEW n, PagesOK(n), n.count = d.count + 1,
         NEW a \in Addrs, SameElse(d, n, a), ~ IsRow(d, a), IsRow(n, a)
  PROVE  CountOK(n)
<1>1. RowAddrs(n) = RowAddrs(d) \cup {a} /\ a \notin RowAddrs(d)
  BY AddrSets DEF SameElse, SameRow
<1>2. QED
  BY <1>1, FiniteRows, FS_AddElement DEF CountOK

LEMMA CountLess ==
  ASSUME NEW d, PagesOK(d), CountOK(d), NEW n, PagesOK(n),
         n.count = IF d.count > 0 THEN d.count - 1 ELSE 0,
         NEW a \in Addrs, SameElse(d, n, a), IsRow(d, a), ~ IsRow(n, a)
  PROVE  CountOK(n)
<1>1. RowAddrs(n) = RowAddrs(d) \ {a} /\ a \in RowAddrs(d)
  BY AddrSets DEF SameElse, SameRow
<1>2. /\ Cardinality(RowAddrs(n)) = Cardinality(RowAddrs(d)) - 1
      /\ Cardinality(RowAddrs(d)) \in Nat /\ Cardinality(RowAddrs(n)) \in Nat
  BY <1>1, FiniteRows, FS_RemoveElement
<1>3. QED
  BY <1>2 DEF CountOK

-----------------------------------------------------------------------------
(* What a call has done so far *)

Done == batch \ todo

\* The assignment an Update makes, to the rows it selected.
Assigned(k, l) == \A c \in batch : /\ c.key = IF k = Keep THEN KeyAt(db, c.loc) ELSE k
                                   /\ c.len = IF l = Keep THEN LenAt(db, c.loc) ELSE l

\* The working copy has the changes that are done, and is otherwise as the database is.
Progress ==
  /\ PlanOK(db, batch)
  /\ \A a \in Addrs : (\A c \in Done : c.loc # a) => SameRow(db, w, a)
  /\ call = "update" => \A c \in Done : /\ IsRow(w, c.loc)
                                        /\ KeyAt(w, c.loc) = c.key /\ LenAt(w, c.loc) = c.len
  /\ call = "delete" => \A c \in Done : ~ IsRow(w, c.loc)
  /\ \A a \in Addrs : Has(db, a) => Has(w, a)
  /\ call = "delete" => \A a \in Addrs : Has(w, a) => Has(db, a)
  /\ call = "update" => \E k \in Keys \cup {Keep}, l \in Lens \cup {Keep} : Assigned(k, l)

RInv == IInv /\ CountOK(db) /\ CountOK(w) /\ Progress

\* One round of a call: the change c is done, and only its row and its index entry are touched.
Round(c) == /\ todo' = todo \ {c} /\ UNCHANGED <<unique, db, call, batch>>
            /\ SameElse(w, w', c.loc)
UpdateRound(c) == /\ Round(c) /\ call = "update"
                  /\ IsRow(w', c.loc) /\ KeyAt(w', c.loc) = c.key
                  /\ w'.idx = Reindex(w.idx, c)
DeleteRound(c) == /\ Round(c) /\ call = "delete" /\ ~ IsRow(w', c.loc)
                  /\ w'.idx = w.idx \ {Entry(c.old, c.loc)}

LEMMA InitRows == Init => RInv
<1> SUFFICES ASSUME Init PROVE RInv
  OBVIOUS
<1>1. IInv
  BY InitInv
<1>2. RowAddrs(NewTable) = {} /\ NewTable.count = 0
  BY DEF NewTable, RowAddrs, AllAddrs
<1>3. CountOK(NewTable)
  BY <1>2, FS_EmptySet DEF CountOK
<1>4. Progress
  BY DEF Init, Progress, PlanOK, Done, SameRow
<1>5. QED
  BY <1>1, <1>3, <1>4 DEF Init, RInv

\* Putting a database with a true count in place leaves nothing undone.
LEMMA InstallRows ==
  ASSUME NEW d, CountOK(d), Install(d)
  PROVE  CountOK(db)' /\ CountOK(w)' /\ Progress'
<1>1. CountOK(db)' /\ CountOK(w)'
  BY DEF Install
<1>2. Progress'
  BY DEF Install, Progress, PlanOK, Done, SameRow
<1>3. QED
  BY <1>1, <1>2

\* Reading the database back loses no row.
LEMMA ReloadRows ==
  ASSUME NEW d, PagesOK(d), CountOK(d), PagesOK(Reload(d)),
         Reload(d).own = d.own, Reload(d).slots = d.slots
  PROVE  /\ CountOK(Reload(d)) /\ Reload(d).count = d.count
         /\ \A a : SameRow(d, Reload(d), a) /\ (Has(Reload(d), a) <=> Has(d, a))
<1>1. \A a : SameRow(d, Reload(d), a) /\ (Has(Reload(d), a) <=> Has(d, a))
  BY SamePages DEF SameRow
<1>2. Reload(d).count = d.count
  BY DEF Reload, PagesOK, Databases
<1>3. QED
  BY <1>1, <1>2, CountSame DEF SameRow

\* One round of a call: the row of c is done, no other row is touched.
LEMMA RoundRows ==
  ASSUME IInv, Progress, NEW c \in todo, NEW m, w' = m, todo' = todo \ {c},
         UNCHANGED <<unique, db, call, batch>>,
         SameElse(w, m, c.loc),
         call = "update" => IsRow(m, c.loc) /\ KeyAt(m, c.loc) = c.key /\ LenAt(m, c.loc) = c.len,
         call = "delete" => ~ IsRow(m, c.loc),
         \A a \in Addrs : Has(w, a) => Has(m, a),
         call = "delete" => \A a \in Addrs : Has(m, a) => Has(w, a)
  PROVE  Progress'
<1>1. /\ batch \subseteq Changes /\ c \in batch /\ todo \subseteq batch
      /\ Done' = Done \cup {c}
      /\ \A e \in Done : e \in batch /\ e.loc \in Addrs
      /\ \A e \in batch : e.loc = c.loc => e = c
  BY DEF IInv, Done, Changes, Progress, PlanOK
<1>2. ASSUME NEW e \in Done' PROVE e = c \/ (e \in Done /\ e.loc # c.loc)
  <2>1. e \in Done \/ e = c
    BY <1>1
  <2>2. e \in Done => e # c
    BY DEF Done
  <2>3. QED
    BY <1>1, <2>1, <2>2
<1>3. ASSUME NEW a \in Addrs, \A e \in Done' : e.loc # a PROVE SameRow(db, m, a)
  <2>1. a # c.loc /\ \A e \in Done : e.loc # a
    BY <1>1, <1>3
  <2>2. SameRow(db, w, a) /\ SameRow(w, m, a)
    BY <2>1 DEF Progress, SameElse
  <2>3. QED
    BY <2>2 DEF SameRow
<1>4. ASSUME NEW e \in Done', call = "update"
      PROVE  IsRow(m, e.loc) /\ KeyAt(m, e.loc) = e.key /\ LenAt(m, e.loc) = e.len
  BY <1>1, <1>2, <1>4 DEF Progress, SameElse, SameRow
<1>5. ASSUME NEW e \in Done', call = "delete" PROVE ~ IsRow(m, e.loc)
  BY <1>1, <1>2, <1>5 DEF Progress, SameElse, SameRow
<1>6. /\ \A a \in Addrs : Has(db, a) => Has(m, a)
      /\ call = "delete" => \A a \in Addrs : Has(m, a) => Has(db, a)
  BY DEF Progress
<1>7. call = "update" => \E k \in Keys \cup {Keep}, l \in Lens \cup {Keep} : Assigned(k, l)'
  BY DEF Progress, Assigned
<1>8. PlanOK(db, batch)'
  BY DEF Progress
<1>9. QED
  BY <1>3, <1>4, <1>5, <1>6, <1>7, <1>8 DEF Progress

-----------------------------------------------------------------------------
(* Each action keeps the count and the record of the call *)

\* Other entries in the index, on the same pages.
LEMMA IndexOnly ==
  ASSUME NEW n, PagesOK(n), NEW I, NEW m, m = [n EXCEPT !.idx = I]
  PROVE  /\ m.count = n.count /\ m.idx = I
         /\ \A a : SameRow(n, m, a) /\ (Has(m, a) <=> Has(n, a))
         /\ \A a : (IsRow(m, a) <=> IsRow(n, a)) /\ KeyAt(m, a) = KeyAt(n, a) /\ LenAt(m, a) = LenAt(n, a)
<1>1. m.own = n.own /\ m.slots = n.slots /\ m.count = n.count /\ m.idx = I
  BY DEF PagesOK, Databases
<1>2. QED
  BY <1>1, SamePages DEF SameRow

LEMMA UpdateInPlaceRows ==
  ASSUME RInv, IInv', UpdateInPlace
  PROVE  /\ CountOK(db)' /\ CountOK(w)' /\ Progress'
         /\ \E c \in todo : UpdateRound(c)
<1>1. PICK c \in todo :
        /\ call = "update"
        /\ RebuildFits(w, c.loc, RowSlot("row", c.key, c.len))
        /\ w' = [Rebuild(w, c.loc, RowSlot("row", c.key, c.len)) EXCEPT !.idx = Reindex(@, c)]
        /\ todo' = todo \ {c}
        /\ UNCHANGED <<unique, db, call, batch>>
  BY DEF UpdateInPlace
<1> DEFINE n == Rebuild(w, c.loc, RowSlot("row", c.key, c.len))
           m == [n EXCEPT !.idx = Reindex(n.idx, c)]
<1>2. /\ c.loc \in Addrs /\ c.key \in Keys /\ c.len \in Nat
      /\ IsRow(w, c.loc) /\ PagesOK(w) /\ PagesOK(w')
  BY DEF RInv, IInv, Changes, PlanOK
<1>3. /\ PagesOK(n) /\ IsRow(n, c.loc) /\ KeyAt(n, c.loc) = c.key
      /\ SameElse(w, n, c.loc) /\ LenAt(n, c.loc) = c.len /\ n.count = w.count /\ n.idx = w.idx
      /\ \A b \in Addrs : Has(n, b) <=> Has(w, b)
  BY <1>1, <1>2, RebuildRow, RebuildRowSame
<1>4. w' = m
  BY <1>1
<1> HIDE DEF n
<1>5. /\ m.count = n.count /\ m.idx = Reindex(n.idx, c)
      /\ \A a : (IsRow(m, a) <=> IsRow(n, a)) /\ KeyAt(m, a) = KeyAt(n, a) /\ LenAt(m, a) = LenAt(n, a)
      /\ \A a : Has(m, a) <=> Has(n, a)
  BY <1>3, IndexOnly
<1> HIDE DEF m
<1>6. /\ SameElse(w, m, c.loc) /\ m.count = w.count
      /\ IsRow(m, c.loc) /\ KeyAt(m, c.loc) = c.key /\ LenAt(m, c.loc) = c.len
      /\ \A b \in Addrs : Has(m, b) <=> Has(w, b)
  BY <1>3, <1>5 DEF SameElse, SameRow
<1>7. CountOK(m)
  <2>1. \A a \in Addrs : IsRow(m, a) <=> IsRow(w, a)
    BY <1>2, <1>6 DEF SameElse, SameRow
  <2>2. QED
    BY <1>2, <1>4, <1>6, <2>1, CountSame DEF RInv
<1>8. Progress'
  BY <1>1, <1>4, <1>6, RoundRows DEF RInv
<1>9. UpdateRound(c)
  BY <1>1, <1>3, <1>4, <1>5, <1>6 DEF UpdateRound, Round
<1>10. QED
  BY <1>1, <1>4, <1>7, <1>8, <1>9 DEF RInv

LEMMA UpdateOverflowRows ==
  ASSUME RInv, IInv', UpdateOverflow
  PROVE  /\ CountOK(db)' /\ CountOK(w)' /\ Progress'
         /\ \E c \in todo : UpdateRound(c)
<1> DEFINE Step(c, p) ==
             LET a == NextAddr(w, p)
                 d == AppendSlot(w, p, RowSlot("payload", c.key, c.len))
             IN /\ call = "update"
                /\ CanAppend(w, p, c.len)
                /\ RebuildFits(d, c.loc, PtrSlot(a))
                /\ w' = [Rebuild(d, c.loc, PtrSlot(a)) EXCEPT !.idx = Reindex(@, c)]
                /\ todo' = todo \ {c}
                /\ UNCHANGED <<unique, db, call, batch>>
<1>0. \E c \in todo : \E p \in Placement(w, c.len) : Step(c, p)
  BY DEF UpdateOverflow
<1>01. PICK c \in todo : \E p \in Placement(w, c.len) : Step(c, p)
  BY <1>0
<1>1. PICK p \in Placement(w, c.len) : Step(c, p)
  BY <1>01
<1> DEFINE s == RowSlot("payload", c.key, c.len)
           a == NextAddr(w, p)
           d == AppendSlot(w, p, s)
           n == Rebuild(d, c.loc, PtrSlot(a))
           m == [n EXCEPT !.idx = Reindex(n.idx, c)]
<1>2. /\ c.loc \in Addrs /\ c.key \in Keys /\ c.len \in Nat
      /\ IsRow(w, c.loc) /\ PagesOK(w) /\ PagesOK(w')
  BY DEF RInv, IInv, Changes, PlanOK
<1>3. s \in Slots /\ s.kind = "payload" /\ s.key = c.key /\ s.len = c.len
  BY <1>2 DEF RowSlot, Slots
<1>4. p \in Pages /\ CanAppend(w, p, s.len)
  BY <1>1, <1>2, <1>3, PlacementFacts DEF PagesOK
<1>5. /\ call = "update" /\ RebuildFits(d, c.loc, PtrSlot(a)) /\ w' = m
      /\ todo' = todo \ {c} /\ UNCHANGED <<unique, db, call, batch>>
  BY <1>1
<1> HIDE DEF s
<1>6. /\ PagesOK(d)
      /\ a \in Addrs /\ ~ Has(w, a) /\ Has(d, a) /\ SlotAt(d, a) = s
      /\ \A b \in Addrs : Has(w, b) => Has(d, b) /\ SlotAt(d, b) = SlotAt(w, b)
      /\ \A b \in Addrs : Has(d, b) => b = a \/ Has(w, b)
      /\ d.count = w.count /\ d.idx = w.idx
      /\ SameElse(w, d, a) /\ ~ IsRow(w, a) /\ ~ IsRow(d, a)
  BY <1>2, <1>3, <1>4, AppendRows, AppendSame
<1> HIDE DEF a, d
<1>7. \A b \in Addrs : IsPtr(d, b) => SlotAt(d, b).to # a
  <2>1. SUFFICES ASSUME NEW b \in Addrs, IsPtr(d, b)
        PROVE  SlotAt(d, b).to # a
    OBVIOUS
  <2>2. IsPtr(w, b) /\ SlotAt(d, b) = SlotAt(w, b)
    BY <1>3, <1>6, <2>1 DEF IsPtr
  <2>3. Has(w, SlotAt(w, b).to)
    BY <1>2, <2>2 DEF PagesOK, TargetsOK
  <2>4. QED
    BY <1>6, <2>2, <2>3
<1>8. \A b \in Addrs : SameRow(w, d, b)
  BY <1>6 DEF SameElse, SameRow
<1>9. /\ PagesOK(n) /\ IsRow(n, c.loc) /\ KeyAt(n, c.loc) = c.key
      /\ SameElse(d, n, c.loc) /\ LenAt(n, c.loc) = c.len /\ n.count = d.count
      /\ n.idx = d.idx
      /\ \A b \in Addrs : Has(n, b) <=> Has(d, b)
  <2>1. IsRow(d, c.loc)
    BY <1>2, <1>8 DEF SameRow
  <2>2. QED
    BY <1>2, <1>3, <1>5, <1>6, <1>7, <2>1, RebuildPtr, RebuildPtrSame
<1> HIDE DEF n
<1>10. /\ m.count = n.count /\ m.idx = Reindex(n.idx, c)
       /\ \A b : (IsRow(m, b) <=> IsRow(n, b)) /\ KeyAt(m, b) = KeyAt(n, b) /\ LenAt(m, b) = LenAt(n, b)
       /\ \A b : Has(m, b) <=> Has(n, b)
  BY <1>9, IndexOnly
<1> HIDE DEF m
<1>11. /\ SameElse(w, m, c.loc) /\ m.count = w.count
       /\ IsRow(m, c.loc) /\ KeyAt(m, c.loc) = c.key /\ LenAt(m, c.loc) = c.len
       /\ \A b \in Addrs : Has(w, b) => Has(m, b)
  BY <1>6, <1>8, <1>9, <1>10 DEF SameElse, SameRow
<1>12. CountOK(m)
  <2>1. \A b \in Addrs : IsRow(m, b) <=> IsRow(w, b)
    BY <1>2, <1>11 DEF SameElse, SameRow
  <2>2. QED
    BY <1>2, <1>5, <1>11, <2>1, CountSame DEF RInv
<1>13. Progress'
  BY <1>5, <1>11, RoundRows DEF RInv
<1>14. UpdateRound(c)
  BY <1>5, <1>6, <1>9, <1>10, <1>11 DEF UpdateRound, Round
<1>15. QED
  BY <1>5, <1>12, <1>13, <1>14 DEF RInv

LEMMA DeleteNextRows ==
  ASSUME RInv, IInv', DeleteNext
  PROVE  /\ CountOK(db)' /\ CountOK(w)' /\ Progress'
         /\ \E c \in todo : DeleteRound(c)
<1>1. PICK c \in todo :
        /\ call = "delete"
        /\ w' = [DeleteRow(w, c.loc) EXCEPT !.idx = @ \ {Entry(c.old, c.loc)}]
        /\ todo' = todo \ {c}
        /\ UNCHANGED <<unique, db, call, batch>>
  BY DEF DeleteNext
<1> DEFINE n == DeleteRow(w, c.loc)
           m == [n EXCEPT !.idx = n.idx \ {Entry(c.old, c.loc)}]
<1>2. c.loc \in Addrs /\ IsRow(w, c.loc) /\ PagesOK(w) /\ PagesOK(w')
  BY DEF RInv, IInv, Changes, PlanOK
<1>3. /\ PagesOK(n) /\ SameElse(w, n, c.loc) /\ ~ IsRow(n, c.loc)
      /\ n.count = IF w.count > 0 THEN w.count - 1 ELSE 0
      /\ n.idx = w.idx
      /\ \A b \in Addrs : Has(n, b) <=> Has(w, b)
  BY <1>2, DeleteRows, DeleteSame
<1>4. w' = m
  BY <1>1
<1> HIDE DEF n
<1>5. /\ m.count = n.count /\ m.idx = n.idx \ {Entry(c.old, c.loc)}
      /\ \A a : (IsRow(m, a) <=> IsRow(n, a)) /\ KeyAt(m, a) = KeyAt(n, a) /\ LenAt(m, a) = LenAt(n, a)
      /\ \A a : Has(m, a) <=> Has(n, a)
  BY <1>3, IndexOnly
<1> HIDE DEF m
<1>6. /\ SameElse(w, m, c.loc) /\ ~ IsRow(m, c.loc)
      /\ m.count = IF w.count > 0 THEN w.count - 1 ELSE 0
      /\ \A b \in Addrs : Has(m, b) <=> Has(w, b)
  BY <1>3, <1>5 DEF SameElse, SameRow
<1>7. CountOK(m)
  BY <1>2, <1>4, <1>6, CountLess DEF RInv
<1>8. Progress'
  BY <1>1, <1>4, <1>6, RoundRows DEF RInv
<1>9. DeleteRound(c)
  BY <1>1, <1>3, <1>4, <1>5, <1>6 DEF DeleteRound, Round
<1>10. QED
  BY <1>1, <1>4, <1>7, <1>8, <1>9 DEF RInv

LEMMA Reloaded ==
  ASSUME RInv, RowNumbersFit
  PROVE  LET d == Reload(db)
         IN /\ PagesOK(d) /\ CountOK(d) /\ d.count = db.count
            /\ \A a : SameRow(db, d, a) /\ (Has(d, a) <=> Has(db, a))
            /\ \A a : (IsRow(d, a) <=> IsRow(db, a)) /\ KeyAt(d, a) = KeyAt(db, a)
                      /\ LenAt(d, a) = LenAt(db, a)
            /\ RowAddrs(d) = RowAddrs(db) /\ d.idx = db.idx
<1>1. /\ PagesOK(db) /\ PagesOK(Reload(db)) /\ CountOK(db) /\ Reload(db).idx = db.idx
      /\ Reload(db).own = db.own /\ Reload(db).slots = db.slots
  BY ReloadOK DEF RInv, IInv, RowNumbersFit
<1>2. \A a : (IsRow(Reload(db), a) <=> IsRow(db, a)) /\ KeyAt(Reload(db), a) = KeyAt(db, a)
             /\ LenAt(Reload(db), a) = LenAt(db, a)
  BY <1>1, SamePages
<1>3. RowAddrs(Reload(db)) = RowAddrs(db)
  BY <1>1, <1>2, AddrSets
<1>4. QED
  BY <1>1, <1>2, <1>3, ReloadRows

\* Insert adds one row, at an address that no slot had.
LEMMA InsertEffect ==
  ASSUME RInv, RowNumbersFit, NEW k \in Keys, NEW len \in Lens, Insert(k, len)
  PROVE  /\ CountOK(db') /\ Install(db')
         /\ \E a \in Addrs : /\ ~ Has(db, a)
                             /\ \A b \in Addrs : Has(db', b) <=> Has(db, b) \/ b = a
                             /\ SameElse(db, db', a)
                             /\ IsRow(db', a) /\ KeyAt(db', a) = k /\ LenAt(db', a) = len
                             /\ db'.idx = db.idx \cup {Entry(k, a)}
<1> DEFINE d == Reload(db)
           s == RowSlot("row", k, len)
<1>1. /\ PagesOK(d) /\ CountOK(d) /\ d.idx = db.idx
      /\ \A a : SameRow(db, d, a) /\ (Has(d, a) <=> Has(db, a))
  BY Reloaded
<1>2. PICK p \in Placement(d, len) :
        /\ len + SlotLen <= PageCap
        /\ Install([AppendSlot(d, p, s) EXCEPT !.idx = @ \cup {Entry(k, NextAddr(d, p))},
                                               !.count = @ + 1])
  BY DEF Insert
<1> HIDE DEF d
<1> DEFINE n == AppendSlot(d, p, s)
           a == NextAddr(d, p)
           I == n.idx \cup {Entry(k, a)}
           m == [n EXCEPT !.idx = I, !.count = n.count + 1]
<1>3. s \in Slots /\ s.kind = "row" /\ s.key = k /\ s.len = len /\ len \in Nat
  BY SizesAssumption DEF RowSlot, Slots
<1>4. p \in Pages /\ CanAppend(d, p, s.len)
  BY <1>1, <1>2, <1>3, PlacementFacts DEF PagesOK
<1>5. Install(m) /\ db' = m
  BY <1>2 DEF Install
<1> HIDE DEF s
<1>6. /\ PagesOK(n) /\ n.count = d.count /\ n.idx = d.idx
      /\ a \in Addrs /\ ~ Has(d, a) /\ Has(n, a)
      /\ \A b \in Addrs : Has(d, b) => Has(n, b)
      /\ \A b \in Addrs : Has(n, b) => b = a \/ Has(d, b)
      /\ SameElse(d, n, a) /\ ~ IsRow(d, a)
      /\ IsRow(n, a) /\ KeyAt(n, a) = k /\ LenAt(n, a) = len
  BY <1>1, <1>3, <1>4, AppendRows, AppendSame
<1> HIDE DEF n, a
<1>7. /\ m.own = n.own /\ m.slots = n.slots /\ m.free = n.free /\ m.count = d.count + 1
      /\ m \in Databases /\ m.idx = I
  <2>1. n.count + 1 \in Nat /\ I \subseteq [key : Keys, loc : Addrs]
    BY <1>6 DEF PagesOK, Databases, Entry
  <2> HIDE DEF I
  <2>2. QED
    BY <1>6, <2>1 DEF PagesOK, Databases
<1>8. PagesOK(m)
  BY <1>6, <1>7, SamePagesOK
<1> HIDE DEF m
<1>9. /\ \A b \in Addrs : Has(m, b) <=> Has(d, b) \/ b = a
      /\ SameElse(d, m, a)
      /\ IsRow(m, a) /\ KeyAt(m, a) = k /\ LenAt(m, a) = len
  BY <1>6, <1>7, SamePages DEF SameElse, SameRow
<1>10. CountOK(m)
  BY <1>1, <1>6, <1>7, <1>8, <1>9, CountMore
<1>11. /\ ~ Has(db, a) /\ SameElse(db, m, a)
       /\ \A b \in Addrs : Has(m, b) <=> Has(db, b) \/ b = a
  BY <1>1, <1>6, <1>9 DEF SameElse, SameRow
<1>12. QED
  BY <1>1, <1>5, <1>6, <1>7, <1>9, <1>10, <1>11

\* DeleteAt removes one row.
LEMMA DeleteAtEffect ==
  ASSUME RInv, RowNumbersFit, NEW a \in Addrs, DeleteAt(a)
  PROVE  /\ CountOK(db') /\ Install(db')
         /\ \A b \in Addrs : Has(db', b) <=> Has(db, b)
         /\ SameElse(db, db', a) /\ IsRow(db, a) /\ ~ IsRow(db', a)
         /\ db'.idx = db.idx \ {Entry(KeyAt(db, a), a)}
<1> DEFINE d == Reload(db)
           n == DeleteRow(d, a)
           I == n.idx \ {Entry(KeyAt(d, a), a)}
           m == [n EXCEPT !.idx = I]
<1>1. /\ PagesOK(d) /\ CountOK(d) /\ d.idx = db.idx
      /\ KeyAt(d, a) = KeyAt(db, a)
      /\ \A b : SameRow(db, d, b) /\ (Has(d, b) <=> Has(db, b))
      /\ \A b : IsRow(d, b) <=> IsRow(db, b)
  BY Reloaded
<1>2. IsRow(d, a) /\ Install(m) /\ db' = m
  BY DEF DeleteAt, Install
<1> HIDE DEF d
<1>3. /\ PagesOK(n) /\ SameElse(d, n, a) /\ ~ IsRow(n, a)
      /\ n.count = IF d.count > 0 THEN d.count - 1 ELSE 0
      /\ n.idx = d.idx
      /\ \A b \in Addrs : Has(n, b) <=> Has(d, b)
  BY <1>1, <1>2, DeleteRows, DeleteSame
<1> HIDE DEF n
<1>4. m \in Databases /\ m.own = n.own /\ m.slots = n.slots /\ m.free = n.free /\ m.count = n.count
      /\ m.idx = I
  <2>1. I \subseteq [key : Keys, loc : Addrs]
    BY <1>3 DEF PagesOK, Databases
  <2> HIDE DEF I
  <2>2. QED
    BY <1>3, <2>1 DEF PagesOK, Databases
<1>5. PagesOK(m)
  BY <1>3, <1>4, SamePagesOK
<1> HIDE DEF m
<1>6. /\ SameElse(d, m, a) /\ ~ IsRow(m, a)
      /\ \A b \in Addrs : Has(m, b) <=> Has(d, b)
  BY <1>3, <1>4, SamePages DEF SameElse, SameRow
<1>7. CountOK(m)
  <2>1. m.count = IF d.count > 0 THEN d.count - 1 ELSE 0
    BY <1>3, <1>4
  <2>2. QED
    BY <1>1, <1>2, <1>5, <1>6, <2>1, CountLess
<1>8. SameElse(db, m, a) /\ \A b \in Addrs : Has(m, b) <=> Has(db, b)
  BY <1>1, <1>6 DEF SameElse, SameRow
<1>9. QED
  BY <1>1, <1>2, <1>3, <1>4, <1>6, <1>7, <1>8

\* A plan is made for the rows of the database.
LEMMA BeginRows ==
  ASSUME RInv, RowNumbersFit, NEW op \in {"update", "delete"}, NEW S \in SUBSET RowAddrs(Reload(db)),
         NEW k \in Keys \cup {Keep}, NEW l \in Lens \cup {Keep},
         Begin(op, {Change(Reload(db), a, k, l) : a \in S})
  PROVE  CountOK(db)' /\ CountOK(w)' /\ Progress'
<1> DEFINE d == Reload(db)
           plan == {Change(d, a, k, l) : a \in S}
<1>1. /\ PagesOK(d) /\ CountOK(d)
      /\ \A a : SameRow(db, d, a) /\ (Has(d, a) <=> Has(db, a))
      /\ \A a : (IsRow(d, a) <=> IsRow(db, a)) /\ KeyAt(d, a) = KeyAt(db, a)
                /\ LenAt(d, a) = LenAt(db, a)
  BY Reloaded
<1>2. PlanOK(d, plan)
  BY <1>1, ScanPlan
<1>3. /\ w' = d /\ db' = db /\ call' = op /\ batch' = plan /\ todo' = plan
  BY DEF Begin
<1>4. \A c \in plan : /\ c.key = IF k = Keep THEN KeyAt(db, c.loc) ELSE k
                      /\ c.len = IF l = Keep THEN LenAt(db, c.loc) ELSE l
  <2>1. ASSUME NEW a \in S
        PROVE  LET c == Change(d, a, k, l)
               IN /\ c.loc = a
                  /\ c.key = IF k = Keep THEN KeyAt(d, a) ELSE k
                  /\ c.len = IF l = Keep THEN LenAt(d, a) ELSE l
    BY DEF Change
  <2>2. QED
    BY <1>1, <2>1
<1> HIDE DEF d, plan
<1>5. PlanOK(db, plan)
  BY <1>1, <1>2 DEF PlanOK
<1>6. Done' = {}
  BY <1>3 DEF Done
<1>7. Assigned(k, l)'
  BY <1>3, <1>4 DEF Assigned
<1>8. Progress'
  BY <1>1, <1>3, <1>5, <1>6, <1>7 DEF Progress
<1>9. QED
  BY <1>1, <1>3, <1>8 DEF RInv

LEMMA StepRows == ASSUME RInv, RowNumbersFit, [Next]_vars PROVE RInv'
<1>1. IInv'
  BY StepInv DEF RInv
<1> DEFINE Goal == CountOK(db)' /\ CountOK(w)' /\ Progress'
<1>2. ASSUME NEW k \in Keys, NEW len \in Lens, Insert(k, len) PROVE Goal
  <2>1. CountOK(db') /\ Install(db')
    BY <1>2, InsertEffect, Zenon
  <2>2. QED
    BY <2>1, InstallRows
<1>3. ASSUME NEW a \in Addrs, DeleteAt(a) PROVE Goal
  <2>1. CountOK(db') /\ Install(db')
    BY <1>3, DeleteAtEffect, Zenon
  <2>2. QED
    BY <2>1, InstallRows
<1>4. ASSUME NEW k \in Keys \cup {Keep}, NEW len \in Lens \cup {Keep}, BeginUpdate(k, len) PROVE Goal
  <2>1. PICK S \in SUBSET RowAddrs(Reload(db)) :
          Begin("update", {Change(Reload(db), a, k, len) : a \in S})
    BY <1>4 DEF BeginUpdate, Selections
  <2>2. QED
    BY <2>1, BeginRows
<1>5. ASSUME BeginDelete PROVE Goal
  <2>1. PICK S \in SUBSET RowAddrs(Reload(db)) :
          Begin("delete", {Change(Reload(db), a, Keep, Keep) : a \in S})
    BY <1>5 DEF BeginDelete, Selections
  <2>2. Keep \in Keys \cup {Keep} /\ Keep \in Lens \cup {Keep}
    OBVIOUS
  <2>3. QED
    BY <2>1, <2>2, BeginRows
<1>6. CASE UpdateInPlace
  BY <1>1, <1>6, UpdateInPlaceRows DEF RInv
<1>7. CASE UpdateOverflow
  BY <1>1, <1>7, UpdateOverflowRows DEF RInv
<1>8. CASE DeleteNext
  BY <1>1, <1>8, DeleteNextRows DEF RInv
<1>9. CASE Commit
  BY <1>1, <1>9, InstallRows DEF Commit, RInv
<1>10. CASE Abort
  BY <1>1, <1>10, InstallRows DEF Abort, RInv
<1>11. CASE UNCHANGED vars
  <2>1. UNCHANGED <<db, w, call, batch, todo>>
    BY <1>11 DEF vars
  <2>2. CountOK(db)' /\ CountOK(w)'
    BY <2>1 DEF RInv
  <2>3. Progress'
    BY <2>1 DEF RInv, Progress, Done, Assigned, SameRow
  <2>4. QED
    BY <1>1, <2>2, <2>3 DEF RInv
<1>12. QED
  BY <1>1, <1>2, <1>3, <1>4, <1>5, <1>6, <1>7, <1>8, <1>9, <1>10, <1>11 DEF Next, RInv

-----------------------------------------------------------------------------
(* The theorems *)

\* The database and the working copy count their rows, and the working copy has exactly the
\* changes of its call that are done (row.go:1346-1388, 1425-1535).
THEOREM RowsInvariance == Spec /\ []RowNumbersFit => []RInv
<1>1. RInv /\ RowNumbersFit /\ [Next]_vars => RInv'
  BY StepRows
<1>2. QED
  BY <1>1, InitRows, PTL DEF Spec

\* The row count of the definition page is the number of rows that a scan finds, after every
\* Insert, Delete, DeleteAt and failed call.
THEOREM CountTrue == Spec /\ []RowNumbersFit => []CountExact
<1>1. RInv => CountExact
  BY DEF RInv, CountOK, CountExact
<1>2. QED
  BY <1>1, RowsInvariance, PTL

\* What Commit installs has the planned change of every selected row, and no other.
LEMMA CommitEffect ==
  ASSUME RInv, Commit
  PROVE  /\ db' = w
         /\ \A a \in Addrs : (\A c \in batch : c.loc # a) => SameRow(db, db', a)
         /\ \A c \in batch : c.loc \in Addrs /\ IsRow(db, c.loc)
         /\ \A c, e \in batch : c.loc = e.loc => c = e
         /\ call \in {"update", "delete"}
         /\ call = "update" => \A c \in batch : IsRow(db', c.loc) /\ KeyAt(db', c.loc) = c.key
                                                /\ LenAt(db', c.loc) = c.len
         /\ call = "delete" => \A c \in batch : ~ IsRow(db', c.loc)
         /\ \A a \in Addrs : Has(db, a) => Has(db', a)
         /\ call = "delete" => \A a \in Addrs : Has(db', a) => Has(db, a)
<1>1. Done = batch /\ db' = w
  BY DEF Commit, Done, Install
<1>2. \A c \in batch : c.loc \in Addrs
  BY DEF RInv, IInv, Changes
<1>3. call \in {"update", "delete"}
  BY DEF Commit, Idle, RInv, IInv
<1>4. Progress
  BY DEF RInv
<1>5. QED
  BY <1>1, <1>2, <1>3, <1>4 DEF Progress, PlanOK

\* A call on several rows that changes the database makes every planned change and no other,
\* also when its neighbours are repacked, moved or deleted on the way (row.go:1425-1563).
THEOREM WholeCalls == Spec /\ []RowNumbersFit => AllOrNothing
<1> DEFINE Whole ==
      \A a \in RowAddrs(db) :
         LET planned == {c \in batch : c.loc = a}
             now == [key |-> KeyAt(db', a), len |-> LenAt(db', a)]
         IN /\ call = "delete" => (a \in RowAddrs(db') <=> planned = {})
            /\ call = "update" => a \in RowAddrs(db')
            /\ a \in RowAddrs(db') =>
                 IF planned = {} THEN now = [key |-> KeyAt(db, a), len |-> LenAt(db, a)]
                 ELSE \A c \in planned : now = [key |-> c.key, len |-> c.len]
<1>1. ASSUME RInv, RInv', Commit PROVE Whole
  <2>1. /\ RowAddrs(db) = {a \in Addrs : IsRow(db, a)}
        /\ RowAddrs(db') = {a \in Addrs : IsRow(db', a)}
    BY <1>1, AddrSets DEF RInv, IInv
  <2>2. SUFFICES ASSUME NEW a \in RowAddrs(db)
        PROVE  LET planned == {c \in batch : c.loc = a}
                   now == [key |-> KeyAt(db', a), len |-> LenAt(db', a)]
               IN /\ call = "delete" => (a \in RowAddrs(db') <=> planned = {})
                  /\ call = "update" => a \in RowAddrs(db')
                  /\ a \in RowAddrs(db') =>
                       IF planned = {} THEN now = [key |-> KeyAt(db, a), len |-> LenAt(db, a)]
                       ELSE \A c \in planned : now = [key |-> c.key, len |-> c.len]
    OBVIOUS
  <2>3. a \in Addrs /\ IsRow(db, a)
    BY <2>1
  <2>4. CASE \A c \in batch : c.loc # a
    <3>1. IsRow(db', a) /\ KeyAt(db', a) = KeyAt(db, a) /\ LenAt(db', a) = LenAt(db, a)
      BY <1>1, <2>3, <2>4, CommitEffect DEF SameRow
    <3>2. a \in RowAddrs(db') /\ {c \in batch : c.loc = a} = {}
      BY <2>1, <2>3, <2>4, <3>1
    <3>3. QED
      BY <3>1, <3>2
  <2>5. CASE \E c \in batch : c.loc = a
    <3>1. PICK c \in batch : c.loc = a
      BY <2>5
    <3>2. {e \in batch : e.loc = a} = {c}
      BY <1>1, <3>1, CommitEffect
    <3>3. CASE call = "update"
      <4>1. IsRow(db', a) /\ KeyAt(db', a) = c.key /\ LenAt(db', a) = c.len
        BY <1>1, <3>1, <3>3, CommitEffect
      <4>2. a \in RowAddrs(db')
        BY <2>1, <2>3, <4>1
      <4>3. QED
        BY <3>2, <3>3, <4>1, <4>2
    <3>4. CASE call = "delete"
      <4>1. ~ IsRow(db', a)
        BY <1>1, <3>1, <3>4, CommitEffect
      <4>2. a \notin RowAddrs(db')
        BY <2>1, <4>1
      <4>3. QED
        BY <3>2, <3>4, <4>2
    <3>5. QED
      BY <1>1, <3>3, <3>4, CommitEffect
  <2>6. QED
    BY <2>4, <2>5
<1>2. ASSUME [Next]_vars, ~ Idle, db' # db PROVE Commit
  BY <1>2 DEF Next, vars, Insert, BeginUpdate, BeginDelete, Begin, DeleteAt, UpdateInPlace,
              UpdateOverflow, DeleteNext, Abort, Install
<1>3. RInv /\ RInv' /\ [Next]_vars => [~ Idle /\ db' # db => Whole]_vars
  BY <1>1, <1>2
<1>4. QED
  BY <1>3, RowsInvariance, PTL DEF Spec, AllOrNothing

-----------------------------------------------------------------------------
(* The table as its callers see it *)

RowOf(d, a) == [key |-> KeyAt(d, a), len |-> LenAt(d, a)]
RowsOf(d) == [a \in RowAddrs(d) |-> RowOf(d, a)]

LEMMA RowsMap ==
  ASSUME NEW d, PagesOK(d)
  PROVE  /\ DOMAIN RowsOf(d) = RowAddrs(d)
         /\ RowAddrs(d) = {a \in Addrs : IsRow(d, a)} /\ AllAddrs(d) = {a \in Addrs : Has(d, a)}
         /\ \A a \in RowAddrs(d) : RowsOf(d)[a] = RowOf(d, a)
  BY AddrSets DEF RowsOf

\* The same slots with the same rows look the same.
LEMMA SameView ==
  ASSUME NEW d, PagesOK(d), NEW n, PagesOK(n), NEW a \in Addrs, SameRow(d, n, a)
  PROVE  /\ a \in DOMAIN RowsOf(n) <=> a \in DOMAIN RowsOf(d)
         /\ a \in DOMAIN RowsOf(d) => RowsOf(n)[a] = RowsOf(d)[a]
<1>1. a \in RowAddrs(n) <=> a \in RowAddrs(d)
  BY RowsMap DEF SameRow
<1>2. ASSUME a \in RowAddrs(d) PROVE RowOf(n, a) = RowOf(d, a)
  <2>1. IsRow(d, a)
    BY <1>2, RowsMap
  <2>2. QED
    BY <2>1 DEF SameRow, RowOf
<1>3. QED
  BY <1>1, <1>2, RowsMap

LEMMA InsertMaps ==
  ASSUME RInv, RInv', RowNumbersFit, NEW k \in Keys, NEW len \in Lens, Insert(k, len)
  PROVE  \E a \in AllAddrs(db') \ AllAddrs(db) :
           /\ AllAddrs(db') = AllAddrs(db) \cup {a}
           /\ DOMAIN RowsOf(db') = DOMAIN RowsOf(db) \cup {a}
           /\ RowsOf(db')[a] \in [key : Keys, len : Lens]
           /\ \A b \in DOMAIN RowsOf(db) : RowsOf(db')[b] = RowsOf(db)[b]
<1>1. PagesOK(db) /\ PagesOK(db')
  BY DEF RInv, IInv
<1>2. PICK a \in Addrs : /\ ~ Has(db, a)
                         /\ \A b \in Addrs : Has(db', b) <=> Has(db, b) \/ b = a
                         /\ SameElse(db, db', a)
                         /\ IsRow(db', a) /\ KeyAt(db', a) = k /\ LenAt(db', a) = len
  BY InsertEffect
<1>3. a \in AllAddrs(db') \ AllAddrs(db) /\ AllAddrs(db') = AllAddrs(db) \cup {a}
  BY <1>1, <1>2, AddrSets
<1>4. \A b \in Addrs : b # a => /\ b \in DOMAIN RowsOf(db') <=> b \in DOMAIN RowsOf(db)
                                /\ b \in DOMAIN RowsOf(db) => RowsOf(db')[b] = RowsOf(db)[b]
  BY <1>1, <1>2, SameView DEF SameElse
<1>5. a \in DOMAIN RowsOf(db') /\ a \notin DOMAIN RowsOf(db)
  BY <1>1, <1>2, RowsMap DEF IsRow
<1>6. RowsOf(db')[a] = [key |-> k, len |-> len]
  BY <1>1, <1>2, <1>5, RowsMap DEF RowOf
<1>7. DOMAIN RowsOf(db') \subseteq Addrs /\ DOMAIN RowsOf(db) \subseteq Addrs
  BY <1>1, RowsMap
<1>8. DOMAIN RowsOf(db') = DOMAIN RowsOf(db) \cup {a}
  BY <1>4, <1>5, <1>7
<1>9. RowsOf(db')[a] \in [key : Keys, len : Lens]
  BY <1>6
<1>10. \A b \in DOMAIN RowsOf(db) : RowsOf(db')[b] = RowsOf(db)[b]
  BY <1>4, <1>5, <1>7
<1>11. QED
  BY <1>3, <1>8, <1>9, <1>10, Zenon

LEMMA DeleteAtMaps ==
  ASSUME RInv, RInv', RowNumbersFit, NEW a \in Addrs, DeleteAt(a)
  PROVE  /\ DOMAIN RowsOf(db') \subseteq DOMAIN RowsOf(db)
         /\ \A b \in DOMAIN RowsOf(db') : RowsOf(db')[b] = RowsOf(db)[b]
         /\ AllAddrs(db') = AllAddrs(db)
<1>1. PagesOK(db) /\ PagesOK(db')
  BY DEF RInv, IInv
<1>2. /\ \A b \in Addrs : Has(db', b) <=> Has(db, b)
      /\ SameElse(db, db', a) /\ ~ IsRow(db', a)
  BY DeleteAtEffect
<1>3. \A b \in Addrs : b # a => /\ b \in DOMAIN RowsOf(db') <=> b \in DOMAIN RowsOf(db)
                                /\ b \in DOMAIN RowsOf(db) => RowsOf(db')[b] = RowsOf(db)[b]
  BY <1>1, <1>2, SameView DEF SameElse
<1>4. DOMAIN RowsOf(db') \subseteq Addrs /\ a \notin DOMAIN RowsOf(db')
  BY <1>1, <1>2, RowsMap
<1>5. AllAddrs(db') = AllAddrs(db)
  BY <1>1, <1>2, AddrSets
<1>6. QED
  BY <1>3, <1>4, <1>5

LEMMA CommitMaps ==
  ASSUME RInv, RInv', Commit
  PROVE  LET old == RowsOf(db)  new == RowsOf(db')
         IN \/ /\ DOMAIN new = DOMAIN old
               /\ \E S \in SUBSET DOMAIN old, k \in Keys \cup {Keep}, l \in Lens \cup {Keep} :
                    \A a \in DOMAIN old :
                      new[a] = IF a \in S THEN Store!Assign(old[a], k, l) ELSE old[a]
               /\ AllAddrs(db) \subseteq AllAddrs(db')
            \/ /\ DOMAIN new \subseteq DOMAIN old
               /\ \A a \in DOMAIN new : new[a] = old[a]
               /\ AllAddrs(db') = AllAddrs(db)
<1> DEFINE old == RowsOf(db)
           new == RowsOf(db')
           S == {c.loc : c \in batch}
<1>1. PagesOK(db) /\ PagesOK(db')
  BY DEF RInv, IInv
<1>2. /\ \A a \in Addrs : (\A c \in batch : c.loc # a) => SameRow(db, db', a)
      /\ \A c \in batch : c.loc \in Addrs /\ IsRow(db, c.loc)
      /\ call \in {"update", "delete"}
      /\ call = "update" => \A c \in batch : IsRow(db', c.loc) /\ KeyAt(db', c.loc) = c.key
                                             /\ LenAt(db', c.loc) = c.len
      /\ call = "delete" => \A c \in batch : ~ IsRow(db', c.loc)
      /\ \A a \in Addrs : Has(db, a) => Has(db', a)
      /\ call = "delete" => \A a \in Addrs : Has(db', a) => Has(db, a)
  BY CommitEffect
<1>3. \A a \in Addrs : a \notin S => /\ a \in DOMAIN new <=> a \in DOMAIN old
                                     /\ a \in DOMAIN old => new[a] = old[a]
  BY <1>1, <1>2, SameView
<1>4. /\ DOMAIN new = {a \in Addrs : IsRow(db', a)} /\ DOMAIN old = {a \in Addrs : IsRow(db, a)}
      /\ \A a \in DOMAIN new : new[a] = RowOf(db', a)
      /\ \A a \in DOMAIN old : old[a] = RowOf(db, a)
  BY <1>1, RowsMap
<1>5. S \subseteq DOMAIN old
  BY <1>2, <1>4
<1>6. CASE call = "update"
  <2>1. PICK k \in Keys \cup {Keep}, l \in Lens \cup {Keep} : Assigned(k, l)
    BY <1>6 DEF RInv, Progress
  <2>2. ASSUME NEW a \in S PROVE a \in DOMAIN new /\ new[a] = Store!Assign(old[a], k, l)
    <3>1. PICK c \in batch : c.loc = a
      OBVIOUS
    <3>2. a \in DOMAIN new /\ a \in DOMAIN old /\ RowOf(db', a) = [key |-> c.key, len |-> c.len]
      BY <1>2, <1>4, <1>5, <1>6, <3>1 DEF RowOf
    <3>3. /\ c.key = IF k = Keep THEN KeyAt(db, a) ELSE k
          /\ c.len = IF l = Keep THEN LenAt(db, a) ELSE l
      BY <2>1, <3>1 DEF Assigned
    <3>4. old[a] = [key |-> KeyAt(db, a), len |-> LenAt(db, a)]
      BY <1>4, <3>2 DEF RowOf
    <3>5. QED
      BY <1>4, <3>2, <3>3, <3>4 DEF Store!Assign
  <2>3. DOMAIN new = DOMAIN old
    BY <1>3, <1>4, <1>5, <2>2
  <2>4. \A a \in DOMAIN old : new[a] = IF a \in S THEN Store!Assign(old[a], k, l) ELSE old[a]
    BY <1>3, <1>4, <2>2
  <2>5. AllAddrs(db) \subseteq AllAddrs(db')
    BY <1>1, <1>2, AddrSets
  <2>6. QED
    BY <1>5, <2>3, <2>4, <2>5
<1>7. CASE call = "delete"
  <2>1. \A a \in S : a \notin DOMAIN new
    BY <1>2, <1>4, <1>7
  <2>2. DOMAIN new \subseteq DOMAIN old /\ \A a \in DOMAIN new : new[a] = old[a]
    BY <1>3, <1>4, <2>1
  <2>3. AllAddrs(db') = AllAddrs(db)
    BY <1>1, <1>2, <1>7, AddrSets
  <2>4. QED
    BY <2>2, <2>3
<1>8. QED
  BY <1>2, <1>6, <1>7

\* Every call changes the rows as TableStore says: an Insert adds one at a new address, an
\* Update makes one assignment to some, a Delete or DeleteAt removes some, and nothing else is
\* ever seen, for any table, page size, index and sequence of calls.
THEOREM StoreImplemented == Spec /\ []RowNumbersFit => AtomicCalls
<1>1. Init => Store!Init
  <2>1. SUFFICES ASSUME Init PROVE Store!Init
    OBVIOUS
  <2>2. RowAddrs(db) = {} /\ AllAddrs(db) = {}
    BY <2>1 DEF Init, NewTable, RowAddrs, AllAddrs
  <2>3. QED
    BY <2>2 DEF Store!Init
<1>2. ASSUME RInv, RInv', RowNumbersFit, [Next]_vars PROVE [Store!Next]_(Store!vars)
  <2> DEFINE old == RowsOf(db)
             new == RowsOf(db')
  <2>1. /\ old = [a \in RowAddrs(db) |-> [key |-> KeyAt(db, a), len |-> LenAt(db, a)]]
        /\ new = [a \in RowAddrs(db) |-> [key |-> KeyAt(db, a), len |-> LenAt(db, a)]]'
    BY DEF RowsOf, RowOf
  <2>2. ASSUME NEW k \in Keys, NEW len \in Lens, Insert(k, len) PROVE Store!Insert
    BY <1>2, <2>1, <2>2, InsertMaps DEF Store!Insert, Store!Row, RowsOf, RowOf
  <2>3. ASSUME NEW a \in Addrs, DeleteAt(a) PROVE Store!Delete
    BY <1>2, <2>1, <2>3, DeleteAtMaps DEF Store!Delete, RowsOf, RowOf
  <2>4. ASSUME Commit PROVE Store!Update \/ Store!Delete
    BY <1>2, <2>1, <2>4, CommitMaps DEF Store!Delete, Store!Update, RowsOf, RowOf
  <2>5. ASSUME db' = db PROVE UNCHANGED Store!vars
    BY <2>5 DEF Store!vars
  <2>6. [Next]_vars => db' = db \/ Commit \/ (\E k \in Keys, len \in Lens : Insert(k, len))
                       \/ \E a \in Addrs : DeleteAt(a)
    BY DEF Next, vars, BeginUpdate, BeginDelete, Begin, UpdateInPlace, UpdateOverflow,
           DeleteNext, Abort, Install
  <2>7. QED
    BY <1>2, <2>2, <2>3, <2>4, <2>5, <2>6 DEF Store!Next
<1>3. QED
  BY <1>1, <1>2, RowsInvariance, PTL DEF Spec, AtomicCalls, Store!Spec

-----------------------------------------------------------------------------
(* The free space of a page *)

LensOf(ss) == [j \in DOMAIN ss |-> ss[j].len]

\* The bytes of the rows of a page, as a sum.
LEMMA BytesSum ==
  ASSUME NEW ss \in Seq(Slots)
  PROVE  /\ RowBytes(ss) = SumOf(LensOf(ss), DOMAIN ss)
         /\ IsFiniteSet(DOMAIN ss) /\ DOMAIN ss = 1..Len(ss) /\ Len(ss) \in Nat
         /\ \A j \in DOMAIN ss : LensOf(ss)[j] = ss[j].len /\ ss[j].len \in Nat
<1>1. DOMAIN ss = 1..Len(ss) /\ Len(ss) \in Nat /\ \A j \in DOMAIN ss : ss[j] \in Slots
  OBVIOUS
<1>2. IsFiniteSet(DOMAIN ss)
  BY <1>1, FS_Interval
<1>3. \A j \in DOMAIN ss : LensOf(ss)[j] = ss[j].len /\ ss[j].len \in Nat
  BY <1>1 DEF LensOf, Slots
<1>4. RowBytes(ss) = SumOf(LensOf(ss), DOMAIN ss)
  <2>1. MapThenSumSet(LAMBDA j : ss[j].len, DOMAIN ss) = MapThenSumSet(LAMBDA j : LensOf(ss)[j], DOMAIN ss)
    BY DEF MapThenSumSet, MapThenFoldSet, LensOf
  <2>2. QED
    BY <2>1 DEF RowBytes, SumOf
<1>5. QED
  BY <1>1, <1>2, <1>3, <1>4

LEMMA BytesInt == ASSUME NEW ss \in Seq(Slots) PROVE RowBytes(ss) \in Int
<1>1. \A j \in DOMAIN ss : LensOf(ss)[j] \in Int
  BY BytesSum
<1>2. QED
  BY <1>1, BytesSum, SumInt

LEMMA BytesNone == RowBytes(<<>>) = 0
<1>1. <<>> \in Seq(Slots) /\ DOMAIN <<>> = {}
  OBVIOUS
<1>2. QED
  BY <1>1, BytesSum, SumEmpty

\* It is the lengths that count.
LEMMA BytesSame ==
  ASSUME NEW ss \in Seq(Slots), NEW tt \in Seq(Slots), Len(ss) = Len(tt),
         \A j \in DOMAIN ss : ss[j].len = tt[j].len
  PROVE  RowBytes(ss) = RowBytes(tt)
<1>1. DOMAIN ss = DOMAIN tt
  BY BytesSum
<1>2. \A j \in DOMAIN ss : LensOf(ss)[j] = LensOf(tt)[j]
  BY <1>1, BytesSum
<1>3. QED
  BY <1>1, <1>2, BytesSum, SumSame

LEMMA BytesAppend ==
  ASSUME NEW ss \in Seq(Slots), NEW s \in Slots
  PROVE  RowBytes(Append(ss, s)) = RowBytes(ss) + s.len
<1> DEFINE tt == Append(ss, s)
           n == Len(ss)
<1>1. /\ tt \in Seq(Slots) /\ n \in Nat /\ DOMAIN tt = DOMAIN ss \cup {n + 1}
      /\ n + 1 \notin DOMAIN ss
      /\ tt[n + 1] = s /\ \A j \in DOMAIN ss : tt[j] = ss[j]
  OBVIOUS
<1> HIDE DEF tt, n
<1>2. \A j \in DOMAIN ss : LensOf(tt)[j] = LensOf(ss)[j]
  BY <1>1, BytesSum
<1>3. SumOf(LensOf(tt), DOMAIN ss) = SumOf(LensOf(ss), DOMAIN ss)
  BY <1>2, BytesSum, SumSame
<1>4. LensOf(tt)[n + 1] = s.len /\ \A j \in DOMAIN ss \cup {n + 1} : LensOf(tt)[j] \in Int
  BY <1>1, BytesSum
<1>5. SumOf(LensOf(tt), DOMAIN ss \cup {n + 1}) = LensOf(tt)[n + 1] + SumOf(LensOf(tt), DOMAIN ss)
  BY <1>1, <1>4, BytesSum, SumMore
<1>6. RowBytes(tt) = SumOf(LensOf(tt), DOMAIN ss \cup {n + 1}) /\ RowBytes(ss) = SumOf(LensOf(ss), DOMAIN ss)
  BY <1>1, BytesSum
<1>7. RowBytes(ss) \in Int /\ s.len \in Nat
  BY BytesInt DEF Slots
<1>8. QED
  BY <1>3, <1>4, <1>5, <1>6, <1>7 DEF tt

\* The free-space field of page p counts the bytes its slots and rows leave.
Exact(d, p) == d.free[p] + SlotLen * Len(d.slots[p]) + RowBytes(d.slots[p]) = PageCap
FreeOK(d) == \A p \in d.own : Exact(d, p)

LEMMA SameFree ==
  ASSUME NEW d, FreeOK(d), NEW n, n.own = d.own, n.slots = d.slots, n.free = d.free
  PROVE  FreeOK(n)
  BY DEF FreeOK, Exact

LEMMA AppendFree ==
  ASSUME NEW d \in Databases, RoomOK(d), FreeOK(d), NEW p \in Pages, NEW s \in Slots,
         CanAppend(d, p, s.len)
  PROVE  FreeOK(AppendSlot(d, p, s))
<1> DEFINE c == Claim(d, p)
           n == AppendSlot(d, p, s)
           ss == Append(c.slots[p], s)
           f == c.free[p] - (s.len + SlotLen)
<1>1. /\ c.slots = d.slots /\ c.own = d.own \cup {p} /\ c.free \in [Pages -> Nat]
      /\ \A q \in Pages : q # p => c.free[q] = d.free[q]
      /\ Exact(c, p)
  <2>1. CASE p \in d.own
    BY <2>1 DEF Claim, FreeOK, Databases
  <2>2. CASE p \notin d.own
    <3>1. c = [d EXCEPT !.own = d.own \cup {p}, !.free[p] = PageCap,
                        !.age[p] = 1 + Cardinality({q \in d.own : d.age[q] > 0})]
      BY <2>2 DEF Claim
    <3>2. c.slots = d.slots /\ c.own = d.own \cup {p} /\ c.free = [d.free EXCEPT ![p] = PageCap]
      BY <3>1 DEF Databases
    <3>3. d.slots[p] = <<>> /\ c.free[p] = PageCap
      BY <2>2, <3>2 DEF RoomOK, Databases
    <3>4. Exact(c, p)
      BY <3>2, <3>3, BytesNone, SizesAssumption DEF Exact, SlotLen
    <3>5. QED
      BY <3>2, <3>4, SizesAssumption DEF Databases
  <2>3. QED
    BY <2>1, <2>2
<1>2. d.slots[p] \in Seq(Slots) /\ s.len \in Nat /\ c.free[p] \in Nat
  BY <1>1 DEF Databases, Slots
<1>3. /\ n.own = d.own \cup {p}
      /\ n.slots = [d.slots EXCEPT ![p] = Append(d.slots[p], s)]
      /\ n.free = [c.free EXCEPT ![p] = f]
  <2>1. n = [c EXCEPT !.slots[p] = ss, !.free[p] = f]
    BY DEF AppendSlot
  <2>2. DOMAIN c = {"slots", "free", "own", "age", "idx", "count"}
    BY DEF Claim, Databases
  <2> HIDE DEF c, f, n
  <2>3. n.own = c.own /\ n.slots = [c.slots EXCEPT ![p] = ss] /\ n.free = [c.free EXCEPT ![p] = f]
    BY <2>1, <2>2
  <2>4. QED
    BY <1>1, <2>3
<1> HIDE DEF c, n
<1>4. Exact(n, p)
  <2>1. n.slots[p] = Append(d.slots[p], s) /\ n.free[p] = f
    BY <1>1, <1>3 DEF Databases
  <2>2. Len(Append(d.slots[p], s)) = Len(d.slots[p]) + 1 /\ Len(d.slots[p]) \in Nat
    BY <1>2
  <2>3. RowBytes(Append(d.slots[p], s)) = RowBytes(d.slots[p]) + s.len /\ RowBytes(d.slots[p]) \in Int
    BY <1>2, BytesAppend, BytesInt
  <2>4. c.free[p] + SlotLen * Len(d.slots[p]) + RowBytes(d.slots[p]) = PageCap
    BY <1>1 DEF Exact
  <2>5. f + SlotLen * (Len(d.slots[p]) + 1) + (RowBytes(d.slots[p]) + s.len) = PageCap
    <3> DEFINE room == c.free[p]
               len == Len(d.slots[p])
               bytes == RowBytes(d.slots[p])
               l == s.len
    <3>1. room \in Int /\ len \in Int /\ bytes \in Int /\ l \in Int /\ PageCap \in Int
      BY <1>2, <2>2, <2>3, SizesAssumption
    <3>2. room + 2 * len + bytes = PageCap
      BY <2>4 DEF SlotLen
    <3> HIDE DEF room, len, bytes, l
    <3>3. (room - (l + 2)) + 2 * (len + 1) + (bytes + l) = PageCap
      BY <3>1, <3>2
    <3>4. QED
      BY <3>3 DEF room, len, bytes, l, SlotLen
  <2>6. QED
    BY <2>1, <2>2, <2>3, <2>5 DEF Exact
<1>5. ASSUME NEW q \in d.own, q # p PROVE Exact(n, q)
  <2>1. q \in Pages
    BY DEF Databases
  <2>2. n.slots[q] = d.slots[q] /\ n.free[q] = d.free[q]
    BY <1>1, <1>3, <1>5, <2>1 DEF Databases
  <2>3. QED
    BY <2>2 DEF FreeOK, Exact
<1>6. QED
  BY <1>3, <1>4, <1>5 DEF FreeOK, n

LEMMA RebuildFree ==
  ASSUME NEW d \in Databases, FreeOK(d), NEW a \in Addrs, Has(d, a), NEW s \in Slots,
         RebuildFits(d, a, s)
  PROVE  FreeOK(Rebuild(d, a, s))
<1> DEFINE p == a[1]
           ss == Repacked(d.slots[p], a[2] + 1, s)
           f == PageCap - SlotLen * Len(ss) - RowBytes(ss)
           n == Rebuild(d, a, s)
<1>1. p \in Pages /\ d.slots[p] \in Seq(Slots) /\ Len(d.slots[p]) \in Nat
  BY SlotPlace
<1>2. n.own = d.own /\ n.slots = [d.slots EXCEPT ![p] = ss] /\ n.free = [d.free EXCEPT ![p] = f]
  BY DEF Rebuild, Databases
<1>3. RowBytes(ss) \in Int /\ Len(ss) \in Nat
  <2>1. DOMAIN ss = DOMAIN d.slots[p]
    BY DEF Repacked
  <2>2. Len(ss) = Len(d.slots[p])
    BY <1>1 DEF Repacked
  <2>3. RowBytes(ss) \in RowArea(ss)
    BY DEF RebuildFits
  <2>4. QED
    BY <1>1, <2>2, <2>3, SizesAssumption DEF RowArea, SlotLen
<1> HIDE DEF n, ss
<1>4. Exact(n, p)
  <2>1. n.slots[p] = ss /\ n.free[p] = f
    BY <1>1, <1>2 DEF Databases
  <2>2. \A cap, len, b \in Int : (cap - 2 * len - b) + 2 * len + b = cap
    OBVIOUS
  <2>3. QED
    BY <1>3, <2>1, <2>2, SizesAssumption DEF Exact, SlotLen
<1>5. ASSUME NEW q \in d.own, q # p PROVE Exact(n, q)
  <2>1. q \in Pages
    BY DEF Databases
  <2>2. n.slots[q] = d.slots[q] /\ n.free[q] = d.free[q]
    BY <1>1, <1>2, <1>5, <2>1 DEF Databases
  <2>3. QED
    BY <2>2 DEF FreeOK, Exact
<1>6. QED
  BY <1>2, <1>4, <1>5 DEF FreeOK, n

\* A slot that dies keeps its bytes.
LEMMA KillFree ==
  ASSUME NEW d \in Databases, FreeOK(d), NEW a \in Addrs, Has(d, a)
  PROVE  FreeOK(Kill(d, a))
<1> DEFINE p == a[1]
           i == a[2] + 1
           s == DeadSlot(d.slots[p][i])
           n == Kill(d, a)
           ss == [d.slots[p] EXCEPT ![i] = s]
<1>1. p \in Pages /\ d.slots[p] \in Seq(Slots) /\ i \in 1..Len(d.slots[p])
  BY SlotPlace
<1>2. s \in Slots /\ s.len = d.slots[p][i].len
  <2>1. d.slots[p][i] \in Slots
    BY <1>1
  <2>2. QED
    BY <2>1 DEF DeadSlot, RowSlot, Slots
<1>3. n.slots = [d.slots EXCEPT ![p] = ss] /\ n.free = d.free /\ n.own = d.own
  BY <1>1 DEF Kill, Databases
<1> HIDE DEF s, n
<1>4. /\ ss \in Seq(Slots) /\ Len(ss) = Len(d.slots[p])
      /\ \A j \in DOMAIN d.slots[p] : d.slots[p][j].len = ss[j].len
  BY <1>1, <1>2
<1>5. RowBytes(d.slots[p]) = RowBytes(ss)
  BY <1>1, <1>4, BytesSame
<1>6. ASSUME NEW q \in d.own PROVE Exact(n, q)
  <2>1. CASE q = p
    <3>1. n.slots[q] = ss /\ n.free[q] = d.free[q]
      BY <1>1, <1>3, <2>1 DEF Databases
    <3>2. QED
      BY <1>4, <1>5, <2>1, <3>1 DEF FreeOK, Exact
  <2>2. CASE q # p
    <3>1. n.slots[q] = d.slots[q] /\ n.free[q] = d.free[q]
      BY <1>1, <1>3, <1>6, <2>2 DEF Databases
    <3>2. QED
      BY <3>1 DEF FreeOK, Exact
  <2>3. QED
    BY <2>1, <2>2
<1>7. QED
  BY <1>3, <1>6 DEF FreeOK, n

LEMMA DeleteFree ==
  ASSUME NEW d, PagesOK(d), FreeOK(d), NEW a \in Addrs, IsRow(d, a)
  PROVE  FreeOK(DeleteRow(d, a))
<1> DEFINE t == SlotAt(d, a).to
           m == IF SlotAt(d, a).kind = "ptr" THEN Kill(d, t) ELSE d
           g == Kill(m, a)
           n == DeleteRow(d, a)
<1>1. Has(d, a) /\ d \in Databases /\ RoomOK(d)
  BY DEF IsRow, PagesOK
<1>2. m \in Databases /\ RoomOK(m) /\ Has(m, a) /\ FreeOK(m)
  <2>1. CASE SlotAt(d, a).kind = "ptr"
    <3>1. t \in Addrs /\ Has(d, t)
      BY <1>1, <2>1 DEF PagesOK, KindOK, TargetsOK, IsPtr
    <3>2. QED
      BY <1>1, <2>1, <3>1, KillFacts, KillFree
  <2>2. CASE SlotAt(d, a).kind # "ptr"
    BY <1>1, <2>2
  <2>3. QED
    BY <2>1, <2>2
<1>3. n = [g EXCEPT !.count = IF g.count > 0 THEN g.count - 1 ELSE 0]
  BY DEF DeleteRow
<1> HIDE DEF m
<1>4. g \in Databases /\ FreeOK(g)
  BY <1>2, KillFacts, KillFree
<1> HIDE DEF g, n
<1>5. n.own = g.own /\ n.slots = g.slots /\ n.free = g.free
  BY <1>3, <1>4 DEF Databases
<1>6. QED
  BY <1>4, <1>5, SameFree DEF n

FInv == RInv /\ FreeOK(db) /\ FreeOK(w)

LEMMA ReloadFree ==
  ASSUME FInv, RowNumbersFit
  PROVE  PagesOK(Reload(db)) /\ FreeOK(Reload(db))
<1>1. /\ PagesOK(Reload(db)) /\ PagesOK(db)
      /\ Reload(db).own = db.own /\ Reload(db).slots = db.slots
  BY ReloadOK DEF FInv, RInv, IInv, RowNumbersFit
<1>2. Reload(db).free = db.free
  BY <1>1 DEF Reload, PagesOK, Databases
<1>3. QED
  BY <1>1, <1>2, SameFree DEF FInv

LEMMA InsertFree ==
  ASSUME FInv, RowNumbersFit, NEW k \in Keys, NEW len \in Lens, Insert(k, len)
  PROVE  FreeOK(db')
<1> DEFINE d == Reload(db)
           s == RowSlot("row", k, len)
<1>1. PagesOK(d) /\ FreeOK(d)
  BY ReloadFree
<1>2. PICK p \in Placement(d, len) :
        /\ len + SlotLen <= PageCap
        /\ Install([AppendSlot(d, p, s) EXCEPT !.idx = @ \cup {Entry(k, NextAddr(d, p))},
                                               !.count = @ + 1])
  BY DEF Insert
<1> HIDE DEF d
<1> DEFINE n == AppendSlot(d, p, s)
<1>3. s \in Slots /\ s.len = len /\ len \in Nat /\ d \in Databases /\ RoomOK(d)
  BY <1>1, SizesAssumption DEF RowSlot, Slots, PagesOK
<1>4. p \in Pages /\ CanAppend(d, p, s.len)
  BY <1>2, <1>3, PlacementFacts
<1> HIDE DEF s
<1>5. n \in Databases /\ FreeOK(n)
  BY <1>1, <1>3, <1>4, AppendFacts, AppendFree
<1> HIDE DEF n
<1>6. db' = [n EXCEPT !.idx = n.idx \cup {Entry(k, NextAddr(d, p))}, !.count = n.count + 1]
  BY <1>2 DEF Install, n, s
<1>7. db'.own = n.own /\ db'.slots = n.slots /\ db'.free = n.free
  BY <1>5, <1>6 DEF Databases
<1>8. QED
  BY <1>5, <1>7, SameFree

LEMMA UpdateOverflowFree ==
  ASSUME FInv, UpdateOverflow
  PROVE  FreeOK(w')
<1> DEFINE Step(c, p) ==
             LET a == NextAddr(w, p)
                 d == AppendSlot(w, p, RowSlot("payload", c.key, c.len))
             IN /\ CanAppend(w, p, c.len)
                /\ RebuildFits(d, c.loc, PtrSlot(a))
                /\ w' = [Rebuild(d, c.loc, PtrSlot(a)) EXCEPT !.idx = Reindex(@, c)]
<1>1. \E c \in todo : \E p \in Placement(w, c.len) : Step(c, p)
  BY DEF UpdateOverflow
<1>2. PICK c \in todo : \E p \in Placement(w, c.len) : Step(c, p)
  BY <1>1
<1>3. PICK p \in Placement(w, c.len) : Step(c, p)
  BY <1>2
<1> DEFINE s == RowSlot("payload", c.key, c.len)
           a == NextAddr(w, p)
           d == AppendSlot(w, p, s)
           n == Rebuild(d, c.loc, PtrSlot(a))
<1>4. /\ c.loc \in Addrs /\ c.key \in Keys /\ c.len \in Nat
      /\ Has(w, c.loc) /\ w \in Databases /\ RoomOK(w) /\ FreeOK(w)
  BY DEF FInv, RInv, IInv, PagesOK, Changes, PlanOK, IsRow
<1>5. s \in Slots /\ s.len = c.len
  BY <1>4 DEF RowSlot, Slots
<1>6. p \in Pages /\ CanAppend(w, p, s.len)
  BY <1>3, <1>4, <1>5, PlacementFacts
<1>7. RebuildFits(d, c.loc, PtrSlot(a)) /\ w' = [n EXCEPT !.idx = Reindex(n.idx, c)]
  BY <1>3
<1> HIDE DEF s
<1>8. d \in Databases /\ RoomOK(d) /\ FreeOK(d) /\ a \in Addrs /\ Has(d, c.loc)
  BY <1>4, <1>5, <1>6, AppendFacts, AppendFree
<1> HIDE DEF a, d
<1>9. PtrSlot(a) \in Slots
  BY <1>8 DEF PtrSlot, PtrLen, Slots
<1>10. n \in Databases /\ FreeOK(n)
  BY <1>4, <1>7, <1>8, <1>9, RebuildFacts, RebuildFree
<1> HIDE DEF n
<1>11. w'.own = n.own /\ w'.slots = n.slots /\ w'.free = n.free
  BY <1>7, <1>10 DEF Databases
<1>12. QED
  BY <1>10, <1>11, SameFree

LEMMA StepFree ==
  ASSUME FInv, RowNumbersFit, [Next]_vars
  PROVE  FreeOK(db)' /\ FreeOK(w)'
<1> USE DEF FInv
<1>1. ASSUME NEW d, FreeOK(d), Install(d) PROVE FreeOK(db)' /\ FreeOK(w)'
  BY <1>1 DEF Install
<1>2. ASSUME NEW k \in Keys, NEW len \in Lens, Insert(k, len) PROVE FreeOK(db)' /\ FreeOK(w)'
  <2>1. FreeOK(db') /\ Install(db')
    BY <1>2, InsertFree, InsertEffect, Zenon
  <2>2. QED
    BY <1>1, <2>1
<1>3. ASSUME NEW a \in Addrs, DeleteAt(a) PROVE FreeOK(db)' /\ FreeOK(w)'
  <2> DEFINE d == Reload(db)
             n == DeleteRow(d, a)
             m == [n EXCEPT !.idx = n.idx \ {Entry(KeyAt(d, a), a)}]
  <2>1. IsRow(d, a) /\ Install(m) /\ PagesOK(d) /\ FreeOK(d)
    BY <1>3, ReloadFree DEF DeleteAt
  <2> HIDE DEF d
  <2>2. n \in Databases /\ FreeOK(n)
    BY <2>1, DeleteRows, DeleteFree DEF PagesOK
  <2> HIDE DEF n
  <2>3. m.own = n.own /\ m.slots = n.slots /\ m.free = n.free
    BY <2>2 DEF Databases
  <2>4. FreeOK(m)
    BY <2>2, <2>3, SameFree
  <2> HIDE DEF m
  <2>5. QED
    BY <1>1, <2>1, <2>4
<1>4. ASSUME NEW op, NEW plan, Begin(op, plan) PROVE FreeOK(db)' /\ FreeOK(w)'
  BY <1>4, ReloadFree DEF Begin
<1>5. ASSUME UpdateInPlace PROVE FreeOK(w')
  <2>1. PICK c \in todo :
          /\ RebuildFits(w, c.loc, RowSlot("row", c.key, c.len))
          /\ w' = [Rebuild(w, c.loc, RowSlot("row", c.key, c.len)) EXCEPT !.idx = Reindex(@, c)]
    BY <1>5 DEF UpdateInPlace
  <2> DEFINE s == RowSlot("row", c.key, c.len)
             n == Rebuild(w, c.loc, s)
  <2>2. /\ c.loc \in Addrs /\ c.key \in Keys /\ c.len \in Nat
        /\ Has(w, c.loc) /\ w \in Databases /\ RoomOK(w) /\ FreeOK(w)
    BY DEF RInv, IInv, PagesOK, Changes, PlanOK, IsRow
  <2>3. s \in Slots
    BY <2>2 DEF RowSlot, Slots
  <2>4. RebuildFits(w, c.loc, s) /\ w' = [n EXCEPT !.idx = Reindex(n.idx, c)]
    BY <2>1
  <2> HIDE DEF s
  <2>5. n \in Databases /\ FreeOK(n)
    BY <2>2, <2>3, <2>4, RebuildFacts, RebuildFree
  <2> HIDE DEF n
  <2>6. w'.own = n.own /\ w'.slots = n.slots /\ w'.free = n.free
    BY <2>4, <2>5 DEF Databases
  <2>7. QED
    BY <2>5, <2>6, SameFree
<1>6. ASSUME DeleteNext PROVE FreeOK(w')
  <2>1. PICK c \in todo : w' = [DeleteRow(w, c.loc) EXCEPT !.idx = @ \ {Entry(c.old, c.loc)}]
    BY <1>6 DEF DeleteNext
  <2> DEFINE n == DeleteRow(w, c.loc)
  <2>2. c.loc \in Addrs /\ IsRow(w, c.loc) /\ PagesOK(w) /\ FreeOK(w)
    BY DEF RInv, IInv, Changes, PlanOK
  <2>3. n \in Databases /\ FreeOK(n) /\ w' = [n EXCEPT !.idx = n.idx \ {Entry(c.old, c.loc)}]
    BY <2>1, <2>2, DeleteRows, DeleteFree DEF PagesOK
  <2> HIDE DEF n
  <2>4. w'.own = n.own /\ w'.slots = n.slots /\ w'.free = n.free
    BY <2>3 DEF Databases
  <2>5. QED
    BY <2>3, <2>4, SameFree
<1>7. UpdateInPlace \/ UpdateOverflow \/ DeleteNext => db' = db
  BY DEF UpdateInPlace, UpdateOverflow, DeleteNext
<1>8. ASSUME Commit \/ Abort PROVE FreeOK(db)' /\ FreeOK(w)'
  BY <1>1, <1>8 DEF Commit, Abort
<1>9. ASSUME UNCHANGED vars PROVE FreeOK(db)' /\ FreeOK(w)'
  BY <1>9 DEF vars
<1>10. BeginDelete \/ (\E k \in Keys \cup {Keep}, len \in Lens \cup {Keep} : BeginUpdate(k, len))
         => \E op, plan : Begin(op, plan)
  BY DEF BeginUpdate, BeginDelete
<1>11. QED
  BY <1>2, <1>3, <1>4, <1>5, <1>6, <1>7, <1>8, <1>9, <1>10, UpdateOverflowFree DEF Next

\* The free-space field of every page header of the table counts exactly the bytes that its
\* slot directory and its rows, deleted ones included, leave, whatever calls went before
\* (row.go:837-883, 1074-1147).
THEOREM FreeTrue == Spec /\ []RowNumbersFit => []FreeExact
<1>1. Init => FInv
  BY InitRows DEF FInv, Init, NewTable, FreeOK
<1>2. FInv /\ RowNumbersFit /\ [Next]_vars => FInv'
  BY StepRows, StepFree DEF FInv
<1>3. FInv => FreeExact
  BY DEF FInv, FreeOK, Exact, FreeExact
<1>4. QED
  BY <1>1, <1>2, <1>3, PTL DEF Spec

-----------------------------------------------------------------------------
(* The index *)

\* Every row has its entry.
Complete(d) == \A a \in Addrs : IsRow(d, a) => Entry(KeyAt(d, a), a) \in d.idx

\* No two entries of a unique index have the same key.
KeysOK(d) == unique => \A e, f \in d.idx : e.key = f.key => e = f

\* All keys take the same room in the leaf, as those of a fixed-length column do.
EqualLens == \E l \in Nat : \A k \in Keys : KeyLen[k] = l

\* The entries have room in the leaf; it is needed where all keys are as long.
LeafOK(d) == EqualLens /\ d.idx # {} => LeafBytes(d.idx, 4) <= LeafRoom

Indexed(d) == Complete(d) /\ KeysOK(d) /\ LeafOK(d)

\* When no two changes of a call can get in each other's way, which the plan does not look at:
\* a unique column is assigned in one row at a time, and an entry makes room for its successor.
Agreeable == /\ unique => MaxUniqueBatch \in {0, 1}
             /\ ~ unique => MaxBatch \in {0, 1} \/ EqualLens

NoClash == \/ \A c, e \in batch : c = e
           \/ \A c \in batch : c.key = c.old
           \/ ~ unique /\ EqualLens

\* The plan holds for the index as the rounds before have left it.
PlansHold == call = "update" => NoClash /\ \A c \in todo : Plans(w.idx, c)

CInv == RInv /\ (Agreeable => Indexed(db) /\ Indexed(w) /\ PlansHold)

BytesOf(I) == [e \in I |-> KeyLen[e.key] + 4]

LEMMA IdxFinite ==
  ASSUME NEW d, PagesOK(d), IdxOK(d)
  PROVE  /\ IsFiniteSet(d.idx)
         /\ \A e \in d.idx : e.key \in Keys /\ e.loc \in Addrs /\ e = Entry(e.key, e.loc)
<1>1. \A e \in d.idx : e.key \in Keys /\ e.loc \in Addrs /\ e = Entry(e.key, e.loc)
  BY DEF PagesOK, Databases, Entry
<1> DEFINE R == {Entry(KeyAt(d, a), a) : a \in RowAddrs(d)}
<1>2. IsFiniteSet(R)
  <2> DEFINE f == [a \in RowAddrs(d) |-> Entry(KeyAt(d, a), a)]
  <2>1. f \in Surjection(RowAddrs(d), R)
    BY DEF Surjection
  <2> HIDE DEF f, R
  <2>2. QED
    BY <2>1, FiniteRows, FS_Surjection
<1>3. d.idx \subseteq R
  BY <1>1, AddrSets DEF IdxOK
<1>4. QED
  BY <1>1, <1>2, <1>3, FS_Subset

LEMMA LeafSum ==
  ASSUME NEW I
  PROVE  LeafBytes(I, 4) = SumOf(BytesOf(I), I)
<1>1. MapThenSumSet(LAMBDA e : KeyLen[e.key] + 4, I) = MapThenSumSet(LAMBDA e : BytesOf(I)[e], I)
  BY DEF MapThenSumSet, MapThenFoldSet, BytesOf
<1>2. QED
  BY <1>1 DEF LeafBytes, SumOf

\* Where all keys have the same length, an entry takes as much room as any other.
LEMMA LeafMore ==
  ASSUME NEW I, IsFiniteSet(I), \A e \in I : e.key \in Keys, NEW x, x \notin I, x.key \in Keys,
         NEW l \in Nat, \A k \in Keys : KeyLen[k] = l
  PROVE  LeafBytes(I \cup {x}, 4) = LeafBytes(I, 4) + l + 4 /\ LeafBytes(I, 4) \in Int
<1> DEFINE J == I \cup {x}
<1>1. \A e \in J : BytesOf(J)[e] = l + 4
  BY DEF BytesOf
<1>2. \A e \in I : BytesOf(I)[e] = l + 4
  BY DEF BytesOf
<1>3. SumOf(BytesOf(J), J) = BytesOf(J)[x] + SumOf(BytesOf(J), I)
  <2>1. \A e \in I \cup {x} : BytesOf(J)[e] \in Int
    <3>1. l + 4 \in Int
      OBVIOUS
    <3> HIDE DEF J
    <3>2. \A e \in J : BytesOf(J)[e] \in Int
      BY <1>1, <3>1
    <3>3. QED
      BY <3>2 DEF J
  <2>2. SumOf(BytesOf(J), I \cup {x}) = BytesOf(J)[x] + SumOf(BytesOf(J), I)
    BY <2>1, SumMore
  <2>3. QED
    BY <2>2
<1>4. SumOf(BytesOf(J), I) = SumOf(BytesOf(I), I)
  BY <1>1, <1>2, SumSame
<1>5. SumOf(BytesOf(I), I) \in Int
  BY <1>2, SumInt
<1>6. BytesOf(J)[x] = l + 4
  BY <1>1
<1> HIDE DEF J
<1>7. LeafBytes(J, 4) = SumOf(BytesOf(J), J) /\ LeafBytes(I, 4) = SumOf(BytesOf(I), I)
  BY LeafSum
<1>8. QED
  BY <1>3, <1>4, <1>5, <1>6, <1>7 DEF J

LEMMA LeafSwap ==
  ASSUME NEW I, IsFiniteSet(I), \A e \in I : e.key \in Keys, NEW x \in I, NEW k \in Keys,
         LeafBytes(I, 4) <= LeafRoom, EqualLens
  PROVE  LeafFits(I \ {x}, k)
<1>1. PICK l \in Nat : \A j \in Keys : KeyLen[j] = l
  BY DEF EqualLens
<1> DEFINE J == I \ {x}
<1>2. IsFiniteSet(J) /\ J \cup {x} = I /\ x \notin J
  BY FS_Subset
<1> HIDE DEF J
<1>3. LeafBytes(I, 4) = LeafBytes(J, 4) + l + 4
  <2>1. \A e \in J : e.key \in Keys
    BY <1>2
  <2>2. QED
    BY <1>1, <1>2, <2>1, LeafMore
<1>4. KeyLen[k] = l
  BY <1>1
<1>5. QED
  BY <1>3, <1>4 DEF LeafFits, J

\* What Plans asks for is enough for the index to accept the new key.
LEMMA PlannedAccepted ==
  ASSUME NEW d, PagesOK(d), IdxOK(d), NEW c \in Changes, KeyAt(d, c.loc) = c.old,
         Plans(d.idx, c), c.key # c.old
  PROVE  Accepts(d.idx \ {Entry(c.old, c.loc)}, c.key)
<1> DEFINE kept == d.idx \ {Entry(c.old, c.loc)}
<1>1. ASSUME unique, NEW e \in kept, e.key = c.key PROVE FALSE
  <2>1. e.loc = c.loc
    BY <1>1 DEF Plans
  <2>2. e.key = c.old
    BY <2>1 DEF IdxOK
  <2>3. QED
    BY <1>1, <2>2
<1>2. LeafFits(kept, c.key)
  BY DEF Plans
<1>3. QED
  BY <1>1, <1>2 DEF Accepts, KeyFree

\* In a leaf with equal entries, any change of a row has room.
LEMMA RoomForChange ==
  ASSUME NEW d, PagesOK(d), IdxOK(d), Indexed(d), NEW c \in Changes,
         IsRow(d, c.loc), KeyAt(d, c.loc) = c.old, ~ unique, EqualLens
  PROVE  Plans(d.idx, c)
<1>1. c.loc \in Addrs /\ c.key \in Keys
  BY DEF Changes
<1>2. Entry(c.old, c.loc) \in d.idx
  BY <1>1 DEF Indexed, Complete
<1>3. LeafBytes(d.idx, 4) <= LeafRoom
  BY <1>2 DEF Indexed, LeafOK
<1>4. LeafFits(d.idx \ {Entry(c.old, c.loc)}, c.key)
  BY <1>1, <1>2, <1>3, IdxFinite, LeafSwap
<1>5. QED
  BY <1>4 DEF Plans

LEMMA EntryFields ==
  ASSUME NEW k, NEW a, NEW j, NEW b
  PROVE  /\ Entry(k, a).key = k /\ Entry(k, a).loc = a
         /\ Entry(k, a) = Entry(j, b) => k = j /\ a = b
  BY DEF Entry

\* An accepted entry for a row that had none.
LEMMA EntryAdded ==
  ASSUME NEW I, IsFiniteSet(I), \A e \in I : e.key \in Keys, NEW k \in Keys, NEW a, Accepts(I, k),
         unique => \A e, f \in I : e.key = f.key => e = f,
         NEW d, d.idx = I \cup {Entry(k, a)}, Entry(k, a) \notin I
  PROVE  KeysOK(d) /\ LeafOK(d)
<1>1. KeysOK(d)
  BY EntryFields DEF KeysOK, Accepts, KeyFree
<1>2. ASSUME EqualLens PROVE LeafOK(d)
  <2>1. PICK l \in Nat : \A j \in Keys : KeyLen[j] = l
    BY <1>2 DEF EqualLens
  <2>2. LeafBytes(d.idx, 4) = LeafBytes(I, 4) + l + 4
    BY <2>1, EntryFields, LeafMore
  <2>3. LeafBytes(I, 4) + KeyLen[k] + 4 <= LeafRoom
    BY DEF Accepts, LeafFits
  <2>4. KeyLen[k] = l
    BY <2>1
  <2>5. QED
    BY <2>2, <2>3, <2>4 DEF LeafOK
<1>3. QED
  BY <1>1, <1>2 DEF LeafOK

LEMMA EntryRemoved ==
  ASSUME NEW d, KeysOK(d), NEW n, n.idx \subseteq d.idx
  PROVE  KeysOK(n)
  BY DEF KeysOK

\* A smaller leaf has room.
LEMMA LeafLess ==
  ASSUME NEW d, PagesOK(d), IdxOK(d), LeafOK(d), NEW n, NEW x, n.idx = d.idx \ {x}
  PROVE  LeafOK(n)
<1>1. SUFFICES ASSUME EqualLens, n.idx # {} PROVE LeafBytes(n.idx, 4) <= LeafRoom
  BY DEF LeafOK
<1>2. LeafBytes(d.idx, 4) <= LeafRoom
  BY <1>1 DEF LeafOK
<1>3. CASE x \notin d.idx
  <2>1. n.idx = d.idx
    BY <1>3
  <2>2. QED
    BY <1>2, <2>1
<1>4. CASE x \in d.idx
  <2>1. PICK l \in Nat : \A j \in Keys : KeyLen[j] = l
    BY <1>1 DEF EqualLens
  <2>2. /\ IsFiniteSet(n.idx) /\ n.idx \cup {x} = d.idx /\ x \notin n.idx
        /\ x.key \in Keys /\ \A e \in n.idx : e.key \in Keys
    BY <1>4, IdxFinite, FS_Subset
  <2>3. LeafBytes(d.idx, 4) = LeafBytes(n.idx, 4) + l + 4 /\ LeafBytes(n.idx, 4) \in Int
    BY <2>1, <2>2, LeafMore
  <2>4. QED
    BY <1>2, <2>1, <2>3, SizesAssumption
<1>5. QED
  BY <1>3, <1>4

-----------------------------------------------------------------------------
(* Each action keeps the index complete *)

LEMMA IndexedSame ==
  ASSUME NEW d, Indexed(d), NEW n, n.idx = d.idx,
         \A a : (IsRow(n, a) <=> IsRow(d, a)) /\ KeyAt(n, a) = KeyAt(d, a)
  PROVE  Indexed(n)
  BY DEF Indexed, Complete, KeysOK, LeafOK

LEMMA InsertIndexed ==
  ASSUME RInv, Indexed(db), RowNumbersFit, NEW k \in Keys, NEW len \in Lens, Insert(k, len)
  PROVE  Indexed(db')
<1>1. PICK a \in Addrs : /\ ~ Has(db, a) /\ SameElse(db, db', a)
                         /\ KeyAt(db', a) = k
                         /\ db'.idx = db.idx \cup {Entry(k, a)}
  BY InsertEffect
<1>2. PagesOK(db) /\ IdxOK(db) /\ Reload(db).idx = db.idx
  BY Reloaded DEF RInv, IInv
<1>3. Accepts(db.idx, k)
  BY <1>2 DEF Insert
<1>4. Entry(k, a) \notin db.idx
  BY <1>1, <1>2, EntryFields DEF IdxOK, IsRow
<1>5. KeysOK(db') /\ LeafOK(db')
  BY <1>1, <1>2, <1>3, <1>4, IdxFinite, EntryAdded DEF Indexed, KeysOK
<1>6. ASSUME NEW b \in Addrs, IsRow(db', b) PROVE Entry(KeyAt(db', b), b) \in db'.idx
  <2>1. CASE b = a
    BY <1>1, <2>1
  <2>2. CASE b # a
    <3>1. IsRow(db, b) /\ KeyAt(db', b) = KeyAt(db, b)
      BY <1>1, <1>6, <2>2 DEF SameElse, SameRow
    <3>2. QED
      BY <1>1, <3>1 DEF Indexed, Complete
  <2>3. QED
    BY <2>1, <2>2
<1>7. QED
  BY <1>5, <1>6 DEF Indexed, Complete

\* A row goes, with its entry.
LEMMA RowGone ==
  ASSUME NEW d, PagesOK(d), IdxOK(d), Indexed(d), NEW a \in Addrs, NEW n,
         SameElse(d, n, a), ~ IsRow(n, a), NEW k, n.idx = d.idx \ {Entry(k, a)}
  PROVE  Indexed(n)
<1>1. KeysOK(n) /\ LeafOK(n)
  BY EntryRemoved, LeafLess DEF Indexed
<1>2. ASSUME NEW b \in Addrs, IsRow(n, b) PROVE Entry(KeyAt(n, b), b) \in n.idx
  <2>1. b # a /\ IsRow(d, b) /\ KeyAt(n, b) = KeyAt(d, b)
    BY <1>2 DEF SameElse, SameRow
  <2>2. Entry(KeyAt(d, b), b) \in d.idx
    BY <2>1 DEF Indexed, Complete
  <2>3. QED
    BY <2>1, <2>2, EntryFields
<1>3. QED
  BY <1>1, <1>2 DEF Indexed, Complete

\* A row changes, and its entry with it.
LEMMA RowChanged ==
  ASSUME NEW d, PagesOK(d), IdxOK(d), Indexed(d), NEW c \in Changes,
         IsRow(d, c.loc), KeyAt(d, c.loc) = c.old, Plans(d.idx, c),
         NEW n, SameElse(d, n, c.loc), KeyAt(n, c.loc) = c.key, n.idx = Reindex(d.idx, c)
  PROVE  Indexed(n)
<1> DEFINE kept == d.idx \ {Entry(c.old, c.loc)}
<1>1. c.loc \in Addrs /\ c.key \in Keys
  BY DEF Changes
<1>2. Entry(c.old, c.loc) \in d.idx
  BY <1>1 DEF Indexed, Complete
<1>3. n.idx = kept \cup {Entry(c.key, c.loc)}
  <2>1. CASE c.key = c.old
    BY <1>2, <2>1 DEF Reindex
  <2>2. CASE c.key # c.old
    BY <2>2, PlannedAccepted DEF Reindex
  <2>3. QED
    BY <2>1, <2>2
<1>4. KeysOK(n) /\ LeafOK(n)
  <2>1. CASE c.key = c.old
    <3>1. n.idx = d.idx
      BY <2>1 DEF Reindex
    <3>2. QED
      BY <3>1 DEF Indexed, KeysOK, LeafOK
  <2>2. CASE c.key # c.old
    <3>1. IsFiniteSet(kept) /\ \A e \in kept : e.key \in Keys
      BY IdxFinite, FS_Subset
    <3>2. Accepts(kept, c.key)
      BY <2>2, PlannedAccepted
    <3>3. unique => \A e, f \in kept : e.key = f.key => e = f
      BY DEF Indexed, KeysOK
    <3>4. Entry(c.key, c.loc) \notin kept
      BY <2>2, EntryFields DEF IdxOK
    <3> HIDE DEF kept
    <3>5. QED
      BY <1>1, <1>3, <3>1, <3>2, <3>3, <3>4, EntryAdded
  <2>3. QED
    BY <2>1, <2>2
<1>5. ASSUME NEW b \in Addrs, IsRow(n, b) PROVE Entry(KeyAt(n, b), b) \in n.idx
  <2>1. CASE b = c.loc
    BY <1>3, <2>1
  <2>2. CASE b # c.loc
    <3>1. IsRow(d, b) /\ KeyAt(n, b) = KeyAt(d, b)
      BY <1>5, <2>2 DEF SameElse, SameRow
    <3>2. Entry(KeyAt(d, b), b) \in d.idx
      BY <3>1 DEF Indexed, Complete
    <3>3. QED
      BY <1>3, <2>2, <3>1, <3>2, EntryFields
  <2>3. QED
    BY <2>1, <2>2
<1>6. QED
  BY <1>4, <1>5 DEF Indexed, Complete

LEMMA RoundIndexed ==
  ASSUME RInv, RInv', Indexed(w), PlansHold, NEW c \in todo, UpdateRound(c) \/ DeleteRound(c)
  PROVE  Indexed(w') /\ PlansHold'
<1>1. /\ PagesOK(w) /\ IdxOK(w) /\ c \in Changes /\ c.loc \in Addrs
      /\ IsRow(w, c.loc) /\ KeyAt(w, c.loc) = c.old
  BY DEF RInv, IInv, PlanOK, Changes
<1>2. /\ todo' = todo \ {c} /\ unique' = unique /\ call' = call /\ batch' = batch
      /\ SameElse(w, w', c.loc)
  BY DEF UpdateRound, DeleteRound, Round
<1>3. Indexed(w')
  <2>1. CASE UpdateRound(c)
    <3>1. /\ KeyAt(w', c.loc) = c.key /\ w'.idx = Reindex(w.idx, c) /\ Plans(w.idx, c)
      BY <2>1 DEF UpdateRound, PlansHold
    <3>2. QED
      BY <1>1, <1>2, <3>1, RowChanged
  <2>2. CASE DeleteRound(c)
    <3>1. ~ IsRow(w', c.loc) /\ w'.idx = w.idx \ {Entry(c.old, c.loc)}
      BY <2>2 DEF DeleteRound
    <3>2. QED
      BY <1>1, <1>2, <3>1, RowGone
  <2>3. QED
    BY <2>1, <2>2
<1>4. ASSUME call = "update", NEW e \in todo' PROVE Plans(w'.idx, e)
  <2>1. e \in todo /\ e # c /\ e \in batch /\ c \in batch
    BY <1>2 DEF RInv, IInv
  <2>2. NoClash
    BY <1>4 DEF PlansHold
  <2>3. CASE \A f \in batch : f.key = f.old
    BY <2>1, <2>3 DEF Plans
  <2>4. CASE ~ unique /\ EqualLens
    <3>1. /\ PagesOK(w') /\ IdxOK(w') /\ e \in Changes
          /\ IsRow(w', e.loc) /\ KeyAt(w', e.loc) = e.old
      BY <1>4, <2>1 DEF RInv, IInv, PlanOK
    <3>2. QED
      BY <1>3, <2>4, <3>1, RoomForChange
  <2>5. QED
    BY <2>1, <2>2, <2>3, <2>4 DEF NoClash
<1>5. PlansHold'
  BY <1>2, <1>4 DEF PlansHold, NoClash, Plans, LeafFits
<1>6. QED
  BY <1>3, <1>5

\* No two changes of a call clash when it may select one row only, or when they cannot.
LEMMA SelectedApart ==
  ASSUME RInv, RowNumbersFit, Agreeable, NEW k \in Keys \cup {Keep}, NEW l,
         NEW S \in Selections(Reload(db), MaxUpdate(k))
  PROVE  \/ \A a, b \in S : a = b
         \/ \A a \in S : Change(Reload(db), a, k, l).key = Change(Reload(db), a, k, l).old
         \/ ~ unique /\ EqualLens
<1>1. CASE k = Keep
  BY <1>1 DEF Change
<1>2. ASSUME k # Keep, MaxUpdate(k) \in {0, 1} PROVE \A a, b \in S : a = b
  <2>1. S \subseteq RowAddrs(Reload(db)) /\ Cardinality(S) <= MaxUpdate(k)
    BY DEF Selections
  <2>2. IsFiniteSet(S) /\ Cardinality(S) \in Nat
    BY <2>1, Reloaded, FiniteRows, FS_Subset, FS_CardinalityType
  <2>3. Cardinality(S) = 0 \/ Cardinality(S) = 1
    BY <1>2, <2>1, <2>2
  <2>4. CASE Cardinality(S) = 0
    BY <2>2, <2>4, FS_EmptySet
  <2>5. CASE Cardinality(S) = 1
    BY <2>2, <2>5, FS_Singleton
  <2>6. QED
    BY <2>3, <2>4, <2>5
<1>3. k # Keep /\ unique => MaxUpdate(k) \in {0, 1}
  BY DEF MaxUpdate, Agreeable
<1>4. k # Keep /\ ~ unique => MaxUpdate(k) \in {0, 1} \/ EqualLens
  BY DEF MaxUpdate, Agreeable
<1>5. QED
  BY <1>1, <1>2, <1>3, <1>4

LEMMA BeginUpdateIndexed ==
  ASSUME RInv, Indexed(db), RowNumbersFit, Agreeable,
         NEW k \in Keys \cup {Keep}, NEW l \in Lens \cup {Keep}, BeginUpdate(k, l)
  PROVE  Indexed(db)' /\ Indexed(w)' /\ PlansHold'
<1> DEFINE d == Reload(db)
<1>1. PICK S \in Selections(d, MaxUpdate(k)) :
        /\ \A c \in {Change(d, a, k, l) : a \in S} : Plans(d.idx, c)
        /\ Begin("update", {Change(d, a, k, l) : a \in S})
  BY DEF BeginUpdate
<1> DEFINE plan == {Change(d, a, k, l) : a \in S}
<1>2. \/ \A c, e \in plan : c = e
      \/ \A c \in plan : c.key = c.old
      \/ ~ unique /\ EqualLens
  BY SelectedApart
<1>3. Indexed(d)
  BY Reloaded, IndexedSame
<1>4. /\ w' = d /\ db' = db /\ unique' = unique
      /\ batch' = plan /\ todo' = plan /\ call' = "update"
  BY <1>1 DEF Begin
<1>5. \A c \in plan : Plans(d.idx, c)
  BY <1>1
<1> HIDE DEF d, plan
<1>6. Indexed(db)' /\ Indexed(w)'
  BY <1>3, <1>4 DEF Indexed, Complete, KeysOK, LeafOK
<1>7. NoClash'
  BY <1>2, <1>4 DEF NoClash
<1>8. \A c \in todo' : Plans(w.idx, c)'
  BY <1>4, <1>5 DEF Plans, LeafFits
<1>9. QED
  BY <1>6, <1>7, <1>8 DEF PlansHold

LEMMA StepIndexed ==
  ASSUME CInv, RowNumbersFit, [Next]_vars
  PROVE  CInv'
<1>1. RInv /\ RInv'
  BY StepRows DEF CInv
<1>2. Agreeable' => Agreeable /\ unique' = unique
  <2>1. unique' = unique
    BY DEF Next, vars, Insert, BeginUpdate, BeginDelete, Begin, DeleteAt, UpdateInPlace,
           UpdateOverflow, DeleteNext, Commit, Abort, Install
  <2>2. QED
    BY <2>1 DEF Agreeable
<1>3. SUFFICES ASSUME Agreeable, unique' = unique
      PROVE  Indexed(db)' /\ Indexed(w)' /\ PlansHold'
  BY <1>1, <1>2 DEF CInv
<1>4. Indexed(db) /\ Indexed(w) /\ PlansHold
  BY <1>3 DEF CInv
<1> DEFINE Goal == Indexed(db)' /\ Indexed(w)' /\ PlansHold'
<1>5. ASSUME NEW d, Indexed(d), Install(d) PROVE Goal
  BY <1>3, <1>5 DEF Install, Indexed, Complete, KeysOK, LeafOK, PlansHold
<1>6. ASSUME NEW k \in Keys, NEW len \in Lens, Insert(k, len) PROVE Goal
  <2>1. Indexed(db') /\ Install(db')
    BY <1>1, <1>4, <1>6, InsertIndexed, InsertEffect, Zenon
  <2> HIDE DEF Goal
  <2>2. QED
    BY <1>5, <2>1
<1>7. ASSUME NEW a \in Addrs, DeleteAt(a) PROVE Goal
  <2>1. /\ Install(db') /\ SameElse(db, db', a) /\ ~ IsRow(db', a)
        /\ db'.idx = db.idx \ {Entry(KeyAt(db, a), a)}
    BY <1>1, <1>7, DeleteAtEffect, Zenon
  <2>2. Indexed(db')
    BY <1>1, <1>4, <2>1, RowGone DEF RInv, IInv
  <2> HIDE DEF Goal
  <2>3. QED
    BY <1>5, <2>1, <2>2
<1>8. ASSUME NEW k \in Keys \cup {Keep}, NEW len \in Lens \cup {Keep}, BeginUpdate(k, len) PROVE Goal
  BY <1>1, <1>3, <1>4, <1>8, BeginUpdateIndexed
<1>9. ASSUME BeginDelete PROVE Goal
  <2>1. w' = Reload(db) /\ db' = db /\ call' = "delete"
    BY <1>9 DEF BeginDelete, Begin
  <2>2. Indexed(Reload(db))
    BY <1>1, <1>4, Reloaded, IndexedSame
  <2>3. QED
    BY <1>3, <1>4, <2>1, <2>2 DEF Indexed, Complete, KeysOK, LeafOK, PlansHold
<1>10. ASSUME UpdateInPlace \/ UpdateOverflow \/ DeleteNext PROVE Goal
  <2>1. \E c \in todo : UpdateRound(c) \/ DeleteRound(c)
    BY <1>1, <1>10, UpdateInPlaceRows, UpdateOverflowRows, DeleteNextRows DEF RInv
  <2>2. PICK c \in todo : UpdateRound(c) \/ DeleteRound(c)
    BY <2>1
  <2>3. Indexed(w') /\ PlansHold'
    BY <1>1, <1>4, <2>2, RoundIndexed
  <2>4. db' = db
    BY <2>2 DEF UpdateRound, DeleteRound, Round
  <2>5. QED
    BY <1>3, <1>4, <2>3, <2>4 DEF Indexed, Complete, KeysOK, LeafOK
<1>11. ASSUME Commit \/ Abort PROVE Goal
  BY <1>4, <1>5, <1>11 DEF Commit, Abort
<1>12. ASSUME UNCHANGED vars PROVE Goal
  <2>1. UNCHANGED <<unique, db, w, call, batch, todo>>
    BY <1>12 DEF vars
  <2>2. Indexed(db)' /\ Indexed(w)'
    BY <1>4, <2>1 DEF Indexed, Complete, KeysOK, LeafOK
  <2>3. PlansHold'
    BY <1>4, <2>1 DEF PlansHold, NoClash, Plans, LeafFits
  <2>4. QED
    BY <2>2, <2>3
<1>13. QED
  BY <1>6, <1>7, <1>8, <1>9, <1>10, <1>11, <1>12 DEF Next

\* Under what the plan looks at, the index keeps an entry for every row and, if it is unique,
\* no two entries of the same key (index.go:135-169, 247-343).
THEOREM IndexInvariance == Spec /\ []RowNumbersFit => []CInv
<1>1. Init => CInv
  BY InitRows, EntryFields DEF CInv, Init, NewTable, Indexed, Complete, KeysOK, LeafOK, PlansHold,
                               IsRow, Has
<1>2. CInv /\ RowNumbersFit /\ [Next]_vars => CInv'
  BY StepIndexed
<1>3. QED
  BY <1>1, <1>2, PTL DEF Spec

\* Every row is found through the index, if a call assigns the column of a unique index in one
\* row at most and, for an index that is not unique, either selects one row at most or has keys
\* of one length.  Calls on more rows are planned against the index as it is before the first
\* change (row.go:1425-1471), and a change that it refuses later is dropped in silence.
THEOREM LookupsComplete ==
  ASSUME MaxUniqueBatch \in {0, 1}, MaxBatch \in {0, 1} \/ EqualLens
  PROVE  Spec /\ []RowNumbersFit => []IndexComplete
<1>1. ASSUME CInv PROVE IndexComplete
  <2>1. Complete(db) /\ PagesOK(db)
    BY <1>1 DEF CInv, Agreeable, Indexed, RInv, IInv
  <2>2. QED
    BY <2>1, AddrSets DEF Complete, IndexComplete
<1>2. QED
  BY <1>1, IndexInvariance, PTL

\* No two rows of a unique index have the same key, if a call assigns its column in one row at
\* most.  With two, the plan lets both have the same key (run table_batch_key).
THEOREM UniqueTrue ==
  ASSUME MaxUniqueBatch \in {0, 1}
  PROVE  Spec /\ []RowNumbersFit => []UniqueKeys
<1>1. ASSUME CInv PROVE UniqueKeys
  <2>1. SUFFICES ASSUME unique PROVE \A a, b \in RowAddrs(db) : KeyAt(db, a) = KeyAt(db, b) => a = b
    BY DEF UniqueKeys
  <2>2. Complete(db) /\ KeysOK(db) /\ PagesOK(db)
    BY <1>1, <2>1 DEF CInv, Agreeable, Indexed, RInv, IInv
  <2>3. \A a \in RowAddrs(db) : Entry(KeyAt(db, a), a) \in db.idx
    BY <2>2, AddrSets DEF Complete
  <2>4. QED
    BY <2>1, <2>2, <2>3, EntryFields DEF KeysOK
<1>2. QED
  BY <1>1, IndexInvariance, PTL
=============================================================================
