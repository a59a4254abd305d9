------------------------------ MODULE TableTxn ------------------------------
(***************************************************************************)
(* One table under write transactions (row.go, index.go, database.go).     *)
(*                                                                         *)
(* Every write call copies the whole database, re-reads the tables from    *)
(* the copied bytes, changes the copy step by step, and puts the copy in   *)
(* place of the original, or drops it at the first error.  Modelled here:  *)
(* the table's data pages as slot directories (live rows, overflow         *)
(* pointers, overflow payloads, deleted slots) with the free-space field   *)
(* of the page header, its single-leaf index, and its row count.           *)
(*                                                                         *)
(* A row is the value of its indexed column and its encoded length; the    *)
(* byte offsets inside a page are the subject of module DataPage.          *)
(***************************************************************************)
EXTENDS Naturals, Sequences, FiniteSets, FiniteSetsExt

CONSTANTS Keys,           \* values of the indexed column
          KeyLen,         \* their encoded lengths in the index
          Lens,           \* encoded row lengths
          Keep,           \* an Update that leaves a column out of its values map
          NoKey, NoAddr,  \* the fields a slot of that kind does not have
          NPages,         \* pages the table can get
          PageCap,        \* bytes of a page after its 14-byte header
          RowMod,         \* values of the row-number byte (256 in the code)
          LeafRoom,       \* bytes of an index leaf after its 480-byte head
          PlanRoom,       \* bytes of a leaf in the estimate insertInternal makes
          Schemas,        \* whether the index may be unique: a subset of BOOLEAN
          MaxBatch,       \* rows one Update or Delete may select
          MaxUniqueBatch  \* ... when it assigns the column of a unique index

PtrLen == 4      \* an overflow pointer: row byte and 24-bit page number
SlotLen == 2     \* one entry of the slot directory

Pages == 1..NPages
Addrs == Pages \X {n \in 0..PageCap : SlotLen * n <= PageCap}

ASSUME SizesAssumption == /\ NPages \in Nat \ {0}
                          /\ PageCap \in Nat
                          /\ RowMod \in Nat \ {0}
                          /\ Lens \subseteq Nat
                          /\ LeafRoom \in Nat
ASSUME KeysAssumption == /\ NoKey \notin Keys
                         /\ Keep \notin Keys \cup Lens
                         /\ NoAddr \notin Addrs
                         /\ Schemas \subseteq BOOLEAN

VARIABLES unique,  \* idx.Unique || idx.Primary, chosen when the table is created
          db,      \* the committed database
          w,       \* the working copy of the running transaction; db between calls
          call,    \* the call that is running: "none", "update" or "delete"
          batch,   \* the changes it planned, one for each row it selected
          todo     \* those of them that are not applied yet

vars == <<unique, db, w, call, batch, todo>>

Slots == [kind : {"row", "ptr", "payload", "dead"}, key : Keys \cup {NoKey},
          len : Nat, to : Addrs \cup {NoAddr}]

\* age orders DataPages: 0 for the pages the usage map listed when the table was
\* parsed (ascending page number), then 1, 2, ... for those appended since.
Databases == [slots : [Pages -> Seq(Slots)], free : [Pages -> Nat],
              own : SUBSET Pages, age : [Pages -> Nat],
              idx : SUBSET [key : Keys, loc : Addrs], count : Nat]

NewTable == [slots |-> [p \in Pages |-> <<>>], free |-> [p \in Pages |-> 0],
             own |-> {}, age |-> [p \in Pages |-> 0], idx |-> {}, count |-> 0]

RowSlot(kind, k, l) == [kind |-> kind, key |-> k, len |-> l, to |-> NoAddr]
PtrSlot(a) == [kind |-> "ptr", key |-> NoKey, len |-> PtrLen, to |-> a]
DeadSlot(s) == RowSlot("dead", NoKey, s.len)

-----------------------------------------------------------------------------
(* Reading *)

Has(d, a) == a[1] \in d.own /\ a[2] < Len(d.slots[a[1]])
SlotAt(d, a) == d.slots[a[1]][a[2] + 1]

\* The slot that holds the row at a: behind an overflow pointer, its target.
Holder(d, a) == IF SlotAt(d, a).kind = "ptr" THEN SlotAt(d, a).to ELSE a

\* parseRowAt: a live row at address a.  A payload is visible through its pointer only.
IsRow(d, a) == /\ Has(d, a)
               /\ SlotAt(d, a).kind \in {"row", "ptr"}
               /\ Has(d, Holder(d, a))
               /\ SlotAt(d, Holder(d, a)).kind \in {"row", "payload"}

KeyAt(d, a) == SlotAt(d, Holder(d, a)).key
LenAt(d, a) == SlotAt(d, Holder(d, a)).len

AllAddrs(d) == UNION {{p} \X (0..Len(d.slots[p]) - 1) : p \in d.own}
RowAddrs(d) == {a \in AllAddrs(d) : IsRow(d, a)}

\* The row byte of an index entry or an overflow pointer.
Byte(a) == <<a[1], a[2] % RowMod>>

\* deepClone: page bytes and counts are copied, the index entries and the page list
\* are read back from their pages.
Reload(d) == [d EXCEPT !.idx = {[key |-> e.key, loc |-> Byte(e.loc)] : e \in d.idx},
                       !.age = [p \in Pages |-> 0]]

-----------------------------------------------------------------------------
(* The index leaf *)

LeafBytes(idx, overhead) == MapThenSumSet(LAMBDA e : KeyLen[e.key] + overhead, idx)

KeyFree(idx, k) == unique => \A e \in idx : e.key # k
LeafFits(idx, k) == LeafBytes(idx, 4) + KeyLen[k] + 4 <= LeafRoom

\* Index.Insert refuses a duplicate or an entry the leaf has no room for.
Accepts(idx, k) == KeyFree(idx, k) /\ LeafFits(idx, k)

Entry(k, a) == [key |-> k, loc |-> a]

\* Mutant of Reindex: the removal looks at the key and not at the location.
ReindexByKey(idx, c) ==
  LET kept == {e \in idx : e.key # c.old}
  IN IF c.key = c.old THEN idx
     ELSE IF Accepts(kept, c.key) THEN kept \cup {Entry(c.key, c.loc)} ELSE kept

\* commitIndexChanges for a planned change: the removal of an absent entry does nothing,
\* and a refused insertion is dropped without an error.
Reindex(idx, c) ==
  LET kept == idx \ {Entry(c.old, c.loc)}
  IN IF c.key = c.old THEN idx
     ELSE IF Accepts(kept, c.key) THEN kept \cup {Entry(c.key, c.loc)} ELSE kept

-----------------------------------------------------------------------------
(* Data pages *)

\* findOrAllocateDataPage: the first page, in the order of DataPages, whose header
\* promises room for the row and its slot; if none does, a new page.  Which page the
\* database hands out is not this table's choice.
Before(d, p, q) == d.age[p] < d.age[q] \/ (d.age[p] = d.age[q] /\ p <= q)
RoomyForRow(d, len) == {p \in d.own : d.free[p] >= len}  \* mutant: no room for the slot
Roomy(d, len) == {p \in d.own : d.free[p] >= len + SlotLen}
Placement(d, len) == IF Roomy(d, len) # {}
                     THEN {p \in Roomy(d, len) : \A q \in Roomy(d, len) : Before(d, p, q)}
                     ELSE Pages \ d.own

Claim(d, p) == IF p \in d.own THEN d
               ELSE [d EXCEPT !.own = @ \cup {p}, !.free[p] = PageCap,
                              !.age[p] = 1 + Cardinality({q \in d.own : d.age[q] > 0})]

\* writeRowToPage appends a slot; it fails on a page without the room.
CanAppend(d, p, len) == Claim(d, p).free[p] >= len + SlotLen
\* Mutant of AppendSlot: the slot's own two bytes are not taken off the free space.
AppendSlotUncounted(d, p, s) == LET c == Claim(d, p)
                                IN [c EXCEPT !.slots[p] = Append(@, s), !.free[p] = @ - s.len]
\* Mutant of AppendSlot: a deleted slot at the end of the directory is used again.
AppendSlotReusing(d, p, s) ==
  LET c == Claim(d, p)
      n == Len(c.slots[p])
  IN IF n > 0 /\ c.slots[p][n].kind = "dead"
     THEN [c EXCEPT !.slots[p][n] = s, !.free[p] = @ - s.len]
     ELSE [c EXCEPT !.slots[p] = Append(@, s), !.free[p] = @ - (s.len + SlotLen)]

AppendSlot(d, p, s) == LET c == Claim(d, p)
                       IN [c EXCEPT !.slots[p] = Append(@, s),
                                    !.free[p] = @ - (s.len + SlotLen)]
NextAddr(d, p) == <<p, Len(d.slots[p])>>

\* Mutant of Repacked: a repacked slot loses its overflow flag.
RepackedUnflagged(ss, i, s) ==
  [j \in DOMAIN ss |-> IF j = i THEN s
                       ELSE IF ss[j].kind = "dead" THEN [ss[j] EXCEPT !.len = 0]
                       ELSE IF ss[j].kind = "payload" THEN [ss[j] EXCEPT !.kind = "row"] ELSE ss[j]]

\* rebuildDataPage repacks a page around the replaced slot: deleted slots keep their
\* number and lose their bytes, and the free-space field is computed anew.
Repacked(ss, i, s) == [j \in DOMAIN ss |-> IF j = i THEN s
                                           ELSE IF ss[j].kind = "dead"
                                           THEN [ss[j] EXCEPT !.len = 0] ELSE ss[j]]
RowBytes(ss) == MapThenSumSet(LAMBDA j : ss[j].len, DOMAIN ss)
RowArea(ss) == 0..(PageCap - SlotLen * Len(ss))
RebuildFits(d, a, s) ==
  LET ss == Repacked(d.slots[a[1]], a[2] + 1, s) IN RowBytes(ss) \in RowArea(ss)
Rebuild(d, a, s) ==
  LET ss == Repacked(d.slots[a[1]], a[2] + 1, s)
  IN [d EXCEPT !.slots[a[1]] = ss, !.free[a[1]] = PageCap - SlotLen * Len(ss) - RowBytes(ss)]

\* deleteAt flags a slot deleted and leaves its bytes; the payload behind an overflow
\* pointer goes with the pointer.
Kill(d, a) == [d EXCEPT !.slots[a[1]][a[2] + 1] = DeadSlot(@)]
\* Mutant of DeleteRow: the row count is left alone.
DeleteRowUncounted(d, a) == Kill(IF SlotAt(d, a).kind = "ptr"
                                 THEN Kill(d, SlotAt(d, a).to) ELSE d, a)
DeleteRow(d, a) == LET gone == Kill(IF SlotAt(d, a).kind = "ptr"
                                    THEN Kill(d, SlotAt(d, a).to) ELSE d, a)
                   IN [gone EXCEPT !.count = IF @ > 0 THEN @ - 1 ELSE 0]

-----------------------------------------------------------------------------
(* The calls *)

Idle == call = "none"

Init == /\ unique \in Schemas
        /\ db = NewTable /\ w = NewTable
        /\ call = "none" /\ batch = {} /\ todo = {}

\* The end of a transaction, with the working copy put in place of the original
\* (replaceState) ...
Install(d) == /\ db' = d /\ w' = d
              /\ call' = "none" /\ batch' = {} /\ todo' = {}
              /\ UNCHANGED unique

\* Table.Insert.  An early return leaves the database alone and is no step.
Insert(k, len) ==
  LET d == Reload(db)
  IN /\ Idle
     /\ KeyFree(d.idx, k)
     /\ LeafBytes(d.idx, 8) + KeyLen[k] + 8 <= PlanRoom
     /\ len + SlotLen <= PageCap
     /\ Accepts(d.idx, k)
     /\ \E p \in Placement(d, len) :
          Install([AppendSlot(d, p, RowSlot("row", k, len)) EXCEPT
                     !.idx = @ \cup {Entry(k, NextAddr(d, p))},
                     !.count = @ + 1])

\* The scan of updateInternal and deleteInternal, and the plan they make of it: every
\* change is planned against the index as it is before the first of them.
Begin(op, plan) == /\ Idle
                   /\ w' = Reload(db)
                   /\ call' = op /\ batch' = plan /\ todo' = plan
                   /\ UNCHANGED <<unique, db>>

Change(d, a, k, len) == [loc |-> a, old |-> KeyAt(d, a),
                         key |-> IF k = Keep THEN KeyAt(d, a) ELSE k,
                         len |-> IF len = Keep THEN LenAt(d, a) ELSE len]

\* Mutant of Plans: only the room in the leaf is looked at.
PlansUnchecked(idx, c) ==
  c.key # c.old => LeafFits(idx \ {Entry(c.old, c.loc)}, c.key)

\* PrepareUpdate
Plans(idx, c) ==
  c.key # c.old => /\ unique => \A e \in idx : e.key = c.key => e.loc = c.loc
                   /\ LeafFits(idx \ {Entry(c.old, c.loc)}, c.key)

Selections(d, max) == {S \in SUBSET RowAddrs(d) : Cardinality(S) <= max}
MaxUpdate(k) == IF unique /\ k # Keep THEN MaxUniqueBatch ELSE MaxBatch

BeginUpdate(k, len) ==
  LET d == Reload(db)
  IN \E S \in Selections(d, MaxUpdate(k)) :
       LET plan == {Change(d, a, k, len) : a \in S}
       IN /\ \A c \in plan : Plans(d.idx, c)
          /\ Begin("update", plan)

BeginDelete ==
  LET d == Reload(db)
  IN \E S \in Selections(d, MaxBatch) : Begin("delete", {Change(d, a, Keep, Keep) : a \in S})

\* The candidates are worked off in the order the scan met them.
Next1(c) == \A e \in todo : \/ c.loc[1] < e.loc[1]
                            \/ c.loc[1] = e.loc[1] /\ c.loc[2] <= e.loc[2]

\* One round of updateInternal's second loop: the row is rewritten in its page ...
UpdateInPlace == \E c \in todo :
  LET s == RowSlot("row", c.key, c.len)
  IN /\ call = "update" /\ Next1(c)
     /\ RebuildFits(w, c.loc, s)
     /\ w' = [Rebuild(w, c.loc, s) EXCEPT !.idx = Reindex(@, c)]
     /\ todo' = todo \ {c}
     /\ UNCHANGED <<unique, db, call, batch>>

\* ... or, when the page is full, appended to a page with room as an overflow payload
\* that the old slot points to.  (The payload behind an earlier pointer stays behind.)
\* Bound: the payload's row number fits the pointer's row byte.
UpdateOverflow == \E c \in todo : \E p \in Placement(w, c.len) :
  LET a == NextAddr(w, p)
      d == AppendSlot(w, p, RowSlot("payload", c.key, c.len))
  IN /\ call = "update" /\ Next1(c)
     /\ ~ RebuildFits(w, c.loc, RowSlot("row", c.key, c.len))
     /\ CanAppend(w, p, c.len)
     /\ a[2] < RowMod
     /\ RebuildFits(d, c.loc, PtrSlot(a))
     /\ w' = [Rebuild(d, c.loc, PtrSlot(a)) EXCEPT !.idx = Reindex(@, c)]
     /\ todo' = todo \ {c}
     /\ UNCHANGED <<unique, db, call, batch>>

\* One round of deleteInternal's second loop.
DeleteNext == \E c \in todo :
  /\ call = "delete" /\ Next1(c)
  /\ w' = [DeleteRow(w, c.loc) EXCEPT !.idx = @ \ {Entry(c.old, c.loc)}]
  /\ todo' = todo \ {c}
  /\ UNCHANGED <<unique, db, call, batch>>

\* Mutant of DeleteAt: the index entry stays.
DeleteAtUnindexed(a) == LET d == Reload(db) IN Idle /\ IsRow(d, a) /\ Install(DeleteRow(d, a))

\* Table.DeleteAt: any address is legal; without a live row there, it is an error.
DeleteAt(a) ==
  LET d == Reload(db)
  IN /\ Idle
     /\ IsRow(d, a)
     /\ Install([DeleteRow(d, a) EXCEPT !.idx = @ \ {Entry(KeyAt(d, a), a)}])

Commit == /\ ~ Idle
          /\ todo = {}
          /\ Install(w)

\* Mutant of Abort: what was done so far is kept.
AbortKeeping == /\ call = "update"
                /\ \E c \in todo :
                     /\ Next1(c)
                     /\ ~ RebuildFits(w, c.loc, RowSlot("row", c.key, c.len))
                     /\ \A p \in Placement(w, c.len) : ~ CanAppend(w, p, c.len)
                /\ Install(w)

\* ... or with the working copy dropped, when no page has room for a payload.
Abort == /\ call = "update"
         /\ \E c \in todo :
              /\ Next1(c)
              /\ ~ RebuildFits(w, c.loc, RowSlot("row", c.key, c.len))
              /\ \A p \in Placement(w, c.len) : ~ CanAppend(w, p, c.len)
         /\ Install(db)

Next == \/ \E k \in Keys, len \in Lens : Insert(k, len)
        \/ \E k \in Keys \cup {Keep}, len \in Lens \cup {Keep} : BeginUpdate(k, len)
        \/ BeginDelete
        \/ \E a \in Addrs : DeleteAt(a)
        \/ UpdateInPlace \/ UpdateOverflow \/ DeleteNext
        \/ Commit \/ Abort

Spec == Init /\ [][Next]_vars

-----------------------------------------------------------------------------
(* What must hold *)

TypeOK == /\ unique \in BOOLEAN
          /\ db \in Databases /\ w \in Databases
          /\ call \in {"none", "update", "delete"}
          /\ batch \subseteq [loc : Addrs, old : Keys, key : Keys, len : Nat]
          /\ todo \subseteq batch

\* An index lookup never leads astray: what an entry names is a live row, and the row has
\* the entry's key.  Deleting, rewriting and moving rows to overflow pages all have to
\* keep it, over entries that were read back from a leaf in between (README: "index sync").
IndexSound == \A e \in db.idx : IsRow(db, e.loc) /\ KeyAt(db, e.loc) = e.key

\* Every live row is found through the index (FindByPrimaryKey, FindByIndex), however
\* often it was updated, moved, or left alone while its neighbours were.
IndexComplete == \A a \in RowAddrs(db) : Entry(KeyAt(db, a), a) \in db.idx

\* "maintaining sorted order and unique constraint" (Index.Insert): no two live rows of a
\* unique index have the same key.
UniqueKeys == unique => \A a, b \in RowAddrs(db) : KeyAt(db, a) = KeyAt(db, b) => a = b

\* The row count that the table definition page stores is the number of rows a scan finds.
CountExact == db.count = Cardinality(RowAddrs(db))

\* No overflow pointer dangles, and none shares its payload with another: updating or
\* deleting one row never reaches the bytes of another.
PointersExact ==
  LET Ptrs == {a \in AllAddrs(db) : SlotAt(db, a).kind = "ptr"}
  IN /\ \A a \in Ptrs : /\ Has(db, SlotAt(db, a).to)
                        /\ SlotAt(db, SlotAt(db, a).to).kind = "payload"
     /\ \A a, b \in Ptrs : SlotAt(db, a).to = SlotAt(db, b).to => a = b

\* The free-space field of a page header, which alone decides where rows go, counts
\* exactly the bytes between the slot directory and the rows, deleted bytes included.
FreeExact == \A p \in db.own :
  db.free[p] + SlotLen * Len(db.slots[p]) + RowBytes(db.slots[p]) = PageCap

\* No page has more rows than the row byte has values.  The code does not ensure this: a
\* page of 4096 bytes has room for several hundred slots (module MCTableTxn's row-byte run).
RowNumbersFit == \A p \in db.own : Len(db.slots[p]) <= RowMod

\* The table as its callers see it: whole calls over rows with permanent addresses.
Store == INSTANCE TableStore
           WITH rows <- [a \in RowAddrs(db) |-> [key |-> KeyAt(db, a), len |-> LenAt(db, a)]],
                used <- AllAddrs(db)

\* Every Insert, Update, Delete and DeleteAt changes rows of the table and nothing else: one
\* new row at an address no row ever had, one assignment to some rows, or some rows gone.
AtomicCalls == Store!Spec

\* "an atomic write transaction" (Update, Delete): when a call on several rows changes the
\* database, every row it selected has exactly the change planned for it, although its
\* neighbours were repacked, moved or deleted meanwhile, and every other row is as it was.
AllOrNothing ==
  [][~ Idle /\ db' # db =>
       \A a \in RowAddrs(db) :
         LET planned == {c \in batch : c.loc = a}
             now == [key |-> KeyAt(db', a), len |-> LenAt(db', a)]
         IN /\ call = "delete" => (a \in RowAddrs(db') <=> planned = {})
            /\ call = "update" => a \in RowAddrs(db')
            /\ a \in RowAddrs(db') =>
                 IF planned = {} THEN now = [key |-> KeyAt(db, a), len |-> LenAt(db, a)]
                 ELSE \A c \in planned : now = [key |-> c.key, len |-> c.len]]_vars
=============================================================================
