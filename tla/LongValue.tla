----------------------------- MODULE LongValue -----------------------------
(***************************************************************************)
(* Memo and OLE values kept outside their rows (long_value.go), and the    *)
(* rows that refer to them (row.go).                                       *)
(*                                                                         *)
(* A short value is part of its row.  A longer one is a chunk on a page of *)
(* its own kind (LVAL), or a chain of chunks, each with a reference to the *)
(* next.  Chunks share pages; a page goes back to the database when all    *)
(* its chunks are deleted.  Nothing counts references: a chunk is freed    *)
(* when the row that refers to it is rewritten, deleted or dropped, if its *)
(* descriptor is found.                                                    *)
(*                                                                         *)
(* The rows of one data page with one long column are modelled; of the     *)
(* layout of that page, only what decides whether a descriptor is found    *)
(* (module DataPage).                                                      *)
(***************************************************************************)
EXTENDS Naturals, Sequences, FiniteSets, SequencesExt

CONSTANTS Values,      \* long values
          LenOf,       \* their lengths
          InlineMax,   \* lvalInlineMax: longest value kept in its row
          PayloadMax,  \* lvalPayloadMax: most bytes of a value in a chunk of a chain
          NextLen,     \* bytes of the reference to the next chunk
          PageRoom,    \* bytes of an LVAL page after its header
          MaxRecs,     \* chunks of a page (254 in the code)
          NoRef, Gone,
          NPages,      \* bound: pages for long values
          MaxRows      \* bound: rows of the data page

SlotLen == 2
ChunkMax == PayloadMax + NextLen   \* lvalChunkMax

VARIABLES lval,   \* the chunks of each LVAL page; an LVAL page has at least one
          used,   \* the pages the usage map says are taken
          rows    \* the rows of a data page

vars == <<lval, used, rows>>

Pages == 1..NPages
Refs == Pages \X (0..(MaxRecs - 1))

\* A piece of a value stands for its bytes: piece i of a value in chunks of PayloadMax.
Pieces(v) == IF LenOf[v] <= ChunkMax THEN <<<<v, 1>>>>
             ELSE [i \in 1..((LenOf[v] + PayloadMax - 1) \div PayloadMax) |-> <<v, i>>]

\* What the layout relies on: a full chunk fits a page, and never beside the last chunk
\* of a chain, however short that is.
ASSUME ChunkAssumption ==
  /\ LenOf \in [Values -> Nat \ {0}]
  /\ InlineMax \in Nat /\ PayloadMax \in Nat \ {0} /\ NextLen \in Nat
  /\ PageRoom \in Nat /\ MaxRecs \in Nat \ {0} /\ NPages \in Nat /\ MaxRows \in Nat
  /\ ChunkMax + SlotLen <= PageRoom
  /\ (NextLen + 1 + SlotLen) + (ChunkMax + SlotLen) > PageRoom
  /\ NoRef \notin Refs /\ Gone \notin {Pieces(v) : v \in Values}

\* Mutant of PieceLen: the reference to the next chunk gets no room.
PieceLenFull(v, i) == IF i < Len(Pieces(v)) THEN ChunkMax ELSE LenOf[v] - (i - 1) * PayloadMax
PieceLen(v, i) == IF i < Len(Pieces(v)) THEN PayloadMax ELSE LenOf[v] - (i - 1) * PayloadMax

Chunk == [live : BOOLEAN, len : 1..ChunkMax, piece : UNION {ToSet(Pieces(v)) : v \in Values},
          next : Refs \cup {NoRef}]

\* Where a row's value is: in the row, in one chunk, or in a chain that begins there.
Inline(v) == [flag |-> "inline", value |-> Pieces(v), ref |-> NoRef]
Descs == {Inline(v) : v \in Values} \cup [flag : {"single", "multi"}, value : {<<>>}, ref : Refs]

\* packed: the slot lost its bytes when the page was rebuilt after the row's deletion.
Row == [alive : BOOLEAN, packed : BOOLEAN, desc : Descs]

ChunkAt(pages, r) == pages[r[1]][r[2] + 1]

-----------------------------------------------------------------------------
(* Allocation: a store is a record of the pages and the usage map *)

BytesUsed(cs) == FoldLeft(LAMBDA n, c : n + c.len + SlotLen, 0, cs)

\* Mutant of HasRoom: the slot directory is overlooked.
HasRoomTight(st, p, len) == /\ st.lval[p] # <<>>
                            /\ Len(st.lval[p]) < MaxRecs
                            /\ FoldLeft(LAMBDA n, c : n + c.len, 0, st.lval[p]) + len <= PageRoom

\* allocateLVALSlot: the first LVAL page with room below its lowest chunk, deleted
\* chunks included, or else the first free page.
HasRoom(st, p, len) == /\ st.lval[p] # <<>>
                       /\ Len(st.lval[p]) < MaxRecs
                       /\ BytesUsed(st.lval[p]) + len + SlotLen <= PageRoom

FirstOf(S) == CHOOSE p \in S : \A q \in S : p <= q
Target(st, len) == LET open == {p \in Pages : HasRoom(st, p, len)}
                   IN IF open # {} THEN open ELSE Pages \ st.used

\* Mutant of Alloc: the page is taken, but not marked as used.
AllocUnmarked(st, len, piece) ==
  LET p == FirstOf(Target(st, len))
  IN [st EXCEPT !.lval[p] = Append(@, [live |-> TRUE, len |-> len, piece |-> piece, next |-> st.ref]),
                !.ref = <<p, Len(st.lval[p])>>]

\* Allocates a chunk that refers to the one allocated before it, st.ref.
Alloc(st, len, piece) ==
  LET p == FirstOf(Target(st, len))
  IN [st EXCEPT !.lval[p] = Append(@, [live |-> TRUE, len |-> len, piece |-> piece, next |-> st.ref]),
                !.used = @ \cup {p},
                !.ref = <<p, Len(st.lval[p])>>]

\* freeLVALSlot: the chunk is flagged deleted; with its last chunk a page is zeroed and freed.
FreeSlot(st, r) ==
  LET cs == [st.lval[r[1]] EXCEPT ![r[2] + 1].live = FALSE]
      empty == \A i \in DOMAIN cs : ~ cs[i].live
  IN [st EXCEPT !.lval[r[1]] = IF empty THEN <<>> ELSE cs,
                !.used = IF empty THEN @ \ {r[1]} ELSE @]

Readable(pages, r) == r # NoRef /\ r[2] < Len(pages[r[1]]) /\ ChunkAt(pages, r).live

\* The references from r on, read one after the other: readMultiLongValue and freeLongValue
\* stop where a chunk is not readable, and where a page comes up a second time, which they
\* take for a circle.
Chain(pages, r) ==
  LET walk[refs \in Seq(Refs) \ {<<>>}] ==
        LET end == Last(refs)
            next == IF Readable(pages, end) THEN ChunkAt(pages, end).next ELSE NoRef
        IN IF next = NoRef \/ \E k \in DOMAIN refs : refs[k][1] = next[1] THEN refs
           ELSE walk[Append(refs, next)]
  IN walk[<<r>>]

-----------------------------------------------------------------------------
(* Reading, writing and freeing a value *)

\* readLongValue; <<>> stands for its errors.
ReadValue(pages, d) ==
  IF d.flag = "inline" THEN d.value
  ELSE LET refs == IF d.flag = "single" THEN <<d.ref>> ELSE Chain(pages, d.ref)
           last == refs[Len(refs)]
       IN IF \A k \in DOMAIN refs : Readable(pages, refs[k])
          THEN IF d.flag = "multi" /\ ChunkAt(pages, last).next # NoRef THEN <<>>
               ELSE [k \in DOMAIN refs |-> ChunkAt(pages, refs[k]).piece]
          ELSE <<>>

\* Mutant of Plan: the chunks are written first to last.
PlanForward(v) == IF LenOf[v] <= ChunkMax THEN <<[len |-> LenOf[v], piece |-> <<v, 1>>]>>
                  ELSE [k \in 1..Len(Pieces(v)) |-> [len |-> NextLen + PieceLen(v, k), piece |-> <<v, k>>]]

\* writeLongValue.  The chunks of a chain are written last to first, so that each can refer
\* to the next.  Fails, and with it the whole call, when no page is left.
Plan(v) == IF LenOf[v] <= ChunkMax THEN <<[len |-> LenOf[v], piece |-> <<v, 1>>]>>
           ELSE LET n == Len(Pieces(v))
                IN [k \in 1..n |-> [len |-> NextLen + PieceLen(v, n + 1 - k), piece |-> <<v, n + 1 - k>>]]

Store(st, v) == FoldLeft(LAMBDA s, c : IF s.ok /\ Target(s, c.len) # {}
                                       THEN Alloc(s, c.len, c.piece) ELSE [s EXCEPT !.ok = FALSE],
                         [st EXCEPT !.ref = NoRef], Plan(v))

Write(st, v) ==
  IF LenOf[v] <= InlineMax THEN [st |-> st, desc |-> Inline(v)]
  ELSE LET s == Store(st, v)
       IN [st |-> s, desc |-> [flag |-> IF LenOf[v] <= ChunkMax THEN "single" ELSE "multi",
                               value |-> <<>>, ref |-> s.ref]]

\* Mutant of FreeValue: a page is freed with the first of its chunks.
FreeBeside(st, d) ==
  IF d.flag = "inline" THEN st
  ELSE FoldLeft(LAMBDA s, r : IF Readable(s.lval, r)
                              THEN [s EXCEPT !.lval[r[1]] = <<>>, !.used = @ \ {r[1]}] ELSE s, st,
                IF d.flag = "single" THEN <<d.ref>> ELSE Chain(st.lval, d.ref))

\* freeLongValue
FreeValue(st, d) ==
  IF d.flag = "inline" THEN st
  ELSE FoldLeft(FreeSlot, st, IF d.flag = "single" THEN <<d.ref>> ELSE Chain(st.lval, d.ref))

\* freeRowLongValues finds the end of row i at the offset of the row before, which is 0
\* once that row was deleted and the page rebuilt: then it finds no descriptor to free.
Found(i) == i > 1 => ~ rows[i - 1].packed
FreeRow(st, i) == IF rows[i].alive /\ Found(i) THEN FreeValue(st, rows[i].desc) ELSE st

-----------------------------------------------------------------------------
(* The calls; one that fails leaves the database as it was *)

State == [lval |-> lval, used |-> used, ref |-> NoRef, ok |-> TRUE]
Becomes(st) == lval' = st.lval /\ used' = st.used

Init == /\ lval = [p \in Pages |-> <<>>]
        /\ used = {}
        /\ rows = <<>>

\* Table.Insert
Insert(v) ==
  LET new == Write(State, v)
  IN /\ Len(rows) < MaxRows
     /\ new.st.ok
     /\ Becomes(new.st)
     /\ rows' = Append(rows, [alive |-> TRUE, packed |-> FALSE, desc |-> new.desc])

\* One row of an Update: the value it has is freed, the value it gets (it may be the same,
\* read before) is written, and the page is rebuilt around the row.
Update(i, v) ==
  LET new == Write(FreeRow(State, i), v)
  IN /\ rows[i].alive
     /\ new.st.ok
     /\ Becomes(new.st)
     /\ rows' = [j \in DOMAIN rows |->
                   IF j = i THEN [rows[i] EXCEPT !.desc = new.desc]
                   ELSE [rows[j] EXCEPT !.packed = ~ rows[j].alive]]

\* deleteAt
Delete(i) == /\ rows[i].alive
             /\ Becomes(FreeRow(State, i))
             /\ rows' = [rows EXCEPT ![i].alive = FALSE]

\* DropTable frees the values of all rows and forgets the page; what comes next is
\* another table's page.
DropTable == /\ rows # <<>>
             /\ Becomes(FoldLeft(FreeRow, State, [i \in DOMAIN rows |-> i]))
             /\ rows' = <<>>

Next == \/ \E v \in Values : Insert(v)
        \/ \E i \in DOMAIN rows : Delete(i) \/ \E v \in Values : Update(i, v)
        \/ DropTable

Spec == Init /\ [][Next]_vars

-----------------------------------------------------------------------------
(* What must hold *)

TypeOK == /\ lval \in [Pages -> Seq(Chunk)]
          /\ used \subseteq Pages
          /\ rows \in Seq(Row)

Alive == {i \in DOMAIN rows : rows[i].alive}
External == {i \in Alive : rows[i].desc.flag # "inline"}
LiveRefs == {r \in Refs : Readable(lval, r)}
Reached(i) == ToSet(IF rows[i].desc.flag = "single" THEN <<rows[i].desc.ref>>
                    ELSE Chain(lval, rows[i].desc.ref))

\* Freeing and reusing chunks and pages for one row never takes a chunk from another: no
\* chunk is reached from two rows, or from one chunk and a row that does not own it.
ChunksUnshared ==
  /\ \A i, j \in External : i # j => Reached(i) \cap Reached(j) = {}
  /\ \A r, s \in LiveRefs : r # s /\ ChunkAt(lval, r).next # NoRef
                            => ChunkAt(lval, r).next # ChunkAt(lval, s).next
  /\ \A i \in External, r \in LiveRefs : ChunkAt(lval, r).next # rows[i].desc.ref

\* The readers take a page that comes up twice for a circle: no chain has two chunks on a
\* page.  It hangs on three bytes: a full chunk never fits beside the shortest last one.
ChainsSpread ==
  \A r \in LiveRefs : LET refs == Chain(lval, r)
                          last == refs[Len(refs)]
                      IN Readable(lval, last) /\ ChunkAt(lval, last).next = NoRef

\* A page is taken as long as a chunk on it lives, and free as soon as none does.
PagesAccounted == \A p \in Pages :
  /\ p \in used <=> lval[p] # <<>>
  /\ p \in used <=> \E i \in DOMAIN lval[p] : lval[p][i].live

\* "Free external long value chains referenced by table rows" (DropTable): every chunk that
\* is not free belongs to a row.
NoneLeaked == LiveRefs \subseteq UNION {Reached(i) : i \in External}

\* Every row reads back the value it was last given.
Values1 == INSTANCE LongStore
             WITH Contents <- {Pieces(v) : v \in Values},
                  vals <- [i \in DOMAIN rows |-> IF rows[i].alive
                                                 THEN ReadValue(lval, rows[i].desc) ELSE Gone]
ValuesReadBack == Values1!Spec
=============================================================================
