------------------------------- MODULE Layout -------------------------------
(***************************************************************************)
(* Table definitions and the rows they describe (table.go, database.go,    *)
(* row.go): what CREATE TABLE and CreateTable make of a definition, how it *)
(* is written to its page and parsed again, where each column lies in a    *)
(* row, and the bytes of a row.                                            *)
(*                                                                         *)
(* A column is known by its position.  Its `off` is its place among the    *)
(* fixed-length bytes of a row or, of variable length, its number among    *)
(* such columns.  Memo and OLE columns are LongValue's subject.            *)
(***************************************************************************)
EXTENDS ColumnValue

CONSTANT MaxRow     \* bytes a row may have: the page without its header and one slot

ASSUME RowAssumption == MaxRow \in Nat /\ MaxRow < Base * Base

-----------------------------------------------------------------------------
(* Definitions *)

\* executeCreateTable, parseColumnDef: every key clause only makes its column required, and no
\* SQL statement gives a table an index.
SqlTable(defs) ==
  [cols |-> [i \in DOMAIN defs |-> [type |-> defs[i].type, len |-> defs[i].len,
                                    nullable |-> ~ defs[i].key /\ ~ defs[i].notnull,
                                    auto |-> defs[i].auto]],
   indexes |-> <<>>]

FixedCols(cols) == {i \in DOMAIN cols : ~ Variable(cols[i].type)}

\* validateTableDef
Accepted(def) ==
  LET auto == {i \in DOMAIN def.cols : def.cols[i].auto}
  IN /\ def.cols # <<>>
     /\ \A i \in DOMAIN def.cols : def.cols[i].type = "Text" => def.cols[i].len \in 0..255
     /\ Cardinality(auto) <= 1
     /\ \A i \in auto : def.cols[i].type \in Integral \ {"Byte"}
     /\ MapThenSumSet(LAMBDA i : Size[def.cols[i].type], FixedCols(def.cols)) <= MaxRow
     /\ \A x \in DOMAIN def.indexes :
          /\ Len(def.indexes[x].cols) \in 1..10
          /\ \A k \in DOMAIN def.indexes[x].cols :
               /\ def.indexes[x].cols[k] \in DOMAIN def.cols
               /\ def.indexes[x].primary => ~ def.cols[def.indexes[x].cols[k]].nullable

\* createTableInternal: a column without a length has that of its type.
ColLen(d) == IF d.len > 0 THEN d.len ELSE IF d.type = "Text" THEN 255 ELSE Size[d.type]

\* Mutant of Place: the lengths of the definition, 0 where it gives none.
PlaceByLength(cols, i) ==
  IF Variable(cols[i].type) THEN Cardinality({j \in 1..(i - 1) : Variable(cols[j].type)})
  ELSE MapThenSumSet(LAMBDA j : cols[j].len, {j \in FixedCols(cols) : j < i})

\* calculateOffsets: fixed-length columns follow each other by their lengths, which need not be
\* the sizes of their types; those of variable length are counted.
Place(cols, i) ==
  IF Variable(cols[i].type) THEN Cardinality({j \in 1..(i - 1) : Variable(cols[j].type)})
  ELSE MapThenSumSet(LAMBDA j : ColLen(cols[j]), {j \in FixedCols(cols) : j < i})

Columns(def) == [i \in DOMAIN def.cols |->
                   [type |-> def.cols[i].type, len |-> ColLen(def.cols[i]),
                    nullable |-> def.cols[i].nullable, auto |-> def.cols[i].auto,
                    off |-> Place(def.cols, i)]]

\* Mutant of WriteColumn: the length of a text in characters.
WriteColumnChars(cols, i) ==
  LET c == cols[i]  v == Variable(c.type)
  IN [type |-> c.type, index |-> i - 1, auto |-> c.auto,
      fixed |-> IF v THEN 0 ELSE c.off,
      var |-> IF v THEN Cardinality({j \in 1..(i - 1) : Variable(cols[j].type)}) ELSE 0,
      len |-> IF c.len = 0 THEN Size[c.type] ELSE c.len]

\* writeTableDefPage, writeColumnDef: the block of one column.  Whether it is nullable is not
\* part of it; variable-length columns are numbered anew.
WriteColumn(cols, i) ==
  LET c == cols[i]  v == Variable(c.type)  n == IF c.len = 0 THEN Size[c.type] ELSE c.len
  IN [type |-> c.type, index |-> i - 1, auto |-> c.auto,
      fixed |-> IF v THEN 0 ELSE c.off,
      var |-> IF v THEN Cardinality({j \in 1..(i - 1) : Variable(cols[j].type)}) ELSE 0,
      len |-> IF c.type = "Text" THEN 2 * n ELSE n]

WriteDef(cols) == [i \in DOMAIN cols |-> WriteColumn(cols, i)]

\* parseTableDef: every column is nullable from here on.
ParseDef(page) == [i \in DOMAIN page |->
                     [type |-> page[i].type, nullable |-> TRUE, auto |-> page[i].auto,
                      len |-> IF page[i].type = "Text" THEN page[i].len \div 2 ELSE page[i].len,
                      off |-> IF Variable(page[i].type) THEN page[i].var ELSE page[i].fixed]]

-----------------------------------------------------------------------------
(* Rows *)

U16(n) == <<n % Base, n \div Base>>
U16At(row, p) == row[p + 1] + row[p + 2] * Base

MaskLen(n) == (n + 7) \div 8
ColumnBit(i) == <<1, 2, 4, 8, 16, 32, 64, 128>>[((i - 1) % 8) + 1]
Mask(bits, n) == [j \in 1..MaskLen(n) |->
                    MapThenSumSet(LAMBDA i : ColumnBit(i), {i \in bits : (i - 1) \div 8 = j - 1})]
NullBit(row, n, i) ==
  (row[Len(row) - MaskLen(n) + 1 + ((i - 1) \div 8)] \div ColumnBit(i)) % 2 = 1

\* buildRowData: the number of columns, the fixed-length bytes at their offsets (a later column
\* over an earlier one), the variable-length ones end to end, where those end and begin, last
\* first, their number, and a bit for each column that has a value.
BuildRow(cols, vals) ==
  LET fixed == {i \in FixedCols(cols) : vals[i] # Nil}
      area == Max({0} \cup {cols[i].off + Size[cols[i].type] : i \in FixedCols(cols)})
      At(i) == (cols[i].off + 1)..(cols[i].off + Size[cols[i].type])
      cell(p) == LET at == {i \in fixed : p \in At(i)}
                 IN IF at = {} THEN 0
                    ELSE Written(cols[Max(at)].type, vals[Max(at)])[p - cols[Max(at)].off]
      vars == Without([i \in DOMAIN cols |-> i], FixedCols(cols))
      data == [k \in DOMAIN vars |-> IF vals[vars[k]] = Nil THEN <<>>
                                     ELSE Written(cols[vars[k]].type, vals[vars[k]])]
      start(k) == 2 + area + Len(FlattenSeq(SubSeq(data, 1, k - 1)))
  IN U16(Len(cols)) \o [p \in 1..area |-> cell(p)] \o FlattenSeq(data)
     \o U16(start(Len(vars) + 1)) \o FlattenSeq(Reverse([k \in DOMAIN vars |-> U16(start(k))]))
     \o U16(Len(vars)) \o Mask({i \in DOMAIN cols : vals[i] # Nil}, Len(cols))

\* parseRowAt, for a row this library wrote: its checks of the number of columns and of the
\* offsets against the length of the row never fail.
ParseRow(cols, row) ==
  LET n == Len(cols)
      trailer == Len(row) - MaskLen(n)
      fixed(c) == SubSeq(row, 2 + c.off + 1, 2 + c.off + Size[c.type])
      pos(c) == trailer - 4 - 2 * c.off
      var(c) == SubSeq(row, U16At(row, pos(c)) + 1, U16At(row, pos(c) - 2))
  IN [i \in DOMAIN cols |->
        IF ~ NullBit(row, n, i) THEN Nil
        ELSE Read(cols[i].type, IF Variable(cols[i].type) THEN var(cols[i]) ELSE fixed(cols[i]))]
=============================================================================
