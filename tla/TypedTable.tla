----------------------------- MODULE TypedTable -----------------------------
(***************************************************************************)
(* A table with typed columns and indexes: what becomes of the values that *)
(* callers give (row.go, index.go, table.go), and what statements make of  *)
(* them (query.go).  Each action is one whole write transaction; how rows  *)
(* lie in pages, batches of rows, and failures in the middle are TableTxn. *)
(***************************************************************************)
EXTENDS Layout, Query

CONSTANTS Schemas,   \* definitions given to CreateTable
          Inputs,    \* Inputs[def]: the rows of values callers give
          Sets,      \* Sets[def]: the assignments of their Updates, values by column
          Wheres,    \* lists of conditions
          Queries,   \* SELECTs
          MaxRows,   \* bound: rows ever inserted
          MaxAuto    \* largest number of an AutoNumber column (2^31 - 1 in the code)

ASSUME BoundAssumption == MaxRows \in Nat /\ MaxAuto \in Nat

\* What callers can write down: definitions of typed columns, as many values as there are columns,
\* assignments to columns, and lists of conditions and of columns to order by.
ASSUME SchemaAssumption == \A d \in Schemas :
  /\ d.cols \in Seq([type : Types, len : Int, nullable : BOOLEAN, auto : BOOLEAN])
  /\ d.indexes \in Seq(Range(d.indexes))
  /\ \A ix \in Range(d.indexes) : ix.cols \in Seq(Nat)
ASSUME InputAssumption == \A d \in Schemas :
  /\ \A vals \in Inputs[d] : DOMAIN vals = DOMAIN d.cols
  /\ \A set \in Sets[d] : DOMAIN set \subseteq DOMAIN d.cols
  /\ \A vals \in Inputs[d] \cup Sets[d] : \A i \in DOMAIN vals : IsValue(vals[i])
ASSUME WhereAssumption == \A where \in Wheres :
  /\ where \in Seq(Range(where))
  /\ \A c \in Range(where) : c \in [col : Nat, op : STRING, val : {c.val}, logic : STRING]
ASSUME QueryAssumption == \A q \in Queries :
  q.offset \in Nat /\ q.limit \in Int /\ q.order \in Seq([col : Nat, desc : BOOLEAN])

VARIABLES def,      \* the definition the table was created with
          page,     \* the definition page
          cols,     \* the columns of a caller's handle
          rows,     \* rows by number, in scan order, as bytes
          leaf,     \* leaf[x]: the entries of index x
          auto,     \* the AutoNumber counter
          given,    \* history: the values last given for each row
          lossy     \* history: columns that were given a value outside Exact

vars == <<def, page, cols, rows, leaf, auto, given, lossy>>

\* The working copy of a transaction has the columns as parsed from the page.
Parsed == ParseDef(page)
Values(r) == ParseRow(Parsed, rows[r])
ColNums == DOMAIN def.cols
Indexes == DOMAIN def.indexes

-----------------------------------------------------------------------------
(* Keys *)

\* Mutant of IndexKey: composite keys without the lengths of their parts.
IndexKeyUnprefixed(x, vals) ==
  FlattenSeq([k \in DOMAIN def.indexes[x].cols |->
    LET c == def.indexes[x].cols[k]
    IN IF vals[c] = Nil THEN <<0>> ELSE <<127>> \o KeyOf(Parsed[c].type, vals[c])])

\* Index.EncodeKey: a flag for each column, and in composite keys the length of its part.
\* Indexes are ascending: createTableInternal makes no others.
IndexKey(x, vals) ==
  LET ix == def.indexes[x].cols
      part(c) == KeyOf(Parsed[c].type, vals[c])
      len(c) == IF Len(ix) > 1 THEN <<Len(part(c))>> ELSE <<>>
  IN FlattenSeq([k \in DOMAIN ix |-> IF vals[ix[k]] = Nil THEN <<0>>
                                     ELSE <<127>> \o len(ix[k]) \o part(ix[k])])

Taken(x, key) == {e.row : e \in {d \in leaf[x] : d.key = key}}

-----------------------------------------------------------------------------
(* Init and the operations *)

\* CreateTable: the handle has the columns as they were defined.
Init == /\ def \in {d \in Schemas : Accepted(d)}
        /\ cols = Columns(def) /\ page = WriteDef(cols)
        /\ rows = <<>> /\ given = <<>> /\ auto = 0
        /\ leaf = [x \in DOMAIN def.indexes |-> {}]
        /\ lossy = {}

\* What a commit does besides: writeTableDefPage writes the parsed columns, and replaceState
\* gives them to every handle.
Commit == page' = WriteDef(Parsed) /\ cols' = Parsed /\ UNCHANGED def

AutoCol(i) == def.cols[i].auto
Number32(n) == Value("int32", n)

\* Kinds and numbers that row, key and read-back agree about; the rest of what validateColumnValue
\* accepts is stored or found as something else.
Exact == [Boolean |-> {"bool"}, Byte |-> {"byte", "int"}, Int |-> {"int16", "int", "int32"},
          LongInt |-> {"int32", "int", "int64"}, BigInt |-> {"int64", "int"},
          Money |-> {"float64", "float32", "int"}, Float |-> {"float32", "float64"},
          Double |-> {"float64", "float32"}, DateTime |-> {"time"},
          Text |-> {"string"}, Binary |-> {"bytes"}]
IsExact(t, v) ==
  v = Nil \/ /\ v.go \in Exact[t]
             /\ ~ Variable(t) => InRange(t, Number(v))
             /\ t = "Money" => Number(v) \notin Dips
             /\ t = "Text" /\ v.s # <<>> => /\ Range(v.s) \cap (Astral \cup {Half}) = {}
                                          /\ v.s[1] # Mark /\ v.s[Len(v.s)] # Zero
Note(vals, C) == lossy' = lossy \cup {i \in C : ~ IsExact(def.cols[i].type, vals[i])}

\* Table.Insert.  A missing column is nil, which no parsed column refuses.
Insert(vals0) ==
  LET r == Len(rows) + 1
      vals == [i \in ColNums |-> IF AutoCol(i) THEN Number32(auto + 1) ELSE vals0[i]]
      hasAuto == \E i \in ColNums : AutoCol(i)
      row == BuildRow(Parsed, vals)
  IN /\ r <= MaxRows
     /\ hasAuto => auto < MaxAuto
     /\ \A i \in ColNums : Valid(Parsed[i], vals[i])
     /\ \A x \in Indexes : def.indexes[x].unique => Taken(x, IndexKey(x, vals)) = {}
     /\ Len(row) <= MaxRow
     /\ rows' = Append(rows, row)
     /\ given' = Append(given, vals)
     /\ leaf' = [x \in Indexes |-> leaf[x] \cup {[key |-> IndexKey(x, vals), row |-> r]}]
     /\ auto' = IF hasAuto THEN auto + 1 ELSE auto
     /\ Note(vals, ColNums)
     /\ Commit

Gone == <<>>
Live == {r \in DOMAIN rows : rows[r] # Gone}

\* Table.Update of rows R: the values are checked against the caller's handle, the rest of a row
\* is what it reads as, and so are the keys its entries are looked for with.  R has one row where
\* an indexed column is assigned: batches are TableTxn's.
Update(R, set) ==
  LET C == DOMAIN set
      new(r) == [i \in ColNums |-> IF i \in C THEN set[i] ELSE Values(r)[i]]
      Old(x, r) == [key |-> IndexKey(x, Values(r)), row |-> r]
      New(x, r) == [key |-> IndexKey(x, new(r)), row |-> r]
      moved(x) == {r \in R : Old(x, r) # New(x, r)}
  IN /\ \A i \in C : ~ AutoCol(i) /\ Valid(cols[i], set[i])
     /\ (\E x \in Indexes, k \in C : Contains(def.indexes[x].cols, k)) => Cardinality(R) = 1
     /\ \A x \in Indexes : def.indexes[x].unique =>
          \A r \in moved(x) : Taken(x, New(x, r).key) \subseteq {r}
     /\ \A r \in R, i \in ColNums : Valid(Parsed[i], new(r)[i])
     /\ \A r \in R : Len(BuildRow(Parsed, new(r))) <= MaxRow
     /\ rows' = [r \in DOMAIN rows |-> IF r \in R THEN BuildRow(Parsed, new(r)) ELSE rows[r]]
     /\ given' = [r \in DOMAIN rows |-> IF r \in R THEN [i \in ColNums |-> IF i \in C THEN set[i] ELSE given[r][i]]
                                        ELSE given[r]]
     /\ leaf' = [x \in Indexes |-> (leaf[x] \ {Old(x, r) : r \in moved(x)})
                                     \cup {New(x, r) : r \in moved(x)}]
     /\ Note(set, C)
     /\ Commit /\ UNCHANGED auto

\* Table.Delete of rows R.
Delete(R) ==
  /\ rows' = [r \in DOMAIN rows |-> IF r \in R THEN Gone ELSE rows[r]]
  /\ given' = [r \in DOMAIN rows |-> IF r \in R THEN Gone ELSE given[r]]
  /\ leaf' = [x \in Indexes |->
                leaf[x] \ {[key |-> IndexKey(x, Values(r)), row |-> r] : r \in R}]
  /\ Commit /\ UNCHANGED <<auto, lossy>>

\* Save and Open: the handle is parsed from the page.
Reopen == /\ cols' = Parsed
          /\ UNCHANGED <<def, page, rows, leaf, auto, given, lossy>>

Next == \/ \E vals \in Inputs[def] : Insert(vals)
        \/ \E R \in SUBSET Live \ {{}}, set \in Sets[def] : Update(R, set)
        \/ \E R \in SUBSET Live \ {{}} : Delete(R)
        \/ Reopen

Spec == Init /\ [][Next]_vars
-----------------------------------------------------------------------------
(* What must hold *)

\* A handle shows the definition the table was created with, through every rewriting of its page
\* and every reopening, but for which columns are nullable: that the page does not say.
Shape(C) == [i \in DOMAIN C |-> [C[i] EXCEPT !.nullable = TRUE]]
TypeOK == /\ def \in Schemas /\ auto \in 0..MaxAuto /\ lossy \subseteq ColNums
          /\ Len(rows) <= MaxRows /\ DOMAIN given = DOMAIN rows
          /\ \A x \in Indexes : \A e \in leaf[x] : e.row \in DOMAIN rows
          /\ Shape(cols) = Shape(Columns(def)) /\ Parsed = Shape(Columns(def))

\* No caller's Length leaves a fixed-length column less room than its type takes.
Roomy == \A i \in FixedCols(def.cols) : def.cols[i].len \notin 1..(Size[def.cols[i].type] - 1)

\* "return an error rather than silently writing" (README): a value of a kind the column has a
\* representation for reads back as it was given, in the column's own kind, whatever was
\* inserted, updated and deleted around it.
ReadsAsGiven ==
  Roomy => \A r \in Live, i \in ColNums :
    LET v == given[r][i]  t == def.cols[i].type
    IN IsExact(t, v) => Values(r)[i] = IF v = Nil THEN Nil ELSE [go |-> Native[t], s |-> v.s]

\* An index over columns that were given such values only has an entry for exactly the rows
\* whose columns are equal to the values looked for, texts without regard to case.  So lookups
\* find a row if there is one, and a unique index refuses a row if and only if it is a duplicate.
Same(t, a, b) == (a = Nil) = (b = Nil) /\ (IF t = "Text" THEN Lower(a.s) = Lower(b.s) ELSE a.s = b.s)
LookupsExact ==
  \A x \in Indexes :
    LET ix == Range(def.indexes[x].cols)
    IN Roomy /\ ix \cap lossy = {} =>
         \A vals \in Inputs[def] :
           (\A i \in ix : IsExact(def.cols[i].type, vals[i])) =>
             Taken(x, IndexKey(x, vals))
               = {r \in Live : \A i \in ix : Same(def.cols[i].type, Values(r)[i], vals[i])}

\* An UPDATE or DELETE statement changes no row that SELECT would not show for the same WHERE,
\* and changes just those if AND joins conditions with = and <>.
Sql(where) == [i \in DOMAIN where |-> SqlCondition(where[i])]
WritesWithinSelect ==
  \A where \in Wheres :
    LET touched == {r \in Live : Touches(Values(r), Sql(where))}
        shown == {r \in Live : Matches(Values(r), Sql(where))}
    IN /\ touched \subseteq shown
       /\ (\A i \in DOMAIN where : where[i].op \in {"=", "<>"} /\ where[i].logic = "AND") => touched = shown

\* ORDER BY orders the rows that OFFSET and LIMIT leave by the numbers of their columns, and
\* loses and repeats none of them.
Scan == LET live == Without(rows, {Gone}) IN [i \in DOMAIN live |-> ParseRow(Parsed, live[i])]
InOrder(a, b, order) ==
  LET differ == {k \in DOMAIN order : Col(a, order[k].col).s # Col(b, order[k].col).s}
      o == order[Min(differ)]
  IN differ = {} \/ (Number(Col(a, o.col)) < Number(Col(b, o.col))) = ~ o.desc
OrderedByNumbers ==
  \A q \in Queries :
    LET out == Execute(Scan, q)  taken == Page(Scan, q)
    IN /\ \A row \in Range(out) :
            Cardinality({i \in DOMAIN out : out[i] = row})
              = Cardinality({i \in DOMAIN taken : Project(taken[i], q.fields) = row})
       /\ Len(out) = Len(taken)
       /\ (\A i \in DOMAIN out, k \in DOMAIN q.order : Col(out[i], q.order[k].col).go \in Floats) =>
            \A i, j \in DOMAIN out : i < j => InOrder(out[i], out[j], q.order)
=============================================================================
