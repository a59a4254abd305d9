------------------------------- MODULE Query --------------------------------
(***************************************************************************)
(* Conditions, SELECT, UPDATE and DELETE over the rows of a table          *)
(* (query.go).  A row is the sequence of its columns' values; a condition  *)
(* names a column by position, 0 for one the table does not have.  LIKE is *)
(* left out: it is Go's regular expressions.                               *)
(***************************************************************************)
EXTENDS ColumnValue

-----------------------------------------------------------------------------
(* Comparing *)

Printable == {"byte", "int16", "int32", "int", "int64", "float32", "float64", "string"}

\* compareEqual: nil is equal to nil alone, other values are equal if they print alike.
CompareEqual(a, b) == \/ a = Nil /\ b = Nil
                      \/ /\ a # Nil /\ b # Nil /\ a.s = b.s
                         /\ a.go = b.go \/ {a.go, b.go} \subseteq Printable

\* toFloat: 0 for every other kind, and for a text that is not a number.
Floats == {"float64", "float32", "int", "int32", "int64"}
Numeral(v) == v.go = "string" /\ Len(v.s) = 1 /\ v.s[1] \notin Letters
ToFloat(v) == IF v.go \in Floats \/ Numeral(v) THEN Number(v) ELSE 0

CompareLess(a, b) == ToFloat(a) < ToFloat(b)

-----------------------------------------------------------------------------
(* Conditions *)

SqlOps == {"=", "<>", "<", "<=", ">", ">=", "IN"}
Col(row, c) == IF c \in DOMAIN row THEN row[c] ELSE Nil

\* parseCondition: the value of an SQL condition is a text, and a condition without one of the
\* operators, IS NULL among them, becomes one with no column and no operator.
SqlCondition(c) == IF c.op \in SqlOps THEN [c EXCEPT !.val = Text(c.val.s)]
                   ELSE [c EXCEPT !.col = 0, !.op = "", !.val = Nil]

\* evaluateCondition; compareIn looks through lists, which SQL never has.
Evaluate(row, c) ==
  LET v == Col(row, c.col)
  IN CASE c.op = "="  -> CompareEqual(v, c.val)
       [] c.op = "<>" -> ~ CompareEqual(v, c.val)
       [] c.op = "<"  -> CompareLess(v, c.val)
       [] c.op = "<=" -> CompareLess(v, c.val) \/ CompareEqual(v, c.val)
       [] c.op = ">"  -> CompareLess(c.val, v)
       [] c.op = ">=" -> CompareLess(c.val, v) \/ CompareEqual(v, c.val)
       [] c.op = "IN" -> v # Nil /\ c.val.go = "list" /\ \E i \in DOMAIN c.val.s : CompareEqual(v, c.val.s[i])
       [] c.op = "IS NULL" -> v = Nil
       [] c.op = "IS NOT NULL" -> v # Nil
       [] OTHER -> FALSE

\* matchesConditions: from left to right, AND and OR of equal rank.
Matches(row, conds) ==
  conds = <<>> \/ FoldLeft(LAMBDA m, c : IF c.logic = "OR" THEN m \/ Evaluate(row, c)
                                         ELSE m /\ Evaluate(row, c),
                           Evaluate(row, conds[1]), Tail(conds))

\* Mutant of EvaluateRow: operators it does not know hold.
EvaluateRowLax(row, c) == c.op \notin {"=", "<>"} \/ Evaluate(row, c)

\* evaluateRowCondition: UPDATE and DELETE know two operators.
EvaluateRow(row, c) == c.op \in {"=", "<>"} /\ Evaluate(row, c)

\* executeUpdate, executeDelete: every condition must hold, whatever joins them.
Touches(row, conds) == \A i \in DOMAIN conds : EvaluateRow(row, conds[i])

-----------------------------------------------------------------------------
(* SELECT: a query is [where, offset, limit, fields, order]; limit -1 is none *)

\* shouldSwap: the first column in which the two differ decides.
ShouldSwap(a, b, order) ==
  LET differ == {k \in DOMAIN order : ~ CompareEqual(Col(a, order[k].col), Col(b, order[k].col))}
      o == order[Min(differ)]
  IN differ # {} /\ CompareLess(Col(a, o.col), Col(b, o.col)) = o.desc

\* sortResults: swaps two neighbours.
SwapAt(order, s, j) == IF ShouldSwap(s[j], s[j + 1], order)
                       THEN [s EXCEPT ![j] = s[j + 1], ![j + 1] = s[j]] ELSE s

\* Mutant of Round: the last pair of each round is left out.
RoundShort(order, s, i) ==
  FoldLeft(LAMBDA t, j : SwapAt(order, t, j), s, [j \in 1..(Len(s) - i - 1) |-> j])

\* sortResults: the inner loop of a bubble sort, and the outer.
Round(order, s, i) == FoldLeft(LAMBDA t, j : SwapAt(order, t, j), s, [j \in 1..(Len(s) - i) |-> j])
Sorted(rows, order) ==
  FoldLeft(LAMBDA s, i : Round(order, s, i), rows, [i \in 1..(Len(rows) - 1) |-> i])

\* Execute: filter, skip, stop, project, and only then sort.
Page(rows, q) ==
  LET hits == Without(rows, {r \in Range(rows) : ~ Matches(r, q.where)})
      last == IF q.limit < 0 THEN Len(hits) ELSE Min({Len(hits), q.offset + q.limit})
  IN SubSeq(hits, q.offset + 1, last)
Project(row, fields) == [i \in DOMAIN row |-> IF i \in fields THEN row[i] ELSE Nil]
Execute(rows, q) ==
  LET page == Page(rows, q)
      shown == [i \in DOMAIN page |-> Project(page[i], q.fields)]
  IN IF q.order = <<>> THEN shown ELSE Sorted(shown, q.order)
=============================================================================
